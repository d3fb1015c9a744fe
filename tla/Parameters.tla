---------------------------- MODULE Parameters ----------------------------
(***************************************************************************)
(* How the text of a query string or of a form becomes a table             *)
(* (src/src/request.cpp:352-377, src/src/util.cpp:34-149).  A text is a    *)
(* sequence of bytes.  The table is libapr's: a name that comes again is   *)
(* merged into the entry it has.                                           *)
(***************************************************************************)
EXTENDS Integers, Sequences, SequencesExt

NUL == 0
SPACE == 32
PERCENT == 37
AMP == 38
PLUS == 43
COMMA == 44
EQUALS == 61

(* Keys ignore the case of letters.                                        *)
FoldByte(c) == IF c \in 65..90 THEN c + 32 ELSE c
FoldCase(s) == [i \in DOMAIN s |-> FoldByte(s[i])]

(* Two values of a key.                                                    *)
Glue(old, new) == old \o <<COMMA, SPACE>> \o new

T == INSTANCE AprTable WITH Fold <- FoldCase, Glued <- Glue

(* find: where a byte is first, 0 if it is not there.                      *)
Position(s, c) ==
    LET places == {n \in DOMAIN s : s[n] = c}
    IN  IF places = {} THEN 0 ELSE Min(places)

(* split: what getline makes of a text, which has no item behind the last  *)
(* delimiter.                                                              *)
Split(s, delimiter) ==
    LET cut[n \in 0..Len(s)] ==
            IF n = 0 THEN << <<>> >>
            ELSE LET before == cut[n - 1]
                 IN  IF s[n] = delimiter THEN Append(before, <<>>)
                     ELSE Append(Front(before), Append(Last(before), s[n]))
        items == cut[Len(s)]
    IN  IF Last(items) = <<>> THEN Front(items) ELSE items

(* hex2int, in the arithmetic of unsigned char; 255 is no digit.           *)
OrSpace(x) == IF (x \div 32) % 2 = 1 THEN x ELSE x + 32
(* Mistake: the digit is computed in a signed type.                        *)
HexToIntSigned(c) ==
    LET digit == c - 48
        hex == IF digit <= 9 THEN digit ELSE OrSpace(digit + 47) - 86
    IN  IF hex > 15 THEN 255 ELSE hex

HexToInt(c) ==
    LET digit == (c - 48) % 256
        hex == IF digit <= 9 THEN digit
               ELSE (OrSpace((digit + 47) % 256) - 86) % 256
    IN  IF hex > 15 THEN 255 ELSE hex

IsEscape(s, i) ==
    /\ s[i] = PERCENT
    /\ i + 2 <= Len(s) /\ HexToInt(s[i + 1]) # 255 /\ HexToInt(s[i + 2]) # 255

CString(s) ==
    IF Position(s, NUL) = 0 THEN s ELSE SubSeq(s, 1, Position(s, NUL) - 1)

(* What a round of the loop of url_decode copies, and how far it gets.     *)
EscapedByte(s, i) == 16 * HexToInt(s[i + 1]) + HexToInt(s[i + 2])
PlainByte(c) == IF c = PLUS THEN SPACE ELSE c

(* Mistake: the two digits of an escape stay in the text.                  *)
RoundKeeps(s, at) ==
    IF at.src > Len(s) THEN at
    ELSE [src |-> at.src + 1,
          dst |-> Append(at.dst, IF IsEscape(s, at.src) THEN EscapedByte(s, at.src)
                                 ELSE PlainByte(s[at.src]))]

Round(s, at) ==
    IF at.src > Len(s) THEN at
    ELSE IF IsEscape(s, at.src)
         THEN [src |-> at.src + 3, dst |-> Append(at.dst, EscapedByte(s, at.src))]
    ELSE [src |-> at.src + 1, dst |-> Append(at.dst, PlainByte(s[at.src]))]

(* url_decode of a query.  The result is a C string.                       *)
UrlDecode(s) ==
    LET after[n \in 0..Len(s)] ==
            IF n = 0 THEN [src |-> 1, dst |-> <<>>] ELSE Round(s, after[n - 1])
    IN  CString(after[Len(s)].dst)

(* One item of a query string: it counts when it has an equals sign and    *)
(* something behind it.                                                    *)
ParseItem(t, item) ==
    LET found == Position(item, EQUALS)
    IN  IF found \in {0, Len(item)} THEN t
        ELSE T!Merge(t, UrlDecode(SubSeq(item, 1, found - 1)),
                     UrlDecode(SubSeq(item, found + 1, Len(item))))

(* parse_query_string, of a text that is a C string itself.                *)
ParseQueryString(s) ==
    LET items == Split(CString(s), AMP)
        table[n \in 0..Len(items)] ==
            IF n = 0 THEN <<>> ELSE ParseItem(table[n - 1], items[n])
    IN  table[Len(items)]

===========================================================================
