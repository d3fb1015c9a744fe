------------------------ MODULE RhtmlScannerProofs ------------------------
(***************************************************************************)
(* Theorems of RhtmlScanner, for every alphabet and every template.        *)
(***************************************************************************)
EXTENDS RhtmlScanner, TLAPS

---------------------------------------------------------------------------
(* What Ruby makes of a piece is a reading again.                          *)

LEMMA GoTyped ==
    ASSUME NEW r \in Reading, NEW from, NEW to \in Mode
    PROVE  /\ Go(r, from, to) \in Reading
           /\ Go(r, from, to).out = r.out
           /\ Go(r, from, to).mode = IF r.mode \in from THEN to ELSE "astray"
  BY DEF Go, Reading, Mode

LEMMA DoTyped ==
    ASSUME NEW r \in Reading, NEW effect \in {"print", "run", "eval", "show"},
           NEW c \in Char \union {NEWLINE}
    PROVE  /\ Do(r, effect, c) \in Reading
           /\ Do(r, effect, c).mode = r.mode
           /\ r.mode # "astray" =>
                 Do(r, effect, c).out = Append(r.out, <<effect, c>>)
  <1>1. <<effect, c>> \in Act
    BY DEF Act
  <1>2. Append(r.out, <<effect, c>>) \in Seq(Act)
    BY <1>1 DEF Reading
  <1> QED BY <1>2 DEF Do, Reading

LEMMA PiecesTyped ==
    ASSUME NEW r \in Reading
    PROVE  /\ PrintString(r) \in Reading /\ EndString(r) \in Reading
           /\ EndStringLine(r) \in Reading /\ PrintValue(r) \in Reading
           /\ EndValue(r) \in Reading /\ Semicolon(r) \in Reading
           /\ EndCodeLine(r) \in Reading
  BY GoTyped, DoTyped DEF PrintString, EndString, EndStringLine, PrintValue,
     EndValue, Semicolon, EndCodeLine, Mode

LEMMA CharactersTyped ==
    ASSUME NEW r \in Reading, NEW c \in Char
    PROVE  Raw(r, c) \in Reading /\ Escaped(r, c) \in Reading
  BY GoTyped, DoTyped DEF Raw, Escaped, Mode

LEMMA ChangedTyped ==
    ASSUME NEW r \in Reading, NEW begun
    PROVE  Changed(r, begun) \in Reading
  BY PiecesTyped DEF Changed

(* Every rule of the scanner keeps the types.                              *)
THEOREM TypeStep == TypeOK /\ [Next]_vars => TypeOK'
  <1> SUFFICES ASSUME TypeOK, [Next]_vars PROVE TypeOK'
    OBVIOUS
  <1>1. CASE Begin
    BY <1>1 DEF Begin, TypeOK
  <1>2. ASSUME NEW c \in Char, Read(c)
        PROVE  TypeOK'
    <2>1. whole' \in Reading
      BY <1>2, PiecesTyped, CharactersTyped DEF Read, TypeOK
    <2>2. input' \in Seq(Char \union {NEWLINE, ESCAPE})
      BY <1>2 DEF Read, TypeOK
    <2> QED BY <1>2, <2>1, <2>2 DEF Read, TypeOK
  <1>3. CASE OpenCode
    BY <1>3, ChangedTyped DEF OpenCode, ChangeStarts, TypeOK
  <1>4. CASE OpenValue
    BY <1>4, ChangedTyped, PiecesTyped DEF OpenValue, TypeOK
  <1>5. CASE Close
    BY <1>5, ChangedTyped, PiecesTyped DEF Close, ChangeStarts, TypeOK
  <1>6. CASE OpenComment
    BY <1>6, ChangedTyped DEF OpenComment, ChangeStarts, TypeOK
  <1>7. CASE CloseComment
    BY <1>7, ChangedTyped DEF CloseComment, ChangeStarts, TypeOK
  <1>8. CASE CloseCommentDashes
    BY <1>8 DEF CloseCommentDashes, TypeOK
  <1>9. CASE EndLine
    <2>1. whole' \in Reading /\ text' \in Reading
      BY <1>9, PiecesTyped DEF EndLine, TypeOK
    <2>2. input' \in Seq(Char \union {NEWLINE, ESCAPE})
      BY <1>9 DEF EndLine, TypeOK
    <2> QED BY <1>9, <2>1, <2>2 DEF EndLine, TypeOK
  <1>10. CASE End
    BY <1>10, ChangedTyped DEF End, ChangeStarts, TypeOK
  <1>11. CASE SkipEscape
    <2>1. input' \in Seq(Char \union {NEWLINE, ESCAPE})
      BY <1>11 DEF SkipEscape, TypeOK
    <2> QED BY <1>11, <2>1 DEF SkipEscape, TypeOK
  <1>12. CASE UNCHANGED vars
    BY <1>12 DEF vars, TypeOK
  <1> QED BY <1>1, <1>2, <1>3, <1>4, <1>5, <1>6, <1>7, <1>8, <1>9, <1>10,
             <1>11, <1>12 DEF Next, Lexeme, Comment

---------------------------------------------------------------------------
(* The modes Ruby goes through.                                            *)

LEMMA PieceModes ==
    ASSUME NEW r \in Reading
    PROVE  /\ r.mode = "start" => /\ PrintString(r).mode = "string"
                                  /\ PrintString(r).out = r.out
                                  /\ PrintValue(r).mode = "value"
                                  /\ PrintValue(r).out = r.out
           /\ r.mode = "string" =>
                 /\ EndString(r).mode = "start"
                 /\ EndString(r).out = r.out
                 /\ EndStringLine(r).mode = "start"
                 /\ EndStringLine(r).out = Append(r.out, <<"print", NEWLINE>>)
           /\ r.mode = "value" =>
                 /\ EndValue(r).mode = "code"
                 /\ EndValue(r).out = Append(r.out, <<"show", NEWLINE>>)
           /\ r.mode \in {"start", "code"} =>
                 /\ Semicolon(r).mode = "start"
                 /\ Semicolon(r).out = r.out
                 /\ EndCodeLine(r).mode = "start"
                 /\ EndCodeLine(r).out = Append(r.out, <<"run", NEWLINE>>)
  <1>1. /\ "start" \in Mode /\ "string" \in Mode
        /\ "value" \in Mode /\ "code" \in Mode
    BY DEF Mode
  <1>2. r.mode = "start" => /\ PrintString(r).mode = "string"
                            /\ PrintString(r).out = r.out
                            /\ PrintValue(r).mode = "value"
                            /\ PrintValue(r).out = r.out
    BY <1>1, GoTyped DEF PrintString, PrintValue
  <1>3. ASSUME r.mode = "string"
        PROVE  /\ EndString(r).mode = "start" /\ EndString(r).out = r.out
               /\ EndStringLine(r).mode = "start"
               /\ EndStringLine(r).out = Append(r.out, <<"print", NEWLINE>>)
    <2>1. /\ EndString(r) \in Reading
          /\ EndString(r).mode = "start" /\ EndString(r).out = r.out
      BY <1>1, <1>3, GoTyped DEF EndString
    <2> QED BY <2>1, DoTyped DEF EndStringLine
  <1>4. ASSUME r.mode = "value"
        PROVE  /\ EndValue(r).mode = "code"
               /\ EndValue(r).out = Append(r.out, <<"show", NEWLINE>>)
    <2> DEFINE g == Go(r, {"value"}, "code")
    <2>1. g \in Reading /\ g.mode = "code" /\ g.out = r.out
      BY <1>1, <1>4, GoTyped
    <2> HIDE DEF g
    <2>2. /\ Do(g, "show", NEWLINE).mode = "code"
          /\ Do(g, "show", NEWLINE).out = Append(r.out, <<"show", NEWLINE>>)
      BY <2>1, DoTyped
    <2> QED BY <2>2 DEF EndValue, g
  <1>5. ASSUME r.mode \in {"start", "code"}
        PROVE  /\ Semicolon(r).mode = "start" /\ Semicolon(r).out = r.out
               /\ EndCodeLine(r).mode = "start"
               /\ EndCodeLine(r).out = Append(r.out, <<"run", NEWLINE>>)
    <2>1. /\ Semicolon(r) \in Reading
          /\ Semicolon(r).mode = "start" /\ Semicolon(r).out = r.out
      BY <1>1, <1>5, GoTyped DEF Semicolon
    <2> QED BY <2>1, DoTyped DEF EndCodeLine, Semicolon
  <1> QED BY <1>2, <1>3, <1>4, <1>5

LEMMA CharacterModes ==
    ASSUME NEW r \in Reading, NEW c \in Char
    PROVE  /\ r.mode = "string" =>
                 /\ Escaped(r, c).mode = "string"
                 /\ Escaped(r, c).out = Append(r.out, <<"print", c>>)
           /\ r.mode \in {"start", "code"} =>
                 /\ Raw(r, c).mode = "code"
                 /\ Raw(r, c).out = Append(r.out, <<"run", c>>)
           /\ r.mode = "value" =>
                 /\ Raw(r, c).mode = "value"
                 /\ Raw(r, c).out = Append(r.out, <<"eval", c>>)
  <1>1. "string" \in Mode /\ "code" \in Mode /\ c \in Char \union {NEWLINE}
    BY DEF Mode
  <1>2. ASSUME r.mode = "string"
        PROVE  /\ Escaped(r, c).mode = "string"
               /\ Escaped(r, c).out = Append(r.out, <<"print", c>>)
    <2> DEFINE g == Go(r, {"string"}, "string")
    <2>1. g \in Reading /\ g.mode = "string" /\ g.out = r.out
      BY <1>1, <1>2, GoTyped
    <2> HIDE DEF g
    <2>2. /\ Do(g, "print", c).mode = g.mode
          /\ g.mode # "astray" => Do(g, "print", c).out = Append(g.out, <<"print", c>>)
      BY <1>1, <2>1, DoTyped
    <2>3. /\ Do(g, "print", c).mode = "string"
          /\ Do(g, "print", c).out = Append(r.out, <<"print", c>>)
      BY <2>1, <2>2
    <2> QED BY <2>3 DEF Escaped, g
  <1>3. ASSUME r.mode \in {"start", "code"}
        PROVE  /\ Raw(r, c).mode = "code"
               /\ Raw(r, c).out = Append(r.out, <<"run", c>>)
    <2> DEFINE g == Go(r, {"start", "code"}, "code")
    <2>1. g \in Reading /\ g.mode = "code" /\ g.out = r.out
      BY <1>1, <1>3, GoTyped
    <2> HIDE DEF g
    <2>2. /\ Do(g, "run", c).mode = g.mode
          /\ g.mode # "astray" => Do(g, "run", c).out = Append(g.out, <<"run", c>>)
      BY <1>1, <2>1, DoTyped
    <2>3. /\ Do(g, "run", c).mode = "code"
          /\ Do(g, "run", c).out = Append(r.out, <<"run", c>>)
      BY <2>1, <2>2
    <2>4. Raw(r, c) = Do(g, "run", c)
      BY <1>3 DEF Raw, g
    <2> QED BY <2>3, <2>4
  <1>4. ASSUME r.mode = "value"
        PROVE  /\ Raw(r, c).mode = "value"
               /\ Raw(r, c).out = Append(r.out, <<"eval", c>>)
    BY <1>1, <1>4, DoTyped DEF Raw
  <1> QED BY <1>2, <1>3, <1>4

(* Every rule keeps the scanner, the parser and Ruby in agreement.         *)
THEOREM ScanStep == TypeOK /\ ScanInv /\ [Next]_vars => ScanInv'
  <1> SUFFICES ASSUME TypeOK, ScanInv, [Next]_vars, ~ commented'
               PROVE  ScanInv'
    BY DEF ScanInv
  <1> USE DEF TypeOK
  <1>0. ~ commented
    BY DEF Next, Lexeme, Comment, Begin, Read, OpenCode, OpenValue, Close,
           OpenComment, CloseComment, CloseCommentDashes, EndLine, SkipEscape,
           End, vars
  <1>1. CASE Begin
    BY <1>0, <1>1 DEF Begin, ScanInv
  <1>2. ASSUME NEW c \in Char, Read(c)
        PROVE  ScanInv'
    <2>1. CASE condition = "TEXT"
      <3>1. whole'.mode = "string"
        BY <1>0, <1>2, <2>1, PiecesTyped, PieceModes, CharacterModes
           DEF Read, ScanInv
      <3> QED BY <1>0, <1>2, <2>1, <3>1 DEF Read, ScanInv
    <2>2. CASE condition = "CODE"
      <3>1. whole'.mode = IF state = "CODE" THEN "code" ELSE "value"
        BY <1>0, <1>2, <2>2, CharacterModes DEF Read, ScanInv
      <3> QED BY <1>0, <1>2, <2>2, <3>1 DEF Read, ScanInv
    <2> QED BY <1>0, <1>2, <2>1, <2>2 DEF Read, ScanInv
  <1>3. condition = "TEXT" => Changed(whole, started).mode = "start"
    BY <1>0, PieceModes DEF Changed, ScanInv
  <1>4. CASE OpenCode
    BY <1>0, <1>3, <1>4 DEF OpenCode, Changed, ChangeStarts, ScanInv
  <1>5. CASE OpenValue
    <2>1. whole'.mode = "value"
      BY <1>3, <1>5, ChangedTyped, PieceModes DEF OpenValue
    <2> QED BY <1>0, <1>5, <2>1 DEF OpenValue, ScanInv
  <1>6. CASE Close
    <2>1. whole'.mode = "string"
      BY <1>0, <1>6, PiecesTyped, PieceModes DEF Close, Changed, ScanInv
    <2> QED BY <1>0, <1>6, <2>1 DEF Close, ChangeStarts, ScanInv
  <1>7. CASE Comment
    BY <1>0, <1>7 DEF Comment, OpenComment, CloseComment, CloseCommentDashes,
                      ScanInv
  <1>8. CASE EndLine
    <2>1. CASE condition = "TEXT"
      <3>1. whole'.mode = "start"
        BY <1>0, <1>8, <2>1, PiecesTyped, PieceModes DEF EndLine, ScanInv
      <3> QED BY <1>0, <1>8, <2>1, <3>1 DEF EndLine, ScanInv
    <2>2. CASE condition = "CODE"
      <3>1. whole'.mode = IF state = "CODE" THEN "start" ELSE "value"
        BY <1>0, <1>8, <2>2, PieceModes DEF EndLine, ScanInv
      <3> QED BY <1>0, <1>8, <2>2, <3>1 DEF EndLine, ScanInv
    <2> QED BY <1>0, <1>8, <2>1, <2>2 DEF EndLine, ScanInv
  <1>9. CASE End
    <2>1. ~ started' => whole' = whole /\ ~ started
      BY <1>9 DEF End, Changed, ChangeStarts
    <2> QED BY <1>0, <1>9, <2>1 DEF End, ScanInv
  <1>10. CASE SkipEscape
    BY <1>0, <1>10 DEF SkipEscape, ScanInv
  <1>11. CASE UNCHANGED vars
    BY <1>0, <1>11 DEF vars, ScanInv
  <1> QED BY <1>1, <1>2, <1>4, <1>5, <1>6, <1>7, <1>8, <1>9, <1>10, <1>11
          DEF Next, Lexeme

---------------------------------------------------------------------------
(* The theorems.                                                           *)

LEMMA InitTyped == Init => TypeOK /\ ScanInv /\ ~ commented
  <1> SUFFICES ASSUME Init PROVE TypeOK /\ ScanInv /\ ~ commented
    OBVIOUS
  <1>1. Nothing \in Reading /\ Nothing.mode = "start"
    BY DEF Nothing, Reading, Mode
  <1>2. input \in Seq(Char \union {NEWLINE, ESCAPE})
    BY DEF Init
  <1>3. TypeOK
    BY <1>1, <1>2 DEF Init, TypeOK
  <1>4. ScanInv
    BY <1>1 DEF Init, ScanInv
  <1> QED BY <1>3, <1>4 DEF Init

(* The parser's state and Ruby's reading of the program agree, for every   *)
(* template.                                                               *)
THEOREM Scanned == Spec => [](TypeOK /\ ScanInv)
  <1> QED BY InitTyped, TypeStep, ScanStep, PTL DEF Spec

(* Every variable of the scanner has its type.                             *)
THEOREM Typed == Spec => []TypeOK
  BY Scanned, PTL

(* The scanner and the parser agree on the block they are in, and Ruby on  *)
(* what the current line leaves open.                                      *)
THEOREM BlocksAgree == Spec => []ScanInv
  BY Scanned, PTL

(* Without comment blocks, no text of a template leaves its string and no  *)
(* block of it is opened inside another (rhtml.cpp:32-126).                *)
THEOREM TextStaysText == Spec => []NothingAstray
  <1>1. TypeOK /\ ScanInv => NothingAstray
    BY DEF TypeOK, ScanInv, NothingAstray
  <1> QED BY <1>1, Scanned, PTL

(* What the program holds between two blocks is complete Ruby              *)
(* (rhtml.cpp:128-168).                                                    *)
THEOREM LinesAreComplete == Spec => []LinesEvaluate
  <1>1. ScanInv => LinesEvaluate
    BY DEF ScanInv, LinesEvaluate
  <1> QED BY <1>1, Scanned, PTL

---------------------------------------------------------------------------
(* The scanner implements the meaning of a template.                       *)

PlainNext == Lexeme \/ OneLineExpression \/ EndAfterLine
PlainInv == TypeOK /\ ScanInv /\ ~ commented

LEMMA PlainStep == PlainInv /\ [PlainNext]_vars => PlainInv'
  <1> SUFFICES ASSUME PlainInv, [PlainNext]_vars PROVE PlainInv'
    OBVIOUS
  <1>1. [Next]_vars
    BY DEF PlainNext, Next, OneLineExpression, EndAfterLine, EndOutside
  <1>2. ~ commented'
    BY DEF PlainInv, PlainNext, Lexeme, OneLineExpression, EndAfterLine,
           EndOutside, Begin, Read, OpenCode, OpenValue, Close, EndLine, End, vars
  <1> QED BY <1>1, <1>2, TypeStep, ScanStep DEF PlainInv

LEMMA MeaningStep == PlainInv /\ [PlainNext]_vars => [Meaning!Next]_(Meaning!vars)
  <1> SUFFICES ASSUME PlainInv, [PlainNext]_vars
               PROVE  Meaning!Next \/ UNCHANGED Meaning!vars
    OBVIOUS
  <1> USE DEF Meaning!vars
  <1>0. TypeOK /\ ScanInv /\ ~ commented
    BY DEF PlainInv
  <1>1. CASE Begin
    BY <1>1 DEF Begin
  <1>2. ASSUME NEW c \in Char, Read(c)
        PROVE  Meaning!Next
    <2>1. CASE condition = "TEXT"
      <3>1. whole'.out = Append(whole.out, <<"print", c>>)
        <4>1. state = "TEXT" /\ whole \in Reading
          BY <1>0, <2>1 DEF ScanInv, TypeOK
        <4>2. CASE started
          BY <1>0, <1>2, <2>1, <4>1, <4>2, CharacterModes DEF Read, ScanInv
        <4>3. CASE ~ started
          <5>1. /\ PrintString(whole) \in Reading
                /\ PrintString(whole).mode = "string"
                /\ PrintString(whole).out = whole.out
            BY <1>0, <2>1, <4>1, <4>3, PiecesTyped, PieceModes DEF ScanInv
          <5> QED BY <1>2, <4>1, <4>3, <5>1, CharacterModes DEF Read
        <4> QED BY <1>0, <4>2, <4>3 DEF TypeOK
      <3> QED BY <1>2, <2>1, <3>1 DEF Read, Meaning!Next, Meaning!Read, Meaning!Effect
    <2>2. CASE condition = "CODE"
      <3>1. whole'.out = Append(whole.out,
                                <<IF state = "VAR" THEN "eval" ELSE "run", c>>)
        BY <1>0, <1>2, <2>2, CharacterModes DEF Read, ScanInv, TypeOK
      <3> QED BY <1>0, <1>2, <2>2, <3>1
              DEF Read, ScanInv, Meaning!Next, Meaning!Read, Meaning!Effect
    <2> QED BY <1>0, <1>2, <2>1, <2>2 DEF Read, ScanInv
  <1>3. condition = "TEXT" => /\ Changed(whole, started) \in Reading
                              /\ Changed(whole, started).mode = "start"
                              /\ Changed(whole, started).out = whole.out
    BY <1>0, PieceModes, ChangedTyped DEF Changed, ScanInv, TypeOK
  <1>4. CASE OpenCode
    BY <1>3, <1>4 DEF OpenCode, Meaning!Next, Meaning!Open
  <1>5. CASE OpenValue
    <2>1. whole'.out = whole.out
      BY <1>3, <1>5, PieceModes DEF OpenValue
    <2> QED BY <1>5, <2>1 DEF OpenValue, Meaning!Next, Meaning!Open
  <1>6. CASE Close
    <2>1. CASE state = "CODE"
      <3>1. whole' = PrintString(IF started THEN Semicolon(whole) ELSE whole)
        BY <1>6, <2>1 DEF Close, Changed
      <3>2. whole'.out = whole.out
        <4>1. whole \in Reading
          BY <1>0 DEF TypeOK
        <4>2. whole.mode \in IF started THEN {"start", "code"} ELSE {"start"}
          BY <1>0, <1>6, <2>1 DEF Close, ScanInv
        <4>3. CASE started
          <5>1. /\ Semicolon(whole) \in Reading
                /\ Semicolon(whole).mode = "start"
                /\ Semicolon(whole).out = whole.out
            BY <4>1, <4>2, <4>3, PiecesTyped, PieceModes
          <5>2. PrintString(Semicolon(whole)).out = whole.out
            BY <5>1, PieceModes
          <5> QED BY <3>1, <4>3, <5>2
        <4>4. CASE ~ started
          BY <3>1, <4>1, <4>2, <4>4, PieceModes
        <4> QED BY <4>3, <4>4
      <3> QED BY <1>6, <2>1, <3>2 DEF Close, Meaning!Next, Meaning!Close
    <2>2. CASE state # "CODE"
      <3> DEFINE e == EndValue(whole)
      <3>1. state = "VAR" /\ whole.mode = "value" /\ whole \in Reading
        BY <1>0, <1>6, <2>2 DEF Close, ScanInv, TypeOK
      <3>2. /\ e \in Reading /\ e.mode = "code"
            /\ e.out = Append(whole.out, <<"show", NEWLINE>>)
        BY <3>1, PiecesTyped, PieceModes
      <3>3. whole' = PrintString(Semicolon(e))
        BY <1>6, <3>1 DEF Close, Changed
      <3> HIDE DEF e
      <3>4. whole'.out = e.out
        BY <3>2, <3>3, PiecesTyped, PieceModes
      <3> QED BY <1>6, <3>1, <3>2, <3>4 DEF Close, Meaning!Next, Meaning!Close
    <2> QED BY <2>1, <2>2
  <1>7. CASE OneLineExpression
    <2>1. EndLine /\ state # "VAR" /\ NEWLINE \in (Char \union {ESCAPE}) \union {NEWLINE}
      BY <1>7 DEF OneLineExpression
    <2>2. CASE condition = "TEXT"
      <3> DEFINE r == IF started THEN whole ELSE PrintString(whole)
      <3>1. whole \in Reading
        BY <1>0 DEF TypeOK
      <3>2. whole.mode = IF started THEN "string" ELSE "start"
        BY <1>0, <2>2 DEF ScanInv
      <3>3. r \in Reading /\ r.mode = "string" /\ r.out = whole.out
        BY <3>1, <3>2, PiecesTyped, PieceModes
      <3>4. whole' = EndStringLine(r)
        BY <1>0, <2>1, <2>2 DEF EndLine, ScanInv
      <3> HIDE DEF r
      <3>5. whole'.out = Append(whole.out, <<"print", NEWLINE>>)
        BY <3>3, <3>4, PieceModes
      <3>6. Meaning!Read(NEWLINE)
        BY <2>1, <2>2, <3>5 DEF EndLine, Meaning!Read, Meaning!Effect
      <3> QED BY <2>1, <3>6 DEF Meaning!Next
    <2>3. CASE condition = "CODE"
      <3>1. whole'.out = Append(whole.out, <<"run", NEWLINE>>)
        BY <1>0, <2>1, <2>3, PieceModes DEF EndLine, ScanInv, TypeOK
      <3>2. Meaning!Read(NEWLINE)
        BY <2>1, <2>3, <3>1 DEF EndLine, Meaning!Read, Meaning!Effect
      <3> QED BY <2>1, <3>2 DEF Meaning!Next
    <2> QED BY <1>0, <2>1, <2>2, <2>3 DEF EndLine, ScanInv
  <1>8. CASE EndAfterLine
    <2>1. text' = text /\ text = whole
      BY <1>0, <1>8 DEF EndAfterLine, EndOutside, End, ScanInv
    <2> QED BY <1>8, <2>1
            DEF EndAfterLine, EndOutside, End, Meaning!Next, Meaning!End
  <1>9. CASE UNCHANGED vars
    BY <1>9 DEF vars
  <1> QED BY <1>1, <1>2, <1>4, <1>5, <1>6, <1>7, <1>8, <1>9
          DEF PlainNext, Lexeme

(* The program a template without comments is turned into prints, runs and *)
(* evaluates each character of it in order, as long as its expressions     *)
(* stay on one line and its last line is ended (README.md:8-9).            *)
THEOREM PlainTemplatesAsInERuby == PlainSpec => AsInERuby
  <1>1. Init => PlainInv
    BY InitTyped DEF PlainInv
  <1>2. Init => Meaning!Init
    BY DEF Init, Meaning!Init, Nothing
  <1>3. PlainInv /\ [PlainNext]_vars => PlainInv'
    BY PlainStep
  <1>4. PlainInv /\ [PlainNext]_vars => [Meaning!Next]_(Meaning!vars)
    BY MeaningStep
  <1>5. PlainSpec => Init /\ [][PlainNext]_vars
    BY DEF PlainSpec, PlainNext
  <1> QED BY <1>1, <1>2, <1>3, <1>4, <1>5, PTL DEF AsInERuby, Meaning!Spec

===========================================================================
