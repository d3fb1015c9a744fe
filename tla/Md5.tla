------------------------------- MODULE Md5 --------------------------------
(***************************************************************************)
(* The part of md5 (src/src/md5.cpp:186-290) a caller can get wrong: how a *)
(* message that comes in chunks is cut into blocks, padded, and given its  *)
(* length, which is counted in two words.  The transformation of a block   *)
(* is left out: a digest stands for the blocks that were transformed.      *)
(* Bytes are integers: the caller numbers those of the message from 1.     *)
(***************************************************************************)
EXTENDS Integers, Sequences

CONSTANTS
    BLOCK,    \* bytes of a block: 64
    LENGTH,   \* of them, those the length takes in the last one: 8
    WORD      \* the word the bits are counted in: 2^32

PAD == -1
ZERO == 0

Context == [low : 0..WORD - 1, high : 0..WORD - 1,
            in : [1..BLOCK -> Int], blocks : Seq(Seq(Int))]

(* md5::init.  The buffer holds what the memory held.                      *)
Fresh == [low |-> 0, high |-> 0, in |-> [i \in 1..BLOCK |-> PAD],
          blocks |-> <<>>]

(* memcpy and memset into the buffer.                                      *)
Put(in, at, data) ==
    [i \in 1..BLOCK |-> IF i - at \in DOMAIN data THEN data[i - at] ELSE in[i]]
Zeros(n) == [i \in 1..n |-> ZERO]
Transform(c, in) == Append(c.blocks, in)

(* Bytes the buffer holds.                                                 *)
Held(c) == (c.low \div 8) % BLOCK

(* Mistake: the count is in a wider type.                                  *)
CountedWide(c, len) == [c EXCEPT !.low = @ + 8 * len]

(* The bit count: the carry is seen by the low word getting smaller.       *)
Counted(c, len) ==
    LET low == (c.low + ((8 * len) % WORD)) % WORD
    IN  [c EXCEPT !.low = low,
                  !.high = (@ + (IF low < c.low THEN 1 ELSE 0)
                              + ((8 * len) \div WORD)) % WORD]

(* md5::update behind the leading chunk: whole blocks, then the rest.      *)
UpdateBlocks(c, data) ==
    LET whole == Len(data) \div BLOCK
        block(k) == SubSeq(data, (k - 1) * BLOCK + 1, k * BLOCK)
        in == IF whole = 0 THEN c.in ELSE block(whole)
    IN  [c EXCEPT !.blocks = @ \o [k \in 1..whole |-> block(k)],
                  !.in = Put(in, 0, SubSeq(data, whole * BLOCK + 1, Len(data)))]

(* md5::update.                                                            *)
Update(c, data) ==
    LET held == Held(c)
        room == BLOCK - held
        counted == Counted(c, Len(data))
        filled == Put(c.in, held, SubSeq(data, 1, room))
    IN  IF held = 0 THEN UpdateBlocks(counted, data)
        ELSE IF Len(data) < room
             THEN [counted EXCEPT !.in = Put(@, held, data)]
        ELSE UpdateBlocks([counted EXCEPT !.in = filled,
                                          !.blocks = Transform(counted, filled)],
                          SubSeq(data, room + 1, Len(data)))

(* The last block: its length words stand for its last LENGTH bytes.       *)
LastBlock(c, in) == SubSeq(in, 1, BLOCK - LENGTH) \o <<c.low, c.high>>

(* Mistake: a buffer with room for the padding byte alone is not enough.   *)
FinalTight(c) ==
    LET held == Held(c)
        left == BLOCK - 1 - held
        padded == Put(Put(c.in, held, <<PAD>>), held + 1, Zeros(left))
    IN  IF left <= LENGTH
        THEN Append(Transform(c, padded), LastBlock(c, Zeros(BLOCK)))
        ELSE Append(c.blocks, LastBlock(c, padded))

(* md5::final: the padding byte, zeros, and the length, in a block of its  *)
(* own when the buffer has no room for it.                                 *)
Final(c) ==
    LET held == Held(c)
        left == BLOCK - 1 - held
        padded == Put(Put(c.in, held, <<PAD>>), held + 1, Zeros(left))
    IN  IF left < LENGTH
        THEN Append(Transform(c, padded), LastBlock(c, Zeros(BLOCK)))
        ELSE Append(c.blocks, LastBlock(c, padded))

---------------------------------------------------------------------------

(* What a message of n bytes is padded to.                                 *)
Padded(n) ==
    LET count == (n + LENGTH) \div BLOCK + 1
        byte(p) == IF p <= n THEN p ELSE IF p = n + 1 THEN PAD ELSE ZERO
        block(k, size) == [i \in 1..size |-> byte((k - 1) * BLOCK + i)]
    IN  [k \in 1..count |->
            IF k < count THEN block(k, BLOCK)
            ELSE block(k, BLOCK - LENGTH)
                   \o <<(8 * n) % WORD, ((8 * n) \div WORD) % WORD>>]

(* A context that took in n bytes: the bits counted, the whole blocks, and *)
(* in the buffer the rest.                                                 *)
Took(c, n) ==
    /\ c \in Context
    /\ c.low = (8 * n) % WORD /\ c.high = ((8 * n) \div WORD) % WORD
    /\ c.blocks = [k \in 1..n \div BLOCK |->
                      [i \in 1..BLOCK |-> (k - 1) * BLOCK + i]]
    /\ \A i \in 1..n % BLOCK : c.in[i] = (n \div BLOCK) * BLOCK + i

===========================================================================
