-------------------------- MODULE MCRequestTables --------------------------
(***************************************************************************)
(* Instances of RequestTables for TLC: a name in two cases and as an       *)
(* escape, values with an escape, a blank and a NUL, and a CGI variable    *)
(* with the same name.                                                     *)
(***************************************************************************)
EXTENDS RequestTables

a == <<97>>
A == <<65>>
Blank == [raw |-> <<PLUS>>, text |-> <<SPACE>>]
Plain(c) == [raw |-> <<c>>, text |-> <<c>>]
Percent == [raw |-> <<PERCENT>>, text |-> <<PERCENT>>]
Half(h) == [raw |-> <<PERCENT, h>>, text |-> <<PERCENT, h>>]
Hex(h, l, c) == [raw |-> <<PERCENT, h, l>>, text |-> <<c>>]

MCSpelling ==
    {<<>>, <<Plain(65)>>, <<Hex(54, 49, 97)>>,                     \* A, %61
     <<Blank, Percent, Blank, Hex(48, 48, 0), Plain(99)>>,         \* +%+%00c
     <<Half(52), Plain(EQUALS), Percent>>}                         \* %4=%
MCCGI == <<T!Entry(A, <<49>>)>>
MCOtherForm == <<T!Entry(<<116>>, <<49>>)>>
MCName == {a, A}
MCVal == {<<50>>}

(* Whatever bytes a client sends, they are spelled in one way.             *)
Pieces == {Plain(122), Plain(52), Blank, Percent, Half(52), Hex(52, 52, 68)}

ASSUME TextsHaveOneSpelling ==
    LET spelled == {s \in BoundedSeq(Pieces, 4) : Spelled(s)}
        raw == [s \in spelled |-> Raw(s)]
    IN  \A text \in BoundedSeq({122, 52, PLUS, PERCENT}, 4) :
           Cardinality({s \in spelled : raw[s] = text}) = 1

(* The iterator's other operations, over every table of three entries: a   *)
(* walk from the last entry backwards visits them in reverse, and seek and *)
(* first take to the entry.                                                *)
Tables ==
    BoundedSeq({T!Entry(k, v) : k \in MCName, v \in {<<49>>, <<50>>}}, 3)

Backwards(t) ==
    LET walk[i \in T!BeforeFirst..Len(t)] ==
            IF i \in T!Indices(t) THEN <<T!At(t, i)>> \o walk[T!Prev(i)] ELSE <<>>
    IN  walk[T!ToLast(t, T!BeforeFirst)]

ASSUME IteratorVisits ==
    \A t \in Tables :
        /\ Backwards(t) = Reverse(t)
        /\ \A n \in DOMAIN t :
              /\ \A i \in T!Indices(t) : T!At(t, T!Seek(t, i, n - 1)) = t[n]
              /\ T!At(t, T!ToFirst(t, n - 1)) = t[1]

===========================================================================
