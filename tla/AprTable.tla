----------------------------- MODULE AprTable -----------------------------
(***************************************************************************)
(* Tables of libapr as the module uses them (src/src/apr_table.cpp): an    *)
(* ordered multimap whose keys ignore case, and the iterator over it,      *)
(* which knows the table's array and an index into it.  The iterator does  *)
(* not follow changes: each of its operations looks at the array anew.     *)
(* What libapr's own operations do is known from its documentation.        *)
(***************************************************************************)
EXTENDS Integers, Sequences, SequencesExt

CONSTANTS
    Fold(_),      \* a key without its case
    Glued(_, _)   \* two values of one key

Same(k, l) == Fold(k) = Fold(l)
Entry(k, v) == [key |-> k, val |-> v]

---------------------------------------------------------------------------
(* libapr.                                                                 *)

Places(t, k) == {n \in DOMAIN t : Same(t[n].key, k)}
First(t, k) == IF Places(t, k) = {} THEN 0 ELSE Min(Places(t, k))
HasKey(t, k) == First(t, k) # 0
Get(t, k) == t[First(t, k)].val

(* The entries at some places, in their order.                             *)
Only(t, places) ==
    LET only[n \in 0..Len(t)] ==
            IF n = 0 THEN <<>>
            ELSE IF n \in places THEN Append(only[n - 1], t[n]) ELSE only[n - 1]
    IN  only[Len(t)]

Unset(t, k) == Only(t, DOMAIN t \ Places(t, k))
Add(t, k, v) == Append(t, Entry(k, v))

(* The first entry of the key takes the value, the others go.              *)
Set(t, k, v) ==
    IF ~ HasKey(t, k) THEN Add(t, k, v)
    ELSE LET n == First(t, k)
         IN  Append(SubSeq(t, 1, n - 1), [t[n] EXCEPT !.val = v])
                 \o Unset(SubSeq(t, n + 1, Len(t)), k)

(* The first entry of the key gets the value behind its own.               *)
Merge(t, k, v) ==
    IF ~ HasKey(t, k) THEN Add(t, k, v)
    ELSE [t EXCEPT ![First(t, k)].val = Glued(@, v)]

---------------------------------------------------------------------------
(* The iterator is its index; -1 is in front of the first entry.  An       *)
(* operation that fails leaves it, but for Prev.                           *)

BeforeFirst == -1
Indices(t) == 0..Len(t) - 1

Seek(t, i, n) == IF n < Len(t) THEN n ELSE i
ToFirst(t, i) == IF t # <<>> THEN 0 ELSE i
ToLast(t, i) == IF t # <<>> THEN Len(t) - 1 ELSE i
Prev(i) == IF i # BeforeFirst THEN i - 1 ELSE i

(* Mistake: the end is looked for one entry too early.                     *)
HasNextEarly(t, i) == i # Len(t) - 2 /\ i # Len(t) - 1 /\ t # <<>>

(* Mistake: the end is looked for one entry too late.                      *)
HasNextLate(t, i) == i # Len(t) /\ t # <<>>

(* Whether next moves: the end is one index, not a bound.                  *)
HasNext(t, i) == i # Len(t) - 1 /\ t # <<>>

(* key and data read the array at the index, whatever it is.               *)
Inside(t, i) == i \in Indices(t)
At(t, i) == t[i + 1]

(* keys, values and join run an iterator over a table nobody changes.      *)
Walk(t) ==
    LET walk[i \in BeforeFirst..Len(t) - 1] ==
            IF HasNext(t, i) THEN <<At(t, i + 1)>> \o walk[i + 1] ELSE <<>>
    IN  walk[BeforeFirst]

Keys(t) == [n \in DOMAIN Walk(t) |-> Walk(t)[n].key]
Values(t) == [n \in DOMAIN Walk(t) |-> Walk(t)[n].val]

===========================================================================
