------------------------ MODULE RequestTablesProofs ------------------------
(***************************************************************************)
(* Theorems of RequestTables, for texts and tables of any length, any      *)
(* number of loops, and any changes made under them.                       *)
(***************************************************************************)
EXTENDS RequestTables, SequenceTheorems, NaturalsInduction,
        WellFoundedInduction, TLAPS

---------------------------------------------------------------------------
(* Recursion.  A function of numbers is defined when each value follows    *)
(* from the one before.                                                    *)

LEMMA SmallestOf ==
    ASSUME NEW S \in SUBSET Nat, S # {}
    PROVE  \E k \in S : \A l \in S : k <= l
  <1>1. PICK k \in S : \A l \in S : ~ (<<l, k>> \in OpToRel(<, Nat))
    BY NatLessThanWellFounded, WFMin
  <1>2. \A l \in S : ~ (l < k)
    BY <1>1 DEF OpToRel
  <1> QED BY <1>2

(* A set of numbers that holds 0 and what follows each holds all.          *)
LEMMA Induction ==
    ASSUME NEW N \in Nat, NEW good \in SUBSET (0..N), 0 \in good,
           \A n \in 1..N : n - 1 \in good => n \in good
    PROVE  good = 0..N
  <1> DEFINE bad == (0..N) \ good
  <1>1. CASE bad = {}
    BY <1>1
  <1>2. CASE bad # {}
    <2>1. bad \in SUBSET Nat
      OBVIOUS
    <2>2. PICK k \in bad : \A l \in bad : k <= l
      BY <1>2, <2>1, SmallestOf
    <2>3. k \in 1..N
      BY <2>2
    <2>4. k - 1 \in 0..N /\ k - 1 \notin bad
      BY <2>2, <2>3
    <2> QED BY <2>2, <2>3, <2>4
  <1> QED BY <1>1, <1>2

(* The values of a function, each from the one before.                     *)
Follows(f, S, N, base, step) ==
    /\ f \in [0..N -> S]
    /\ f[0] = base /\ \A n \in 1..N : f[n] = step[n][f[n - 1]]

LEMMA Recursion ==
    ASSUME NEW S, NEW N \in Nat, NEW base \in S,
           NEW step \in [1..N -> [S -> S]]
    PROVE  \E f : Follows(f, S, N, base, step)
  <1> DEFINE Solves(f, m) == Follows(f, S, m, base, step)
             good == {m \in 0..N : \E f : Solves(f, m)}
  <1>1. 0 \in good
    <2>1. Solves([n \in 0..0 |-> base], 0)
      BY DEF Follows
    <2> HIDE DEF Solves
    <2> QED BY <2>1
  <1>2. ASSUME NEW m \in 1..N, m - 1 \in good PROVE m \in good
    <2>0. PICK f : Solves(f, m - 1)
      BY <1>2
    <2>1. /\ f \in [0..m - 1 -> S] /\ f[0] = base
          /\ \A n \in 1..m - 1 : f[n] = step[n][f[n - 1]]
      BY <2>0 DEF Follows
    <2> DEFINE g == [n \in 0..m |-> IF n = m THEN step[m][f[m - 1]] ELSE f[n]]
    <2>2. f[m - 1] \in S
      BY <2>1
    <2>3. step[m][f[m - 1]] \in S
      <3>1. step[m] \in [S -> S]
        OBVIOUS
      <3> QED BY <2>2, <3>1
    <2>4. g \in [0..m -> S]
      BY <2>1, <2>3
    <2>5. g[0] = base
      BY <2>1
    <2>6. g[m] = step[m][f[m - 1]] /\ \A n \in 0..m - 1 : g[n] = f[n]
      OBVIOUS
    <2> HIDE DEF g
    <2>7. ASSUME NEW n \in 1..m PROVE g[n] = step[n][g[n - 1]]
      <3>1. g[n - 1] = f[n - 1]
        BY <2>6
      <3>2. CASE n = m
        BY <2>6, <3>1, <3>2
      <3>3. CASE n # m
        <4>1. n \in 1..m - 1 /\ g[n] = f[n]
          BY <2>6, <3>3
        <4> QED BY <2>1, <3>1, <4>1
      <3> QED BY <3>2, <3>3
    <2>8. Solves(g, m)
      BY <2>4, <2>5, <2>7 DEF Follows
    <2> HIDE DEF Solves
    <2> QED BY <2>8
  <1> HIDE DEF Solves
  <1>3. good = 0..N
    <2>1. good \in SUBSET (0..N)
      OBVIOUS
    <2> HIDE DEF good
    <2> QED BY <1>1, <1>2, <2>1, Induction
  <1>4. N \in good
    <2> HIDE DEF good
    <2> QED BY <1>3
  <1>5. \E f : Solves(f, N)
    BY <1>4
  <1> QED BY <1>5 DEF Solves

(* Values that follow from values in a set stay in it.                     *)
LEMMA FollowsIn ==
    ASSUME NEW S, NEW N \in Nat, NEW f, f[0] \in S,
           \A n \in 1..N : f[n - 1] \in S => f[n] \in S
    PROVE  \A n \in 0..N : f[n] \in S
  <1> DEFINE good == {n \in 0..N : f[n] \in S}
  <1>1. good \in SUBSET (0..N) /\ 0 \in good
    OBVIOUS
  <1>2. \A n \in 1..N : n - 1 \in good => n \in good
    OBVIOUS
  <1>3. good = 0..N
    <2> HIDE DEF good
    <2> QED BY <1>1, <1>2, Induction
  <1> QED BY <1>3

---------------------------------------------------------------------------
(* Tables: the entries at some places.                                     *)

LEMMA OnlyIs ==
    ASSUME NEW E, NEW t \in Seq(E), NEW places
    PROVE  \E f \in [0..Len(t) -> Seq(E)] :
              /\ T!Only(t, places) = f[Len(t)]
              /\ f[0] = <<>>
              /\ \A n \in 1..Len(t) :
                    f[n] = IF n \in places THEN Append(f[n - 1], t[n]) ELSE f[n - 1]
  <1> DEFINE N == Len(t)
             step == [n \in 1..N |-> [s \in Seq(E) |->
                        IF n \in places THEN Append(s, t[n]) ELSE s]]
             Eq(f) == f = [n \in 0..N |->
                             IF n = 0 THEN <<>>
                             ELSE IF n \in places THEN Append(f[n - 1], t[n])
                             ELSE f[n - 1]]
             only == CHOOSE f : Eq(f)
  <1>1. N \in Nat /\ \A n \in 1..N : t[n] \in E
    BY LenProperties, ElementOfSeq
  <1>2. step \in [1..N -> [Seq(E) -> Seq(E)]]
    BY <1>1, AppendProperties
  <1>3. <<>> \in Seq(E)
    OBVIOUS
  <1>4. \A n \in 1..N, s \in Seq(E) :
           step[n][s] = IF n \in places THEN Append(s, t[n]) ELSE s
    OBVIOUS
  <1> HIDE DEF step, N
  <1>5. PICK g : Follows(g, Seq(E), N, <<>>, step)
    BY <1>1, <1>2, <1>3, Recursion
  <1>6. /\ g \in [0..N -> Seq(E)] /\ g[0] = <<>>
        /\ \A n \in 1..N : g[n] = step[n][g[n - 1]]
    BY <1>5 DEF Follows
  <1>7. ASSUME NEW n \in 1..N
        PROVE  g[n] = IF n \in places THEN Append(g[n - 1], t[n]) ELSE g[n - 1]
    <2>1. n - 1 \in 0..N
      BY <1>1
    <2>2. g[n - 1] \in Seq(E)
      BY <1>6, <2>1
    <2> QED BY <1>4, <1>6, <2>2
  <1>8. Eq(g)
    <2>1. g = [n \in 0..N |-> g[n]]
      BY <1>6
    <2>2. \A n \in 0..N : n = 0 \/ n \in 1..N
      BY <1>1
    <2>3. \A n \in 0..N : g[n] = IF n = 0 THEN <<>>
                             ELSE IF n \in places THEN Append(g[n - 1], t[n])
                             ELSE g[n - 1]
      BY <1>6, <1>7, <2>2
    <2> QED BY <2>1, <2>3
  <1>9. Eq(only)
    <2> HIDE DEF Eq
    <2> QED BY <1>8
  <1>10. T!Only(t, places) = only[N]
    BY DEF T!Only, N
  <1> HIDE DEF only
  <1>11. /\ only[0] = <<>>
         /\ \A n \in 1..N : only[n] = IF n \in places THEN Append(only[n - 1], t[n])
                                      ELSE only[n - 1]
    <2>1. only = [n \in 0..N |-> IF n = 0 THEN <<>>
                             ELSE IF n \in places THEN Append(only[n - 1], t[n])
                             ELSE only[n - 1]]
      BY <1>9
    <2>2. 0 \in 0..N /\ \A n \in 1..N : n \in 0..N /\ n # 0
      BY <1>1
    <2> HIDE DEF Eq
    <2> QED BY <2>1, <2>2
  <1>12. \A n \in 0..N : only[n] \in Seq(E)
    <2>1. ASSUME NEW n \in 1..N, only[n - 1] \in Seq(E) PROVE only[n] \in Seq(E)
      <3>1. t[n] \in E
        BY <1>1
      <3>2. Append(only[n - 1], t[n]) \in Seq(E)
        BY <2>1, <3>1, AppendProperties
      <3> HIDE DEF Eq
      <3> QED BY <1>11, <2>1, <3>2
    <2>2. only[0] \in Seq(E)
      BY <1>3, <1>11
    <2> HIDE DEF Eq
    <2> QED BY <1>1, <2>1, <2>2, FollowsIn
  <1>13. only \in [0..N -> Seq(E)]
    <2>1. only = [n \in 0..N |-> only[n]]
      BY <1>9
    <2> QED BY <1>12, <2>1
  <1> QED BY <1>10, <1>11, <1>13 DEF N

(* They are entries of the table at those places, and all of them if they  *)
(* are as many.                                                            *)
LEMMA OnlyAt ==
    ASSUME NEW E, NEW t \in Seq(E), NEW places
    PROVE  LET s == T!Only(t, places)
           IN  /\ s \in Seq(E) /\ Len(s) <= Len(t)
               /\ Len(s) = Len(t) => s = t
               /\ \A i \in 1..Len(s) : \E n \in 1..Len(t) :
                     n \in places /\ s[i] = t[n]
  <1> DEFINE N == Len(t)
  <1>1. N \in Nat /\ DOMAIN t = 1..N /\ \A n \in 1..N : t[n] \in E
    BY LenProperties, ElementOfSeq
  <1>2. PICK f \in [0..N -> Seq(E)] :
           /\ T!Only(t, places) = f[N]
           /\ f[0] = <<>>
           /\ \A n \in 1..N :
                 f[n] = IF n \in places THEN Append(f[n - 1], t[n]) ELSE f[n - 1]
    BY OnlyIs
  <1> HIDE DEF N
  <1>3. \A n \in 0..N : f[n] \in Seq(E) /\ Len(f[n]) \in Nat
    BY LenProperties
  <1> DEFINE Good(n) ==
                /\ Len(f[n]) <= n
                /\ Len(f[n]) = n => \A i \in 1..n : f[n][i] = t[i]
                /\ \A i \in 1..Len(f[n]) : \E m \in 1..n :
                      m \in places /\ f[n][i] = t[m]
             good == {n \in 0..N : Good(n)}
  <1>4. Good(0)
    BY <1>2, EmptySeq
  <1>5. ASSUME NEW n \in 1..N, Good(n - 1) PROVE Good(n)
    <2> DEFINE p == f[n - 1]
    <2>1. n - 1 \in 0..N /\ t[n] \in E
      BY <1>1
    <2>2. p \in Seq(E) /\ Len(p) \in Nat /\ Len(p) <= n - 1
      BY <1>3, <1>5, <2>1
    <2>3. /\ Len(p) = n - 1 => \A i \in 1..n - 1 : p[i] = t[i]
          /\ \A i \in 1..Len(p) : \E m \in 1..n - 1 : m \in places /\ p[i] = t[m]
      BY <1>5
    <2>4. f[n] = IF n \in places THEN Append(p, t[n]) ELSE p
      BY <1>2
    <2> HIDE DEF p
    <2>5. CASE n \notin places
      <3>1. f[n] = p
        BY <2>4, <2>5
      <3> QED BY <1>1, <2>1, <2>2, <2>3, <3>1
    <2>6. CASE n \in places
      <3> DEFINE q == Append(p, t[n])
      <3>1. f[n] = q
        BY <2>4, <2>6
      <3>2. /\ Len(q) = Len(p) + 1 /\ q[Len(p) + 1] = t[n]
            /\ \A i \in 1..Len(p) : q[i] = p[i]
        BY <2>1, <2>2, AppendProperties
      <3> HIDE DEF q
      <3>3. Len(q) <= n
        BY <1>1, <2>1, <2>2, <3>2
      <3>4. ASSUME Len(q) = n, NEW i \in 1..n PROVE q[i] = t[i]
        <4>1. Len(p) = n - 1
          BY <1>1, <2>1, <2>2, <3>2, <3>4
        <4>2. i \in 1..n - 1 \/ i = n
          BY <1>1, <2>1
        <4>3. CASE i \in 1..n - 1
          BY <2>3, <3>2, <4>1, <4>3
        <4>4. CASE i = n
          BY <1>1, <2>1, <3>2, <4>1, <4>4
        <4> QED BY <4>2, <4>3, <4>4
      <3>5. ASSUME NEW i \in 1..Len(q)
            PROVE  \E m \in 1..n : m \in places /\ q[i] = t[m]
        <4>1. i \in 1..Len(p) \/ i = Len(p) + 1
          BY <2>2, <3>2
        <4>2. CASE i \in 1..Len(p)
          <5>1. PICK m \in 1..n - 1 : m \in places /\ p[i] = t[m]
            BY <2>3, <4>2
          <5>2. m \in 1..n /\ q[i] = t[m]
            BY <1>1, <3>2, <4>2, <5>1
          <5> QED BY <5>1, <5>2
        <4>3. CASE i = Len(p) + 1
          <5>1. n \in 1..n
            BY <1>1
          <5> QED BY <2>6, <3>2, <4>3, <5>1
        <4> QED BY <4>1, <4>2, <4>3
      <3> QED BY <3>1, <3>3, <3>4, <3>5
    <2> QED BY <2>5, <2>6
  <1>6. Good(N)
    <2> HIDE DEF Good
    <2>1. good \in SUBSET (0..N) /\ 0 \in good
      BY <1>1, <1>4
    <2>2. \A n \in 1..N : n - 1 \in good => n \in good
      BY <1>1, <1>5
    <2>3. N \in good
      <3> HIDE DEF good
      <3>1. good = 0..N
        BY <1>1, <2>1, <2>2, Induction
      <3> QED BY <1>1, <3>1
    <2> QED BY <2>3
  <1> DEFINE s == f[N]
  <1>7. s \in Seq(E) /\ Len(s) \in Nat /\ DOMAIN s = 1..Len(s)
    BY <1>1, <1>2, LenProperties
  <1>8. /\ Len(s) <= N
        /\ Len(s) = N => \A i \in 1..N : s[i] = t[i]
        /\ \A i \in 1..Len(s) : \E m \in 1..N : m \in places /\ s[i] = t[m]
    BY <1>6
  <1>9. T!Only(t, places) = s
    BY <1>2
  <1> HIDE DEF s, Good
  <1>10. Len(s) = N => s = t
    BY <1>7, <1>8, SeqEqual DEF N
  <1> QED BY <1>7, <1>8, <1>9, <1>10 DEF N

---------------------------------------------------------------------------
(* Tables: look-ups and changes.                                           *)

LEMMA MinIs ==
    ASSUME NEW N \in Nat, NEW S \in SUBSET (1..N), S # {}
    PROVE  Min(S) \in S /\ \A n \in S : Min(S) <= n
  <1>1. S \in SUBSET Nat
    OBVIOUS
  <1>2. \E k \in S : \A l \in S : k <= l
    BY <1>1, SmallestOf
  <1> QED BY <1>2 DEF Min

LEMMA FirstIs ==
    ASSUME NEW t \in TableText, NEW k
    PROVE  \/ /\ ~ T!HasKey(t, k) /\ T!First(t, k) = 0
              /\ \A n \in 1..Len(t) : ~ T!Same(t[n].key, k)
           \/ /\ T!HasKey(t, k)
              /\ T!First(t, k) \in 1..Len(t)
              /\ T!Same(t[T!First(t, k)].key, k)
              /\ \A n \in 1..Len(t) :
                    n < T!First(t, k) => ~ T!Same(t[n].key, k)
  <1> DEFINE places == T!Places(t, k)
  <1>1. Len(t) \in Nat /\ DOMAIN t = 1..Len(t)
    BY LenProperties DEF TableText
  <1>2. places = {n \in 1..Len(t) : T!Same(t[n].key, k)}
    BY <1>1 DEF T!Places
  <1>3. T!First(t, k) = IF places = {} THEN 0 ELSE Min(places)
    BY DEF T!First, T!Min, Min
  <1> HIDE DEF places
  <1>4. CASE places = {}
    BY <1>2, <1>3, <1>4 DEF T!HasKey
  <1>5. CASE places # {}
    <2>1. Min(places) \in places /\ \A n \in places : Min(places) <= n
      BY <1>1, <1>2, <1>5, MinIs
    <2> DEFINE f == Min(places)
    <2>2. T!First(t, k) = f
      BY <1>3, <1>5
    <2>3. f \in 1..Len(t) /\ T!Same(t[f].key, k) /\ \A n \in places : f <= n
      BY <1>2, <2>1
    <2> HIDE DEF f
    <2>4. \A n \in 1..Len(t) : n < f => n \notin places
      BY <1>1, <2>3
    <2>5. f # 0
      BY <1>1, <2>3
    <2> QED BY <1>2, <2>2, <2>3, <2>4, <2>5 DEF T!HasKey
  <1> QED BY <1>4, <1>5

LEMMA EntryTyped ==
    ASSUME NEW k \in Text, NEW v \in Text
    PROVE  /\ T!Entry(k, v) \in [key : Text, val : Text]
           /\ T!Entry(k, v).key = k /\ T!Entry(k, v).val = v
  BY DEF T!Entry

LEMMA GlueTyped ==
    ASSUME NEW old \in Text, NEW new \in Text
    PROVE  Glue(old, new) \in Text
  <1>1. <<COMMA, SPACE>> \in Text
    BY DEF Text, COMMA, SPACE
  <1>2. old \o <<COMMA, SPACE>> \in Text
    BY <1>1, ConcatProperties DEF Text
  <1> QED BY <1>2, ConcatProperties DEF Text, Glue

(* A table with the keys of another, and perhaps more behind them.         *)
Extends(u, t) ==
    /\ u \in TableText /\ Len(t) <= Len(u)
    /\ \A i \in 1..Len(t) : u[i].key = t[i].key

LEMMA AddExtends ==
    ASSUME NEW t \in TableText, NEW k \in Text, NEW v \in Text
    PROVE  /\ Extends(T!Add(t, k, v), t)
           /\ Len(T!Add(t, k, v)) = Len(t) + 1
           /\ \A i \in 1..Len(t) : T!Add(t, k, v)[i] = t[i]
           /\ T!Add(t, k, v)[Len(t) + 1] = T!Entry(k, v)
  <1> DEFINE e == T!Entry(k, v)
             u == Append(t, e)
  <1>1. e \in [key : Text, val : Text]
    BY EntryTyped
  <1>2. Len(t) \in Nat
    BY LenProperties DEF TableText
  <1> HIDE DEF e
  <1>3. /\ u \in TableText /\ Len(u) = Len(t) + 1
        /\ \A i \in 1..Len(t) : u[i] = t[i]
        /\ u[Len(t) + 1] = e
    BY <1>1, AppendProperties DEF TableText
  <1>4. T!Add(t, k, v) = u
    BY DEF T!Add, e
  <1> HIDE DEF u
  <1> QED BY <1>2, <1>3, <1>4 DEF Extends, e

(* Merge: a new entry, or the value behind the one the key's first entry   *)
(* has.                                                                    *)
LEMMA MergeExtends ==
    ASSUME NEW t \in TableText, NEW k \in Text, NEW v \in Text
    PROVE  /\ Extends(T!Merge(t, k, v), t)
           /\ ~ T!HasKey(t, k) => T!Merge(t, k, v) = T!Add(t, k, v)
           /\ T!HasKey(t, k) =>
                 /\ Len(T!Merge(t, k, v)) = Len(t)
                 /\ \A i \in 1..Len(t) :
                       T!Merge(t, k, v)[i] =
                          IF i = T!First(t, k)
                          THEN [t[i] EXCEPT !.val = Glue(t[i].val, v)] ELSE t[i]
  <1>1. Len(t) \in Nat /\ \A i \in 1..Len(t) : t[i] \in [key : Text, val : Text]
    BY LenProperties, ElementOfSeq DEF TableText
  <1>2. CASE ~ T!HasKey(t, k)
    BY <1>2, AddExtends DEF T!Merge
  <1>3. CASE T!HasKey(t, k)
    <2> DEFINE f == T!First(t, k)
               e == [t[f] EXCEPT !.val = Glue(t[f].val, v)]
               u == [t EXCEPT ![f] = e]
    <2>1. f \in 1..Len(t)
      BY <1>3, FirstIs
    <2>2. t[f] \in [key : Text, val : Text]
      BY <1>1, <2>1
    <2>3. Glue(t[f].val, v) \in Text
      BY <2>2, GlueTyped
    <2>4. e \in [key : Text, val : Text] /\ e.key = t[f].key
      BY <2>2, <2>3
    <2>5. T!Merge(t, k, v) = u
      BY <1>3 DEF T!Merge
    <2>6. e = [t[f] EXCEPT !.val = Glue(t[f].val, v)]
      OBVIOUS
    <2> HIDE DEF f, e
    <2>7. /\ u \in TableText /\ Len(u) = Len(t)
          /\ \A i \in 1..Len(t) : u[i] = IF i = f THEN e ELSE t[i]
      BY <2>1, <2>4, ExceptSeq DEF TableText
    <2> HIDE DEF u
    <2>8. Extends(u, t)
      BY <1>1, <2>4, <2>7 DEF Extends
    <2>9. \A i \in 1..Len(t) :
             u[i] = IF i = f THEN [t[i] EXCEPT !.val = Glue(t[i].val, v)] ELSE t[i]
      BY <2>6, <2>7
    <2> QED BY <1>3, <2>5, <2>7, <2>8, <2>9 DEF f
  <1> QED BY <1>2, <1>3

LEMMA UnsetExtends ==
    ASSUME NEW t \in TableText, NEW k
    PROVE  /\ T!Unset(t, k) \in TableText /\ Len(T!Unset(t, k)) <= Len(t)
           /\ Len(T!Unset(t, k)) = Len(t) => T!Unset(t, k) = t
  BY OnlyAt DEF T!Unset, TableText

(* Set: no entry changes its key or its place, unless one goes.            *)
LEMMA SetExtends ==
    ASSUME NEW t \in TableText, NEW k \in Text, NEW v \in Text
    PROVE  /\ T!Set(t, k, v) \in TableText
           /\ Len(t) <= Len(T!Set(t, k, v)) => Extends(T!Set(t, k, v), t)
  <1> DEFINE E == [key : Text, val : Text]
             N == Len(t)
  <1>1. N \in Nat /\ \A i \in 1..N : t[i] \in E
    BY LenProperties, ElementOfSeq DEF TableText
  <1>2. CASE ~ T!HasKey(t, k)
    BY <1>2, AddExtends DEF T!Set, Extends
  <1>3. CASE T!HasKey(t, k)
    <2> DEFINE n == T!First(t, k)
               e == [t[n] EXCEPT !.val = v]
               head == SubSeq(t, 1, n - 1)
               with == Append(head, e)
               rest == SubSeq(t, n + 1, N)
               left == T!Unset(rest, k)
               u == with \o left
    <2>1. n \in 1..N
      BY <1>3, FirstIs
    <2>2. e \in E /\ e.key = t[n].key
      <3>1. t[n] \in E
        BY <1>1, <2>1
      <3> QED BY <3>1
    <2>3. T!Set(t, k, v) = u
      BY <1>3 DEF T!Set
    <2> HIDE DEF n, e
    <2>4. head \in Seq(E) /\ Len(head) = n - 1 /\ \A i \in 1..n - 1 : head[i] = t[i]
      <3>1. \A i \in 1..n - 1 : t[i] \in E
        BY <1>1, <2>1
      <3>2. 1 \in Int /\ n - 1 \in Int
        BY <1>1, <2>1
      <3>3. /\ head \in Seq(E) /\ Len(head) = IF 1 <= n - 1 THEN n - 1 - 1 + 1 ELSE 0
            /\ \A i \in 1..n - 1 - 1 + 1 : head[i] = t[1 + i - 1]
        BY <3>1, <3>2, SubSeqProperties
      <3> HIDE DEF head
      <3> QED BY <1>1, <2>1, <3>3
    <2>5. rest \in Seq(E) /\ Len(rest) = N - n /\ \A i \in 1..N - n : rest[i] = t[n + i]
      <3>1. \A i \in n + 1..N : t[i] \in E
        BY <1>1, <2>1
      <3>2. n + 1 \in Int /\ N \in Int
        BY <1>1, <2>1
      <3>3. /\ rest \in Seq(E)
            /\ Len(rest) = IF n + 1 <= N THEN N - (n + 1) + 1 ELSE 0
            /\ \A i \in 1..N - (n + 1) + 1 : rest[i] = t[n + 1 + i - 1]
        BY <3>1, <3>2, SubSeqProperties
      <3> HIDE DEF rest
      <3> QED BY <1>1, <2>1, <3>3
    <2> HIDE DEF head, rest
    <2>6. /\ with \in Seq(E) /\ Len(with) = n
          /\ \A i \in 1..n - 1 : with[i] = t[i]
          /\ with[n] = e
      <3>1. /\ with \in Seq(E) /\ Len(with) = Len(head) + 1
            /\ \A i \in 1..Len(head) : with[i] = head[i]
            /\ with[Len(head) + 1] = e
        BY <2>2, <2>4, AppendProperties
      <3> HIDE DEF with
      <3>2. Len(head) + 1 = n
        BY <1>1, <2>1, <2>4
      <3> QED BY <2>4, <3>1, <3>2
    <2>7. /\ left \in Seq(E) /\ Len(left) <= Len(rest)
          /\ Len(left) = Len(rest) => left = rest
      BY <2>5, UnsetExtends DEF TableText
    <2> HIDE DEF with, left
    <2>8. Len(left) \in Nat
      BY <2>7, LenProperties
    <2>9. /\ u \in Seq(E) /\ Len(u) = n + Len(left)
          /\ \A i \in 1..n + Len(left) :
                u[i] = IF i <= n THEN with[i] ELSE left[i - n]
      BY <2>6, <2>7, ConcatProperties
    <2> HIDE DEF u
    <2>10. ASSUME N <= Len(u) PROVE Extends(u, t)
      <3>1. left = rest
        <4>0. n \in Nat /\ N <= n + Len(left) /\ Len(left) <= N - n
          BY <2>1, <2>5, <2>7, <2>9, <2>10
        <4>1. Len(left) = N - n
          BY <1>1, <2>8, <4>0
        <4> QED BY <2>5, <2>7, <4>1
      <3>2. ASSUME NEW i \in 1..N PROVE u[i].key = t[i].key
        <4>0. i \in 1..n + Len(left)
          BY <1>1, <2>1, <2>8, <2>9, <2>10
        <4>1. CASE i < n
          <5>1. i \in 1..n - 1
            BY <1>1, <2>1, <4>1
          <5> QED BY <2>6, <2>9, <4>0, <4>1, <5>1
        <4>2. CASE i = n
          BY <2>2, <2>6, <2>9, <4>0, <4>2
        <4>3. CASE i > n
          <5>1. i - n \in 1..N - n /\ n + (i - n) = i
            BY <1>1, <2>1, <4>3
          <5>2. u[i] = rest[i - n]
            BY <1>1, <2>1, <2>9, <3>1, <4>0, <4>3
          <5>3. rest[i - n] = t[n + (i - n)]
            BY <2>5, <5>1
          <5> QED BY <5>1, <5>2, <5>3
        <4> QED BY <1>1, <2>1, <4>1, <4>2, <4>3
      <3> QED BY <2>9, <2>10, <3>2 DEF Extends, TableText
    <2> QED BY <2>3, <2>9, <2>10 DEF TableText
  <1> QED BY <1>2, <1>3

---------------------------------------------------------------------------
(* Texts and their parts.                                                  *)

LEMMA Part ==
    ASSUME NEW S, NEW s \in Seq(S), NEW m \in 1..Len(s) + 1, NEW n \in m - 1..Len(s)
    PROVE  /\ SubSeq(s, m, n) \in Seq(S) /\ Len(SubSeq(s, m, n)) = n - m + 1
           /\ \A i \in 1..n - m + 1 : SubSeq(s, m, n)[i] = s[m + i - 1]
  <1>1. Len(s) \in Nat /\ \A i \in 1..Len(s) : s[i] \in S
    BY LenProperties, ElementOfSeq
  <1>2. m \in Int /\ n \in Int /\ \A i \in m..n : s[i] \in S
    BY <1>1
  <1> DEFINE u == SubSeq(s, m, n)
  <1>3. /\ u \in Seq(S) /\ Len(u) = IF m <= n THEN n - m + 1 ELSE 0
        /\ \A i \in 1..n - m + 1 : u[i] = s[m + i - 1]
    BY <1>2, SubSeqProperties
  <1> HIDE DEF u
  <1>4. Len(u) = n - m + 1
    BY <1>1, <1>3
  <1> QED BY <1>3, <1>4 DEF u

LEMMA FrontLast ==
    ASSUME NEW S, NEW s \in Seq(S), s # <<>>
    PROVE  /\ Front(s) \in Seq(S) /\ Len(Front(s)) = Len(s) - 1
           /\ \A i \in 1..Len(s) - 1 : Front(s)[i] = s[i]
           /\ Last(s) = s[Len(s)] /\ Last(s) \in S /\ Len(s) \in Nat \ {0}
  <1>1. Len(s) \in Nat \ {0}
    BY EmptySeq
  <1>2. 1 \in 1..Len(s) + 1 /\ Len(s) - 1 \in 1 - 1..Len(s)
    BY <1>1
  <1>3. Front(s) = SubSeq(s, 1, Len(s) - 1) /\ Last(s) = s[Len(s)]
    BY DEF Front, Last
  <1> DEFINE u == SubSeq(s, 1, Len(s) - 1)
  <1>4. /\ u \in Seq(S) /\ Len(u) = Len(s) - 1 - 1 + 1
        /\ \A i \in 1..Len(s) - 1 - 1 + 1 : u[i] = s[1 + i - 1]
    BY <1>2, Part
  <1> HIDE DEF u
  <1>5. Len(u) = Len(s) - 1 /\ \A i \in 1..Len(s) - 1 : u[i] = s[i]
    BY <1>1, <1>4
  <1>6. s[Len(s)] \in S
    BY <1>1, ElementOfSeq
  <1> QED BY <1>1, <1>3, <1>4, <1>5, <1>6 DEF u

LEMMA PositionIs ==
    ASSUME NEW S, NEW s \in Seq(S), NEW c
    PROVE  \/ /\ Position(s, c) = 0
              /\ \A n \in 1..Len(s) : s[n] # c
           \/ /\ Position(s, c) \in 1..Len(s)
              /\ s[Position(s, c)] = c
              /\ \A n \in 1..Len(s) : n < Position(s, c) => s[n] # c
  <1> DEFINE places == {n \in DOMAIN s : s[n] = c}
  <1>1. Len(s) \in Nat /\ DOMAIN s = 1..Len(s)
    BY LenProperties
  <1>2. places = {n \in 1..Len(s) : s[n] = c}
    BY <1>1
  <1>3. Position(s, c) = IF places = {} THEN 0 ELSE Min(places)
    BY DEF Position
  <1> HIDE DEF places
  <1>4. CASE places = {}
    BY <1>2, <1>3, <1>4
  <1>5. CASE places # {}
    <2>1. Min(places) \in places /\ \A n \in places : Min(places) <= n
      BY <1>1, <1>2, <1>5, MinIs
    <2> DEFINE f == Min(places)
    <2>2. Position(s, c) = f
      BY <1>3, <1>5
    <2>3. f \in 1..Len(s) /\ s[f] = c /\ \A n \in places : f <= n
      BY <1>2, <2>1
    <2> HIDE DEF f
    <2>4. \A n \in 1..Len(s) : n < f => n \notin places
      BY <1>1, <2>3
    <2> QED BY <1>2, <2>2, <2>3, <2>4
  <1> QED BY <1>4, <1>5

LEMMA CStringTyped ==
    ASSUME NEW s \in Text
    PROVE  /\ CString(s) \in Text
           /\ (\A n \in 1..Len(s) : s[n] # NUL) => CString(s) = s
  <1> DEFINE p == Position(s, NUL)
  <1>1. \/ p = 0 /\ \A n \in 1..Len(s) : s[n] # NUL
        \/ p \in 1..Len(s) /\ s[p] = NUL
    BY PositionIs DEF Text
  <1>2. CString(s) = IF p = 0 THEN s ELSE SubSeq(s, 1, p - 1)
    BY DEF CString
  <1>3. Len(s) \in Nat
    BY LenProperties DEF Text
  <1> HIDE DEF p
  <1>4. CASE p = 0
    BY <1>2, <1>4
  <1>5. CASE p # 0
    <2>1. p \in 1..Len(s) /\ s[p] = NUL
      BY <1>1, <1>5
    <2>2. 1 \in 1..Len(s) + 1 /\ p - 1 \in 1 - 1..Len(s)
      BY <1>3, <2>1
    <2>3. SubSeq(s, 1, p - 1) \in Text
      BY <2>2, Part DEF Text
    <2> QED BY <1>2, <1>5, <2>1, <2>3
  <1> QED BY <1>4, <1>5

LEMMA HexToIntTyped ==
    ASSUME NEW c \in 0..255
    PROVE  HexToInt(c) \in 0..15 \union {255}
  <1> DEFINE digit == (c - 48) % 256
             x == (digit + 47) % 256
             hex == IF digit <= 9 THEN digit ELSE (OrSpace(x) - 86) % 256
  <1>1. HexToInt(c) = IF hex > 15 THEN 255 ELSE hex
    BY DEF HexToInt
  <1>2. digit \in Nat /\ x \in Nat
    OBVIOUS
  <1>3. OrSpace(x) \in Int
    BY <1>2 DEF OrSpace
  <1>4. (OrSpace(x) - 86) % 256 \in Nat
    BY <1>3
  <1>5. hex \in Nat
    BY <1>2, <1>4
  <1> HIDE DEF hex
  <1> QED BY <1>1, <1>5

(* The states of the loop of url_decode.                                   *)
At == [src : Nat \ {0}, dst : Text]

LEMMA RoundTyped ==
    ASSUME NEW s \in Text, NEW at \in At
    PROVE  Round(s, at) \in At
  <1> DEFINE i == at.src
             d == at.dst
  <1>1. i \in Nat \ {0} /\ d \in Text /\ Len(s) \in Nat
    BY LenProperties DEF At, Text
  <1>2. CASE i > Len(s)
    BY <1>2 DEF Round
  <1>3. CASE ~ (i > Len(s)) /\ IsEscape(s, i)
    <2>1. Round(s, at) = [src |-> i + 3, dst |-> Append(d, EscapedByte(s, i))]
      BY <1>3 DEF Round
    <2>2. /\ i + 2 <= Len(s)
          /\ HexToInt(s[i + 1]) # 255 /\ HexToInt(s[i + 2]) # 255
      BY <1>3 DEF IsEscape
    <2>3. i + 1 \in 1..Len(s) /\ i + 2 \in 1..Len(s)
      BY <1>1, <2>2
    <2>4. s[i + 1] \in 0..255 /\ s[i + 2] \in 0..255
      BY <2>3, ElementOfSeq DEF Text
    <2>5. HexToInt(s[i + 1]) \in 0..15 /\ HexToInt(s[i + 2]) \in 0..15
      <3>1. \A c \in 0..255 : HexToInt(c) # 255 => HexToInt(c) \in 0..15
        BY HexToIntTyped
      <3> QED BY <2>2, <2>4, <3>1
    <2>6. EscapedByte(s, i) \in 0..255
      BY <2>5 DEF EscapedByte
    <2> DEFINE e == EscapedByte(s, i)
    <2> HIDE DEF e
    <2>7. Append(d, e) \in Text
      BY <1>1, <2>6, AppendProperties DEF Text, e
    <2> HIDE DEF i, d
    <2>8. i + 3 \in Nat \ {0}
      BY <1>1
    <2> QED BY <2>1, <2>7, <2>8 DEF At, e
  <1>4. CASE ~ (i > Len(s)) /\ ~ IsEscape(s, i)
    <2>1. Round(s, at) = [src |-> i + 1, dst |-> Append(d, PlainByte(s[i]))]
      BY <1>4 DEF Round
    <2>2. i \in 1..Len(s)
      BY <1>1, <1>4
    <2>3. s[i] \in 0..255
      BY <2>2, ElementOfSeq DEF Text
    <2>4. PlainByte(s[i]) \in 0..255
      BY <2>3 DEF PlainByte, SPACE
    <2>5. Append(d, PlainByte(s[i])) \in Text
      BY <1>1, <2>4, AppendProperties DEF Text
    <2> HIDE DEF i, d
    <2>6. i + 1 \in Nat \ {0}
      BY <1>1
    <2> QED BY <2>1, <2>5, <2>6 DEF At
  <1> QED BY <1>2, <1>3, <1>4

(* The state after each round.                                             *)
Rounds(s, f) ==
    /\ f \in [0..Len(s) -> At]
    /\ f[0] = [src |-> 1, dst |-> <<>>]
    /\ \A n \in 1..Len(s) : f[n] = Round(s, f[n - 1])

LEMMA UrlDecodeIs ==
    ASSUME NEW s \in Text
    PROVE  \E f : Rounds(s, f) /\ UrlDecode(s) = CString(f[Len(s)].dst)
  <1> DEFINE N == Len(s)
             base == [src |-> 1, dst |-> <<>>]
             step == [n \in 1..N |-> [at \in At |-> Round(s, at)]]
             Eq(f) == f = [n \in 0..N |->
                             IF n = 0 THEN [src |-> 1, dst |-> <<>>]
                             ELSE Round(s, f[n - 1])]
             after == CHOOSE f : Eq(f)
  <1>1. N \in Nat
    BY LenProperties DEF Text
  <1>2. step \in [1..N -> [At -> At]]
    BY RoundTyped
  <1>3. base \in At
    BY DEF At, Text
  <1>4. \A n \in 1..N, at \in At : step[n][at] = Round(s, at)
    OBVIOUS
  <1> HIDE DEF step, N, base
  <1>5. PICK g : Follows(g, At, N, base, step)
    BY <1>1, <1>2, <1>3, Recursion
  <1>6. /\ g \in [0..N -> At] /\ g[0] = base
        /\ \A n \in 1..N : g[n] = step[n][g[n - 1]]
    BY <1>5 DEF Follows
  <1>7. ASSUME NEW n \in 1..N PROVE g[n] = Round(s, g[n - 1])
    <2>1. n - 1 \in 0..N
      BY <1>1
    <2>2. g[n - 1] \in At
      BY <1>6, <2>1
    <2> QED BY <1>4, <1>6, <2>2
  <1>8. Eq(g)
    <2>1. g = [n \in 0..N |-> g[n]]
      BY <1>6
    <2>2. \A n \in 0..N : n = 0 \/ n \in 1..N
      BY <1>1
    <2>3. \A n \in 0..N : g[n] = IF n = 0 THEN base ELSE Round(s, g[n - 1])
      BY <1>6, <1>7, <2>2
    <2> QED BY <2>1, <2>3 DEF base
  <1>9. Eq(after)
    <2> HIDE DEF Eq
    <2> QED BY <1>8
  <1>10. UrlDecode(s) = CString(after[N].dst)
    BY DEF UrlDecode, N
  <1> HIDE DEF after
  <1>11. after[0] = base /\ \A n \in 1..N : after[n] = Round(s, after[n - 1])
    <2>1. after = [n \in 0..N |-> IF n = 0 THEN base ELSE Round(s, after[n - 1])]
      BY <1>9 DEF base
    <2>2. 0 \in 0..N /\ \A n \in 1..N : n \in 0..N /\ n # 0
      BY <1>1
    <2> HIDE DEF Eq
    <2> QED BY <2>1, <2>2
  <1>12. \A n \in 0..N : after[n] \in At
    <2>1. \A n \in 1..N : after[n - 1] \in At => after[n] \in At
      BY <1>11, RoundTyped
    <2> HIDE DEF Eq
    <2> QED BY <1>1, <1>3, <1>11, <2>1, FollowsIn
  <1>13. after = [n \in 0..N |-> after[n]]
    BY <1>9
  <1> HIDE DEF Eq
  <1> QED BY <1>10, <1>11, <1>12, <1>13 DEF N, Rounds, base

---------------------------------------------------------------------------
(* The items of a text.                                                    *)

(* What getline has after each byte.                                       *)
Cuts(s, delimiter, f) ==
    /\ f \in [0..Len(s) -> Seq(Text) \ {<<>>}]
    /\ f[0] = << <<>> >>
    /\ \A n \in 1..Len(s) :
          f[n] = IF s[n] = delimiter THEN Append(f[n - 1], <<>>)
                 ELSE Append(Front(f[n - 1]), Append(Last(f[n - 1]), s[n]))

LEMMA CutTyped ==
    ASSUME NEW before \in Seq(Text) \ {<<>>}, NEW c \in 0..255
    PROVE  /\ Append(before, <<>>) \in Seq(Text) \ {<<>>}
           /\ Append(Front(before), Append(Last(before), c)) \in Seq(Text) \ {<<>>}
  <1>1. <<>> \in Text
    BY DEF Text
  <1>2. Front(before) \in Seq(Text) /\ Last(before) \in Text
    BY FrontLast
  <1>3. Append(Last(before), c) \in Text
    BY <1>2, AppendProperties DEF Text
  <1>4. Append(before, <<>>) \in Seq(Text) /\ Append(before, <<>>) # <<>>
    BY <1>1, AppendProperties
  <1>5. /\ Append(Front(before), Append(Last(before), c)) \in Seq(Text)
        /\ Append(Front(before), Append(Last(before), c)) # <<>>
    BY <1>2, <1>3, AppendProperties
  <1> QED BY <1>4, <1>5

LEMMA SplitIs ==
    ASSUME NEW s \in Text, NEW delimiter
    PROVE  \E f : /\ Cuts(s, delimiter, f)
                  /\ Split(s, delimiter) = IF Last(f[Len(s)]) = <<>>
                                           THEN Front(f[Len(s)]) ELSE f[Len(s)]
  <1> DEFINE N == Len(s)
             P == Seq(Text) \ {<<>>}
             base == << <<>> >>
             Cut(n, before) ==
                IF s[n] = delimiter THEN Append(before, <<>>)
                ELSE Append(Front(before), Append(Last(before), s[n]))
             step == [n \in 1..N |-> [before \in P |-> Cut(n, before)]]
             Eq(f) == f = [n \in 0..N |->
                             IF n = 0 THEN << <<>> >>
                             ELSE IF s[n] = delimiter THEN Append(f[n - 1], <<>>)
                                  ELSE Append(Front(f[n - 1]),
                                              Append(Last(f[n - 1]), s[n]))]
             cut == CHOOSE f : Eq(f)
  <1>1. N \in Nat /\ \A n \in 1..N : s[n] \in 0..255
    BY LenProperties, ElementOfSeq DEF Text
  <1>a. \A n \in 1..N, before \in P : Cut(n, before) \in P
    BY <1>1, CutTyped
  <1>2. step \in [1..N -> [P -> P]]
    <2> HIDE DEF Cut, N, P
    <2> QED BY <1>a
  <1>3. base \in P
    <2>1. <<>> \in Text
      BY DEF Text
    <2>2. base \in Seq(Text) /\ Len(base) = 1
      BY <2>1
    <2>3. Len(<<>>) = 0
      OBVIOUS
    <2>4. base # <<>>
      OBVIOUS
    <2> QED BY <2>2, <2>4
  <1>4. \A n \in 1..N, before \in P : step[n][before] = Cut(n, before)
    OBVIOUS
  <1> HIDE DEF step, N, base, Cut, P
  <1>5. PICK g : Follows(g, P, N, base, step)
    BY <1>1, <1>2, <1>3, Recursion
  <1>6. /\ g \in [0..N -> P] /\ g[0] = base
        /\ \A n \in 1..N : g[n] = step[n][g[n - 1]]
    BY <1>5 DEF Follows
  <1>7. ASSUME NEW n \in 1..N PROVE g[n] = Cut(n, g[n - 1])
    <2>1. n - 1 \in 0..N
      BY <1>1
    <2>2. g[n - 1] \in P
      BY <1>6, <2>1
    <2> QED BY <1>4, <1>6, <2>2
  <1>8. Eq(g)
    <2>1. g = [n \in 0..N |-> g[n]]
      BY <1>6
    <2>2. \A n \in 0..N : n = 0 \/ n \in 1..N
      BY <1>1
    <2>3. \A n \in 0..N : g[n] = IF n = 0 THEN base ELSE Cut(n, g[n - 1])
      BY <1>6, <1>7, <2>2
    <2> QED BY <2>1, <2>3 DEF base, Cut
  <1>9. Eq(cut)
    <2> HIDE DEF Eq
    <2> QED BY <1>8
  <1>10. Split(s, delimiter) = IF Last(cut[N]) = <<>> THEN Front(cut[N]) ELSE cut[N]
    BY DEF Split, N
  <1> HIDE DEF cut
  <1>11. cut[0] = base /\ \A n \in 1..N : cut[n] = Cut(n, cut[n - 1])
    <2>1. cut = [n \in 0..N |-> IF n = 0 THEN base ELSE Cut(n, cut[n - 1])]
      BY <1>9 DEF base, Cut
    <2>2. 0 \in 0..N /\ \A n \in 1..N : n \in 0..N /\ n # 0
      BY <1>1
    <2> HIDE DEF Eq
    <2> QED BY <2>1, <2>2
  <1>12. \A n \in 0..N : cut[n] \in P
    <2>1. \A n \in 1..N : cut[n - 1] \in P => cut[n] \in P
      <3> HIDE DEF Eq
      <3> QED BY <1>11, <1>a
    <2> HIDE DEF Eq
    <2> QED BY <1>1, <1>3, <1>11, <2>1, FollowsIn
  <1>13. cut = [n \in 0..N |-> cut[n]]
    BY <1>9
  <1> HIDE DEF Eq
  <1>14. Cuts(s, delimiter, cut)
    BY <1>11, <1>12, <1>13 DEF Cuts, N, P, base, Cut
  <1> QED BY <1>10, <1>14 DEF N

LEMMA SplitTyped ==
    ASSUME NEW s \in Text, NEW delimiter
    PROVE  Split(s, delimiter) \in Seq(Text)
  <1>1. PICK f : /\ Cuts(s, delimiter, f)
                 /\ Split(s, delimiter) = IF Last(f[Len(s)]) = <<>>
                                          THEN Front(f[Len(s)]) ELSE f[Len(s)]
    BY SplitIs
  <1>2. f[Len(s)] \in Seq(Text) \ {<<>>}
    BY <1>1, LenProperties DEF Cuts, Text
  <1>3. Front(f[Len(s)]) \in Seq(Text)
    BY <1>2, FrontLast
  <1> QED BY <1>1, <1>2, <1>3

---------------------------------------------------------------------------
(* The table of a text.                                                    *)

LEMMA UrlDecodeTyped ==
    ASSUME NEW s \in Text
    PROVE  UrlDecode(s) \in Text
  <1>1. PICK f : Rounds(s, f) /\ UrlDecode(s) = CString(f[Len(s)].dst)
    BY UrlDecodeIs
  <1>2. f[Len(s)] \in At
    BY <1>1, LenProperties DEF Rounds, Text
  <1>3. f[Len(s)].dst \in Text
    BY <1>2 DEF At
  <1> QED BY <1>1, <1>3, CStringTyped

LEMMA ParseItemTyped ==
    ASSUME NEW t \in TableText, NEW item \in Text
    PROVE  ParseItem(t, item) \in TableText
  <1> DEFINE found == Position(item, EQUALS)
             name == SubSeq(item, 1, found - 1)
             value == SubSeq(item, found + 1, Len(item))
  <1>1. ParseItem(t, item) = IF found \in {0, Len(item)} THEN t
                             ELSE T!Merge(t, UrlDecode(name), UrlDecode(value))
    BY DEF ParseItem
  <1>2. CASE found \in {0, Len(item)}
    BY <1>1, <1>2
  <1>3. CASE found \notin {0, Len(item)}
    <2>1. Len(item) \in Nat
      BY LenProperties DEF Text
    <2>2. found \in 1..Len(item)
      BY <1>3, PositionIs DEF Text
    <2> HIDE DEF found
    <2>3. name \in Text
      <3>1. 1 \in 1..Len(item) + 1 /\ found - 1 \in 1 - 1..Len(item)
        BY <2>1, <2>2
      <3> QED BY <3>1, Part DEF Text
    <2>4. value \in Text
      <3>1. found + 1 \in 1..Len(item) + 1 /\ Len(item) \in found + 1 - 1..Len(item)
        BY <2>1, <2>2
      <3> QED BY <3>1, Part DEF Text
    <2> HIDE DEF name, value
    <2>5. UrlDecode(name) \in Text /\ UrlDecode(value) \in Text
      BY <2>3, <2>4, UrlDecodeTyped
    <2> QED BY <1>1, <1>3, <2>5, MergeExtends DEF Extends
  <1> QED BY <1>2, <1>3

(* The table after each item.                                              *)
Tables(items, f) ==
    /\ f \in [0..Len(items) -> TableText]
    /\ f[0] = <<>>
    /\ \A n \in 1..Len(items) : f[n] = ParseItem(f[n - 1], items[n])

LEMMA ParseQueryStringIs ==
    ASSUME NEW s \in Text
    PROVE  LET items == Split(CString(s), AMP)
           IN  /\ items \in Seq(Text)
               /\ \E f : Tables(items, f) /\ ParseQueryString(s) = f[Len(items)]
  <1> DEFINE items == Split(CString(s), AMP)
             N == Len(items)
             base == <<>>
             step == [n \in 1..N |-> [t \in TableText |-> ParseItem(t, items[n])]]
             Eq(f) == f = [n \in 0..N |->
                             IF n = 0 THEN <<>> ELSE ParseItem(f[n - 1], items[n])]
             table == CHOOSE f : Eq(f)
  <1>0. items \in Seq(Text)
    BY CStringTyped, SplitTyped
  <1> HIDE DEF items
  <1>1. N \in Nat /\ \A n \in 1..N : items[n] \in Text
    BY <1>0, LenProperties, ElementOfSeq
  <1>2. step \in [1..N -> [TableText -> TableText]]
    BY <1>1, ParseItemTyped
  <1>3. base \in TableText
    BY DEF TableText
  <1>4. \A n \in 1..N, t \in TableText : step[n][t] = ParseItem(t, items[n])
    OBVIOUS
  <1> HIDE DEF step, N, base
  <1>5. PICK g : Follows(g, TableText, N, base, step)
    BY <1>1, <1>2, <1>3, Recursion
  <1>6. /\ g \in [0..N -> TableText] /\ g[0] = base
        /\ \A n \in 1..N : g[n] = step[n][g[n - 1]]
    BY <1>5 DEF Follows
  <1>7. ASSUME NEW n \in 1..N PROVE g[n] = ParseItem(g[n - 1], items[n])
    <2>1. n - 1 \in 0..N
      BY <1>1
    <2>2. g[n - 1] \in TableText
      BY <1>6, <2>1
    <2> QED BY <1>4, <1>6, <2>2
  <1>8. Eq(g)
    <2>1. g = [n \in 0..N |-> g[n]]
      BY <1>6
    <2>2. \A n \in 0..N : n = 0 \/ n \in 1..N
      BY <1>1
    <2>3. \A n \in 0..N : g[n] = IF n = 0 THEN base ELSE ParseItem(g[n - 1], items[n])
      BY <1>6, <1>7, <2>2
    <2> QED BY <2>1, <2>3 DEF base
  <1>9. Eq(table)
    <2> HIDE DEF Eq
    <2> QED BY <1>8
  <1>10. ParseQueryString(s) = table[N]
    BY DEF ParseQueryString, N, items
  <1> HIDE DEF table
  <1>11. table[0] = base /\ \A n \in 1..N : table[n] = ParseItem(table[n - 1], items[n])
    <2>1. table = [n \in 0..N |->
                      IF n = 0 THEN base ELSE ParseItem(table[n - 1], items[n])]
      BY <1>9 DEF base
    <2>2. 0 \in 0..N /\ \A n \in 1..N : n \in 0..N /\ n # 0
      BY <1>1
    <2> HIDE DEF Eq
    <2> QED BY <2>1, <2>2
  <1>12. \A n \in 0..N : table[n] \in TableText
    <2>1. \A n \in 1..N : table[n - 1] \in TableText => table[n] \in TableText
      BY <1>1, <1>11, ParseItemTyped
    <2> HIDE DEF Eq
    <2> QED BY <1>1, <1>3, <1>11, <2>1, FollowsIn
  <1>13. table = [n \in 0..N |-> table[n]]
    BY <1>9
  <1> HIDE DEF Eq
  <1>14. Tables(items, table)
    BY <1>11, <1>12, <1>13 DEF Tables, N, base
  <1> QED BY <1>0, <1>10, <1>14 DEF N, items

LEMMA ParseQueryStringTyped ==
    ASSUME NEW s \in Text
    PROVE  ParseQueryString(s) \in TableText
  <1> DEFINE items == Split(CString(s), AMP)
  <1>1. items \in Seq(Text)
        /\ \E f : Tables(items, f) /\ ParseQueryString(s) = f[Len(items)]
    BY ParseQueryStringIs
  <1> HIDE DEF items
  <1>2. PICK f : Tables(items, f) /\ ParseQueryString(s) = f[Len(items)]
    BY <1>1
  <1>3. f[Len(items)] \in TableText
    BY <1>1, <1>2, LenProperties DEF Tables
  <1> QED BY <1>2, <1>3

---------------------------------------------------------------------------
(* What a client writes.                                                   *)

(* It has no NUL and no ampersand.                                         *)
RawText == Seq(1..255 \ {AMP})

LEMMA RawTextIsText == RawText \subseteq Text
  <1>1. 1..255 \ {AMP} \subseteq 0..255
    OBVIOUS
  <1> QED BY <1>1, SeqMonotonic DEF RawText, Text

LEMMA DigitRange ==
    ASSUME NEW c \in HexDigit
    PROVE  Digit(c) \in 0..15 /\ c \in 1..255 \ {AMP, PERCENT, PLUS}
  BY DEF HexDigit, Digit, AMP, PERCENT, PLUS

LEMMA PieceIs ==
    ASSUME NEW p \in Piece
    PROVE  p.raw \in RawText /\ p.raw # <<>> /\ p.text \in Text
  <1> DEFINE B == 1..255 \ {AMP}
  <1>1. \A q \in Written : \E c \in B, d \in 0..255 :
           q = [raw |-> <<c>>, text |-> <<d>>]
    BY DEF Written, AMP, PLUS, PERCENT, SPACE
  <1>2. CASE p \in Written
    <2>1. PICK c \in B, d \in 0..255 : p = [raw |-> <<c>>, text |-> <<d>>]
      BY <1>1, <1>2
    <2> QED BY <2>1 DEF RawText, Text
  <1>3. CASE p \in Escape
    <2>1. PICK h \in HexDigit, l \in HexDigit :
             p = [raw |-> <<PERCENT, h, l>>, text |-> <<16 * Digit(h) + Digit(l)>>]
      BY <1>3 DEF Escape
    <2>2. h \in B /\ l \in B /\ PERCENT \in B
      BY DigitRange DEF PERCENT, AMP
    <2>3. 16 * Digit(h) + Digit(l) \in 0..255
      BY DigitRange
    <2> DEFINE d == 16 * Digit(h) + Digit(l)
    <2> HIDE DEF d
    <2>4. <<PERCENT, h, l>> \in RawText /\ <<PERCENT, h, l>> # <<>>
      BY <2>2 DEF RawText
    <2>5. <<d>> \in Text
      BY <2>3 DEF Text, d
    <2> QED BY <2>1, <2>4, <2>5 DEF d
  <1>4. CASE p \in Stray
    <2>1. PICK q \in {<<PERCENT>>} \union {<<PERCENT, h>> : h \in HexDigit} :
             p = [raw |-> q, text |-> q]
      BY <1>4 DEF Stray
    <2>2. CASE q = <<PERCENT>>
      <3>1. q \in RawText /\ q # <<>>
        BY <2>2 DEF RawText, PERCENT, AMP
      <3> QED BY <2>1, <3>1, RawTextIsText
    <2>3. ASSUME NEW h \in HexDigit, q = <<PERCENT, h>>
          PROVE  p.raw \in RawText /\ p.raw # <<>> /\ p.text \in Text
      <3>1. h \in B /\ PERCENT \in B
        BY DigitRange DEF PERCENT, AMP
      <3>2. q \in RawText /\ q # <<>>
        BY <2>3, <3>1 DEF RawText
      <3> QED BY <2>1, <3>2, RawTextIsText
    <2> QED BY <2>1, <2>2, <2>3
  <1> QED BY <1>2, <1>3, <1>4 DEF Piece

(* What is written after each piece, and what is meant by it.              *)
Raws(spelling, f) ==
    /\ f \in [0..Len(spelling) -> RawText]
    /\ f[0] = <<>>
    /\ \A n \in 1..Len(spelling) : f[n] = f[n - 1] \o spelling[n].raw

Meanings(spelling, f) ==
    /\ f \in [0..Len(spelling) -> Text]
    /\ f[0] = <<>>
    /\ \A n \in 1..Len(spelling) : f[n] = f[n - 1] \o spelling[n].text

LEMMA RawIs ==
    ASSUME NEW spelling \in Seq(Piece)
    PROVE  \E f : Raws(spelling, f) /\ Raw(spelling) = f[Len(spelling)]
  <1> DEFINE N == Len(spelling)
             base == <<>>
             step == [n \in 1..N |-> [x \in RawText |-> x \o spelling[n].raw]]
             Eq(f) == f = [n \in 0..N |->
                              IF n = 0 THEN <<>> ELSE f[n - 1] \o spelling[n].raw]
             result == CHOOSE f : Eq(f)
  <1>1. N \in Nat /\ \A n \in 1..N : spelling[n].raw \in RawText
    BY LenProperties, ElementOfSeq, PieceIs
  <1>2. \A n \in 1..N, x \in RawText : x \o spelling[n].raw \in RawText
    BY <1>1, ConcatProperties DEF RawText
  <1>3. step \in [1..N -> [RawText -> RawText]] /\ base \in RawText
    <2>1. base \in RawText
      BY DEF RawText
    <2> HIDE DEF N
    <2> QED BY <1>2, <2>1
  <1>4. \A n \in 1..N, x \in RawText : step[n][x] = x \o spelling[n].raw
    OBVIOUS
  <1> HIDE DEF step, N, base
  <1>5. PICK g : Follows(g, RawText, N, base, step)
    BY <1>1, <1>3, Recursion
  <1>6. /\ g \in [0..N -> RawText] /\ g[0] = base
        /\ \A n \in 1..N : g[n] = step[n][g[n - 1]]
    BY <1>5 DEF Follows
  <1>7. ASSUME NEW n \in 1..N PROVE g[n] = g[n - 1] \o spelling[n].raw
    <2>1. n - 1 \in 0..N
      BY <1>1
    <2>2. g[n - 1] \in RawText
      BY <1>6, <2>1
    <2> QED BY <1>4, <1>6, <2>2
  <1>8. Eq(g)
    <2>1. g = [n \in 0..N |-> g[n]]
      BY <1>6
    <2>2. \A n \in 0..N : n = 0 \/ n \in 1..N
      BY <1>1
    <2>3. \A n \in 0..N : g[n] = IF n = 0 THEN base ELSE g[n - 1] \o spelling[n].raw
      BY <1>6, <1>7, <2>2
    <2> QED BY <2>1, <2>3 DEF base
  <1>9. Eq(result)
    <2> HIDE DEF Eq
    <2> QED BY <1>8
  <1>10. Raw(spelling) = result[N]
    BY DEF Raw, N
  <1> HIDE DEF result
  <1>11. result[0] = base /\ \A n \in 1..N : result[n] = result[n - 1] \o spelling[n].raw
    <2>1. result = [n \in 0..N |->
                       IF n = 0 THEN base ELSE result[n - 1] \o spelling[n].raw]
      BY <1>9 DEF base
    <2>2. 0 \in 0..N /\ \A n \in 1..N : n \in 0..N /\ n # 0
      BY <1>1
    <2> HIDE DEF Eq
    <2> QED BY <2>1, <2>2
  <1>12. \A n \in 0..N : result[n] \in RawText
    <2> HIDE DEF Eq
    <2>1. \A n \in 1..N : result[n - 1] \in RawText => result[n] \in RawText
      BY <1>2, <1>11
    <2> QED BY <1>1, <1>3, <1>11, <2>1, FollowsIn
  <1>13. result = [n \in 0..N |-> result[n]]
    BY <1>9
  <1> HIDE DEF Eq
  <1> QED BY <1>10, <1>11, <1>12, <1>13 DEF N, Raws, base

LEMMA MeaningIs ==
    ASSUME NEW spelling \in Seq(Piece)
    PROVE  \E f : Meanings(spelling, f) /\ Meaning(spelling) = CString(f[Len(spelling)])
  <1> DEFINE N == Len(spelling)
             base == <<>>
             step == [n \in 1..N |-> [x \in Text |-> x \o spelling[n].text]]
             Eq(f) == f = [n \in 0..N |->
                              IF n = 0 THEN <<>> ELSE f[n - 1] \o spelling[n].text]
             result == CHOOSE f : Eq(f)
  <1>1. N \in Nat /\ \A n \in 1..N : spelling[n].text \in Text
    BY LenProperties, ElementOfSeq, PieceIs
  <1>2. \A n \in 1..N, x \in Text : x \o spelling[n].text \in Text
    BY <1>1, ConcatProperties DEF Text
  <1>3. step \in [1..N -> [Text -> Text]] /\ base \in Text
    <2>1. base \in Text
      BY DEF Text
    <2> HIDE DEF N
    <2> QED BY <1>2, <2>1
  <1>4. \A n \in 1..N, x \in Text : step[n][x] = x \o spelling[n].text
    OBVIOUS
  <1> HIDE DEF step, N, base
  <1>5. PICK g : Follows(g, Text, N, base, step)
    BY <1>1, <1>3, Recursion
  <1>6. /\ g \in [0..N -> Text] /\ g[0] = base
        /\ \A n \in 1..N : g[n] = step[n][g[n - 1]]
    BY <1>5 DEF Follows
  <1>7. ASSUME NEW n \in 1..N PROVE g[n] = g[n - 1] \o spelling[n].text
    <2>1. n - 1 \in 0..N
      BY <1>1
    <2>2. g[n - 1] \in Text
      BY <1>6, <2>1
    <2> QED BY <1>4, <1>6, <2>2
  <1>8. Eq(g)
    <2>1. g = [n \in 0..N |-> g[n]]
      BY <1>6
    <2>2. \A n \in 0..N : n = 0 \/ n \in 1..N
      BY <1>1
    <2>3. \A n \in 0..N : g[n] = IF n = 0 THEN base ELSE g[n - 1] \o spelling[n].text
      BY <1>6, <1>7, <2>2
    <2> QED BY <2>1, <2>3 DEF base
  <1>9. Eq(result)
    <2> HIDE DEF Eq
    <2> QED BY <1>8
  <1>10. Meaning(spelling) = CString(result[N])
    BY DEF Meaning, N
  <1> HIDE DEF result
  <1>11. result[0] = base /\ \A n \in 1..N : result[n] = result[n - 1] \o spelling[n].text
    <2>1. result = [n \in 0..N |->
                       IF n = 0 THEN base ELSE result[n - 1] \o spelling[n].text]
      BY <1>9 DEF base
    <2>2. 0 \in 0..N /\ \A n \in 1..N : n \in 0..N /\ n # 0
      BY <1>1
    <2> HIDE DEF Eq
    <2> QED BY <2>1, <2>2
  <1>12. \A n \in 0..N : result[n] \in Text
    <2> HIDE DEF Eq
    <2>1. \A n \in 1..N : result[n - 1] \in Text => result[n] \in Text
      BY <1>2, <1>11
    <2> QED BY <1>1, <1>3, <1>11, <2>1, FollowsIn
  <1>13. result = [n \in 0..N |-> result[n]]
    BY <1>9
  <1> HIDE DEF Eq
  <1> QED BY <1>10, <1>11, <1>12, <1>13 DEF N, Meanings, base

LEMMA SpellingTyped ==
    ASSUME NEW spelling \in Spelling
    PROVE  /\ spelling \in Seq(Piece) /\ Spelled(spelling)
           /\ Raw(spelling) \in RawText /\ Meaning(spelling) \in Text
  <1>1. spelling \in Seq(Piece) /\ Spelled(spelling)
    BY SpellingsArePieces DEF Spelled
  <1>2. PICK f : Raws(spelling, f) /\ Raw(spelling) = f[Len(spelling)]
    BY <1>1, RawIs
  <1>3. PICK g : Meanings(spelling, g) /\ Meaning(spelling) = CString(g[Len(spelling)])
    BY <1>1, MeaningIs
  <1>4. Len(spelling) \in 0..Len(spelling)
    BY <1>1, LenProperties
  <1>5. f[Len(spelling)] \in RawText /\ g[Len(spelling)] \in Text
    BY <1>2, <1>3, <1>4 DEF Raws, Meanings
  <1> QED BY <1>1, <1>2, <1>3, <1>5, CStringTyped

(* No byte of it is a NUL.                                                 *)
Bytes == Seq(1..255)

LEMMA BytesAreText ==
    /\ RawText \subseteq Bytes /\ Bytes \subseteq Text
    /\ \A s \in Bytes : CString(s) = s
  <1>1. 1..255 \ {AMP} \subseteq 1..255 /\ 1..255 \subseteq 0..255
    OBVIOUS
  <1>2. RawText \subseteq Bytes
    BY <1>1, SeqMonotonic DEF RawText, Bytes
  <1>3. Bytes \subseteq Text
    BY <1>1, SeqMonotonic DEF Bytes, Text
  <1>4. ASSUME NEW s \in Bytes PROVE CString(s) = s
    <2>1. \A n \in 1..Len(s) : s[n] \in 1..255
      BY ElementOfSeq DEF Bytes
    <2>2. \A n \in 1..Len(s) : s[n] # NUL
      <3>1. 0 \notin 1..255
        OBVIOUS
      <3> QED BY <2>1, <3>1 DEF NUL
    <2> QED BY <1>3, <2>2, CStringTyped
  <1> QED BY <1>2, <1>3, <1>4

LEMMA BytesInARow ==
    ASSUME NEW u \in Bytes, NEW v \in Bytes, NEW w \in Bytes
    PROVE  (u \o v) \o w = u \o (v \o w)
  <1> DEFINE B == 1..255
  <1>1. Bytes = Seq(B)
    BY DEF Bytes
  <1> HIDE DEF B
  <1> QED BY <1>1, ConcatAssociative

LEMMA TextOfTyped ==
    ASSUME NEW item \in Item
    PROVE  TextOf(item) \in RawText
  <1>1. Raw(item.name) \in RawText
    BY SpellingTyped DEF Item
  <1>2. CASE item.value = NULL
    BY <1>1, <1>2 DEF TextOf
  <1>3. CASE item.value # NULL
    <2>1. Raw(item.value) \in RawText
      BY <1>3, SpellingTyped DEF Item
    <2>2. <<EQUALS>> \in RawText
      BY DEF RawText, EQUALS, AMP
    <2>3. Raw(item.name) \o <<EQUALS>> \in RawText
      BY <1>1, <2>2, ConcatProperties DEF RawText
    <2>4. Raw(item.name) \o <<EQUALS>> \o Raw(item.value) \in RawText
      BY <2>1, <2>3, ConcatProperties DEF RawText
    <2> QED BY <1>3, <2>4 DEF TextOf
  <1> QED BY <1>2, <1>3

(* What the client sent after each item.                                   *)
Joins(items, f) ==
    /\ f \in [0..Len(items) -> Bytes]
    /\ f[0] = <<>>
    /\ \A n \in 1..Len(items) :
          f[n] = IF n = 1 THEN TextOf(items[n])
                 ELSE f[n - 1] \o <<AMP>> \o TextOf(items[n])

LEMMA JoinTyped ==
    ASSUME NEW x \in Bytes, NEW item \in Item
    PROVE  TextOf(item) \in Bytes /\ x \o <<AMP>> \o TextOf(item) \in Bytes
  <1>1. TextOf(item) \in Bytes /\ <<AMP>> \in Bytes
    BY TextOfTyped, BytesAreText DEF Bytes, AMP
  <1>2. x \o <<AMP>> \in Bytes
    BY <1>1, ConcatProperties DEF Bytes
  <1> QED BY <1>1, <1>2, ConcatProperties DEF Bytes

LEMMA JoinedIs ==
    ASSUME NEW items \in Seq(Item)
    PROVE  \E f : Joins(items, f) /\ Joined(items) = f[Len(items)]
  <1> DEFINE N == Len(items)
             base == <<>>
             Joining(n, x) == IF n = 1 THEN TextOf(items[n])
                              ELSE x \o <<AMP>> \o TextOf(items[n])
             step == [n \in 1..N |-> [x \in Bytes |-> Joining(n, x)]]
             Eq(f) == f = [n \in 0..N |->
                             IF n = 0 THEN <<>>
                             ELSE IF n = 1 THEN TextOf(items[n])
                             ELSE f[n - 1] \o <<AMP>> \o TextOf(items[n])]
             result == CHOOSE f : Eq(f)
  <1>1. N \in Nat /\ \A n \in 1..N : items[n] \in Item
    BY LenProperties, ElementOfSeq
  <1>2. \A n \in 1..N, x \in Bytes : Joining(n, x) \in Bytes
    BY <1>1, JoinTyped
  <1>3. step \in [1..N -> [Bytes -> Bytes]] /\ base \in Bytes
    <2>1. base \in Bytes
      BY DEF Bytes
    <2> HIDE DEF N, Joining
    <2> QED BY <1>2, <2>1
  <1>4. \A n \in 1..N, x \in Bytes : step[n][x] = Joining(n, x)
    OBVIOUS
  <1> HIDE DEF step, N, base, Joining
  <1>5. PICK g : Follows(g, Bytes, N, base, step)
    BY <1>1, <1>3, Recursion
  <1>6. /\ g \in [0..N -> Bytes] /\ g[0] = base
        /\ \A n \in 1..N : g[n] = step[n][g[n - 1]]
    BY <1>5 DEF Follows
  <1>7. ASSUME NEW n \in 1..N PROVE g[n] = Joining(n, g[n - 1])
    <2>1. n - 1 \in 0..N
      BY <1>1
    <2>2. g[n - 1] \in Bytes
      BY <1>6, <2>1
    <2> QED BY <1>4, <1>6, <2>2
  <1>8. Eq(g)
    <2>1. g = [n \in 0..N |-> g[n]]
      BY <1>6
    <2>2. \A n \in 0..N : n = 0 \/ n \in 1..N
      BY <1>1
    <2>3. \A n \in 0..N : g[n] = IF n = 0 THEN base ELSE Joining(n, g[n - 1])
      BY <1>6, <1>7, <2>2
    <2> QED BY <2>1, <2>3 DEF base, Joining
  <1>9. Eq(result)
    <2> HIDE DEF Eq
    <2> QED BY <1>8
  <1>10. Joined(items) = result[N]
    BY DEF Joined, N
  <1> HIDE DEF result
  <1>11. result[0] = base /\ \A n \in 1..N : result[n] = Joining(n, result[n - 1])
    <2>1. result = [n \in 0..N |-> IF n = 0 THEN base ELSE Joining(n, result[n - 1])]
      BY <1>9 DEF base, Joining
    <2>2. 0 \in 0..N /\ \A n \in 1..N : n \in 0..N /\ n # 0
      BY <1>1
    <2> HIDE DEF Eq
    <2> QED BY <2>1, <2>2
  <1>12. \A n \in 0..N : result[n] \in Bytes
    <2> HIDE DEF Eq
    <2>1. \A n \in 1..N : result[n - 1] \in Bytes => result[n] \in Bytes
      BY <1>2, <1>11
    <2> QED BY <1>1, <1>3, <1>11, <2>1, FollowsIn
  <1>13. result = [n \in 0..N |-> result[n]]
    BY <1>9
  <1> HIDE DEF Eq
  <1> QED BY <1>10, <1>11, <1>12, <1>13 DEF N, Joins, base, Joining

---------------------------------------------------------------------------
(* What a use of a table sees is a table.                                  *)

LEMMA ParsedTyped ==
    ASSUME NEW items \in Seq(Item)
    PROVE  Joined(items) \in Text /\ ParseQueryString(Joined(items)) \in TableText
  <1>1. PICK f : Joins(items, f) /\ Joined(items) = f[Len(items)]
    BY JoinedIs
  <1>2. Joined(items) \in Bytes
    BY <1>1, LenProperties DEF Joins
  <1>3. Joined(items) \in Text
    BY <1>2, BytesAreText
  <1> QED BY <1>3, ParseQueryStringTyped

LEMMA TableTyped ==
    ASSUME TypeOK, NEW w \in Which
    PROVE  /\ Table(w) \in TableText
           /\ tables[w] # NULL => Table(w) = tables[w]
           /\ Table(w) # NULL
  <1>1. form \in Seq(Item) /\ query \in Seq(Item)
    BY DEF TypeOK
  <1>2. Parsed(w) \in TableText
    <2>1. ParsedForm \in TableText
      <3>1. type \in Type /\ <<>> \in TableText
        BY EmptySeq DEF TypeOK, TableText
      <3> QED BY <1>1, <3>1, ParsedTyped, ScriptsUseTexts DEF ParsedForm, Type
    <2>2. ParseQueryString(Joined(query)) \in TableText
      BY <1>1, ParsedTyped
    <2> QED BY <2>1, <2>2, ScriptsUseTexts DEF Parsed, Which
  <1>3. tables[w] \in TableText \union {NULL}
    BY DEF TypeOK
  <1> QED BY <1>2, <1>3, NullIsNothing DEF Table

---------------------------------------------------------------------------
(* A loop and the table it runs over: unless the table shrank, the keys    *)
(* of the beginning are where they were, the loop is at an entry, and it   *)
(* has seen the keys up to that.                                           *)

InStep(loop, t) ==
    /\ t # NULL
    /\ loop.wild => loop.shrunk
    /\ ~ loop.shrunk =>
          /\ Extends(t, loop.start)
          /\ loop.at < Len(t) /\ Len(loop.seen) = loop.at + 1
          /\ \A i \in 1..Len(loop.seen) : loop.seen[i] = t[i].key

LoopsInStep == \A n \in DOMAIN loops : InStep(loops[n], tables[loops[n].over])

IInv == TypeOK /\ LoopsInStep

LEMMA ExtendsItself ==
    ASSUME NEW t \in TableText
    PROVE  Extends(t, t)
  BY LenProperties DEF Extends, TableText

LEMMA ExtendsFurther ==
    ASSUME NEW t \in TableText, NEW u, NEW v, Extends(u, t), Extends(v, u)
    PROVE  Extends(v, t)
  <1>1. Len(t) \in Nat /\ Len(u) \in Nat /\ Len(v) \in Nat
    BY LenProperties DEF Extends, TableText
  <1>2. Len(t) <= Len(u) /\ Len(u) <= Len(v) /\ v \in TableText
    BY DEF Extends
  <1>3. \A i \in 1..Len(t) : i \in 1..Len(u)
    BY <1>1, <1>2
  <1>4. \A i \in 1..Len(t) : v[i].key = t[i].key
    BY <1>3 DEF Extends
  <1> QED BY <1>1, <1>2, <1>4 DEF Extends

LEMMA LoopTyped ==
    ASSUME NEW loop \in Loop
    PROVE  /\ loop.over \in Which /\ loop.at \in Nat \union {-1}
           /\ loop.start \in TableText /\ loop.seen \in Seq(Text)
           /\ loop.shrunk \in BOOLEAN /\ loop.wild \in BOOLEAN
  BY DEF Loop, T!BeforeFirst

(* The loop and the table of a step.                                       *)
LEMMA TopIs ==
    ASSUME IInv, loops # <<>>
    PROVE  /\ Top \in Loop /\ Current \in TableText /\ Len(Current) \in Nat
           /\ InStep(Top, Current)
           /\ Front(loops) \in Seq(Loop) /\ Len(loops) \in Nat \ {0}
           /\ Len(Front(loops)) = Len(loops) - 1
           /\ \A n \in 1..Len(loops) - 1 : Front(loops)[n] = loops[n]
  <1>1. loops \in Seq(Loop) /\ DOMAIN loops = 1..Len(loops)
    BY LenProperties DEF IInv, TypeOK
  <1>2. /\ Front(loops) \in Seq(Loop) /\ Len(Front(loops)) = Len(loops) - 1
        /\ \A n \in 1..Len(loops) - 1 : Front(loops)[n] = loops[n]
        /\ Last(loops) = loops[Len(loops)] /\ Last(loops) \in Loop
        /\ Len(loops) \in Nat \ {0}
    BY <1>1, FrontLast
  <1>3. InStep(Top, Current)
    BY <1>1, <1>2 DEF IInv, LoopsInStep, Top, Current
  <1>4. Current \in TableText \union {NULL}
    BY <1>2, LoopTyped DEF IInv, TypeOK, Top, Current
  <1>5. Current \in TableText
    BY <1>3, <1>4 DEF InStep
  <1>6. Len(Current) \in Nat
    BY <1>5, LenProperties DEF TableText
  <1> QED BY <1>2, <1>3, <1>5, <1>6 DEF Top

LEMMA InitOK ==
    ASSUME Init
    PROVE  IInv
  <1>1. \A items \in BoundedSeq(Item, MaxItems) : items \in Seq(Item)
    BY BoundsAreNats, SeqDef DEF BoundedSeq, SeqOf
  <1>2. {form, query} \subseteq Seq(Item)
    BY <1>1 DEF Init
  <1>3. tables \in [Which -> TableText \union {NULL}]
    BY ScriptsUseTexts DEF Init, NoTables
  <1>4. loops \in Seq(Loop) /\ DOMAIN loops = {}
    BY DEF Init
  <1>5. changes \in 0..MaxChanges /\ calls \in 0..MaxCalls
    BY BoundsAreNats DEF Init
  <1>6. LoopsInStep
    BY <1>4 DEF LoopsInStep
  <1>7. type \in Type
    BY DEF Init
  <1> QED BY <1>2, <1>3, <1>4, <1>5, <1>6, <1>7 DEF IInv, TypeOK

LEMMA BeginEachOK ==
    ASSUME IInv, NEW w \in Touched, BeginEach(w)
    PROVE  IInv'
  <1> DEFINE loop == [over |-> w, at |-> T!BeforeFirst, start |-> Table(w),
                      seen |-> <<>>, shrunk |-> FALSE, wild |-> FALSE]
             N == Len(loops)
  <1>1. w \in Which /\ TypeOK
    BY TouchedAreTables DEF IInv
  <1>2. Table(w) \in TableText
        /\ (tables[w] # NULL => Table(w) = tables[w]) /\ Table(w) # NULL
    BY <1>1, TableTyped
  <1>3. loop \in Loop
    BY <1>1, <1>2 DEF Loop
  <1>4. tables' = [tables EXCEPT ![w] = Table(w)] /\ loops' = Append(loops, loop)
    BY DEF BeginEach, Use
  <1>5. /\ tables' \in [Which -> TableText \union {NULL}]
        /\ tables'[w] = Table(w)
        /\ \A x \in Which : tables[x] # NULL => tables'[x] = tables[x]
    BY <1>1, <1>2, <1>4 DEF TypeOK
  <1>6. InStep(loop, tables'[w])
    <2>1. Extends(Table(w), Table(w)) /\ Len(Table(w)) \in Nat
      BY <1>2, ExtendsItself, LenProperties DEF TableText
    <2>2. /\ loop.start = Table(w) /\ loop.at = -1 /\ loop.seen = <<>>
          /\ loop.wild = FALSE
      BY DEF T!BeforeFirst
    <2>3. Len(loop.seen) = 0
      BY <2>2
    <2> HIDE DEF loop
    <2> QED BY <1>2, <1>5, <2>1, <2>2, <2>3 DEF InStep
  <1>7. loops \in Seq(Loop) /\ N \in Nat /\ DOMAIN loops = 1..N
    BY <1>1, LenProperties DEF TypeOK
  <1>8. loop.over = w
    OBVIOUS
  <1> HIDE DEF loop, N
  <1>9. /\ loops' \in Seq(Loop) /\ Len(loops') = N + 1
        /\ \A n \in 1..N : loops'[n] = loops[n]
        /\ loops'[N + 1] = loop
    BY <1>3, <1>4, <1>7, AppendProperties DEF N
  <1>10. DOMAIN loops' = 1..N + 1
    BY <1>9, LenProperties
  <1>11. ASSUME NEW n \in 1..N + 1
         PROVE  InStep(loops'[n], tables'[loops'[n].over])
    <2>1. CASE n = N + 1
      BY <1>6, <1>8, <1>9, <2>1
    <2>2. CASE n # N + 1
      <3>1. n \in 1..N
        BY <1>7, <2>2
      <3>2. loops'[n] = loops[n] /\ InStep(loops[n], tables[loops[n].over])
        BY <1>7, <1>9, <3>1 DEF IInv, LoopsInStep
      <3>3. loops[n] \in Loop
        BY <1>7, <3>1, ElementOfSeq DEF N
      <3>4. tables'[loops[n].over] = tables[loops[n].over]
        BY <1>5, <3>2, <3>3, LoopTyped DEF InStep
      <3> QED BY <3>2, <3>4
    <2> QED BY <2>1, <2>2
  <1>12. LoopsInStep'
    BY <1>10, <1>11 DEF LoopsInStep
  <1>13. calls' \in 0..MaxCalls
    BY <1>1, BoundsAreNats DEF BeginEach, TypeOK
  <1>14. TypeOK'
    BY <1>1, <1>5, <1>9, <1>13 DEF BeginEach, TypeOK
  <1> QED BY <1>12, <1>14 DEF IInv

LEMMA AdvanceOK ==
    ASSUME IInv, loops # <<>>, NEW loop \in Loop, loop.over = Top.over,
           InStep(loop, Current), Advance(loop),
           UNCHANGED <<type, form, query, tables, changes, calls>>
    PROVE  IInv'
  <1> DEFINE N == Len(loops)
  <1>1. /\ Front(loops) \in Seq(Loop) /\ N \in Nat \ {0}
        /\ Len(Front(loops)) = N - 1
        /\ \A n \in 1..N - 1 : Front(loops)[n] = loops[n]
    BY TopIs
  <1>2. loops' = Append(Front(loops), loop) /\ Current = tables[loop.over]
    BY DEF Advance, Current
  <1>3. loops \in Seq(Loop) /\ DOMAIN loops = 1..N
    BY LenProperties DEF IInv, TypeOK
  <1> HIDE DEF N
  <1>4. /\ loops' \in Seq(Loop) /\ Len(loops') = N - 1 + 1
        /\ \A n \in 1..N - 1 : loops'[n] = Front(loops)[n]
        /\ loops'[N - 1 + 1] = loop
    BY <1>1, <1>2, AppendProperties
  <1>5. DOMAIN loops' = 1..N /\ loops'[N] = loop
    BY <1>1, <1>4, LenProperties
  <1>6. ASSUME NEW n \in 1..N
        PROVE  InStep(loops'[n], tables[loops'[n].over])
    <2>1. CASE n = N
      BY <1>2, <1>5, <2>1
    <2>2. CASE n # N
      <3>1. n \in 1..N - 1
        BY <1>1, <2>2
      <3>2. loops'[n] = loops[n]
        BY <1>1, <1>4, <3>1
      <3> QED BY <1>3, <3>2 DEF IInv, LoopsInStep
    <2> QED BY <2>1, <2>2
  <1>7. LoopsInStep'
    BY <1>5, <1>6 DEF LoopsInStep
  <1> QED BY <1>4, <1>7 DEF IInv, TypeOK

LEMMA FrontOK ==
    ASSUME IInv, loops # <<>>, loops' = Front(loops),
           UNCHANGED <<type, form, query, tables, changes, calls>>
    PROVE  IInv'
  <1> DEFINE N == Len(loops)
  <1>1. /\ loops' \in Seq(Loop) /\ N \in Nat \ {0} /\ Len(loops') = N - 1
        /\ \A n \in 1..N - 1 : loops'[n] = loops[n]
    BY TopIs
  <1>2. DOMAIN loops = 1..N /\ DOMAIN loops' = 1..N - 1
    BY <1>1, LenProperties DEF IInv, TypeOK
  <1> HIDE DEF N
  <1>3. \A n \in 1..N - 1 : n \in 1..N
    BY <1>1
  <1>4. LoopsInStep'
    BY <1>1, <1>2, <1>3 DEF IInv, LoopsInStep
  <1> QED BY <1>1, <1>4 DEF IInv, TypeOK

LEMMA YieldEntryOK ==
    ASSUME IInv, loops # <<>>, YieldEntry
    PROVE  IInv'
  <1> DEFINE t == Current
             entry == T!At(t, Top.at + 1)
             loop == [Top EXCEPT !.at = @ + 1, !.seen = Append(@, entry.key)]
             N == Len(t)
             a == Top.at
  <1>1. Top \in Loop /\ t \in TableText /\ N \in Nat /\ InStep(Top, t)
    BY TopIs
  <1>2. a \in Nat \union {-1} /\ Top.seen \in Seq(Text)
    BY <1>1, LoopTyped
  <1>3. a + 1 \in 0..N - 1
    BY DEF YieldEntry, T!Inside, T!Indices
  <1>4. a + 1 + 1 \in 1..N /\ entry = t[a + 1 + 1]
    BY <1>1, <1>2, <1>3 DEF T!At
  <1>5. entry \in [key : Text, val : Text]
    BY <1>1, <1>4, ElementOfSeq DEF TableText
  <1> DEFINE seen == Append(Top.seen, entry.key)
             M == Len(Top.seen)
  <1>6. /\ seen \in Seq(Text) /\ Len(seen) = M + 1 /\ M \in Nat
        /\ \A i \in 1..M : seen[i] = Top.seen[i]
        /\ seen[M + 1] = entry.key
    BY <1>2, <1>5, AppendProperties, LenProperties
  <1> HIDE DEF seen
  <1>7. loop = [Top EXCEPT !.at = a + 1, !.seen = seen]
    BY DEF seen
  <1>8. /\ loop \in Loop /\ loop.over = Top.over /\ loop.start = Top.start
        /\ loop.at = a + 1 /\ loop.seen = seen
        /\ loop.wild = Top.wild /\ loop.shrunk = Top.shrunk
    <2>1. a + 1 \in Nat \union {T!BeforeFirst}
      BY <1>3
    <2> HIDE DEF a, loop
    <2> QED BY <1>1, <1>6, <1>7, <2>1 DEF Loop
  <1>9. Advance(loop)
    BY DEF YieldEntry
  <1> HIDE DEF loop, entry, a, N, M
  <1>10. ASSUME ~ Top.shrunk
         PROVE  /\ a + 1 < N /\ M + 1 = a + 1 + 1
                /\ \A i \in 1..M + 1 : seen[i] = t[i].key
    <2>1. a + 1 < N
      BY <1>1, <1>3
    <2>2. M = a + 1 /\ \A i \in 1..M : Top.seen[i] = t[i].key
      BY <1>1, <1>10 DEF InStep, M, a
    <2>3. seen[M + 1] = t[M + 1].key
      BY <1>4, <1>6, <2>2
    <2>4. \A i \in 1..M + 1 : i \in 1..M \/ i = M + 1
      BY <1>6
    <2> QED BY <1>6, <2>1, <2>2, <2>3, <2>4
  <1>11. InStep(loop, t)
    BY <1>1, <1>6, <1>8, <1>10 DEF InStep, N, M
  <1> QED BY <1>8, <1>9, <1>11, AdvanceOK DEF YieldEntry

(* A loop reads past the end only when its table shrank.                   *)
LEMMA WildOnly ==
    ASSUME IInv, loops # <<>>, YieldWild
    PROVE  Top.shrunk
  <1>1. Top \in Loop /\ Current \in TableText /\ Len(Current) \in Nat
        /\ InStep(Top, Current)
    BY TopIs
  <1> DEFINE N == Len(Current)
             a == Top.at
  <1>2. a \in Nat \union {-1}
    BY <1>1, LoopTyped
  <1>3. a # N - 1 /\ ~ (a + 1 \in 0..N - 1)
    BY DEF YieldWild, T!HasNext, T!Inside, T!Indices
  <1>4. ~ Top.shrunk => a < N
    BY <1>1 DEF InStep
  <1> HIDE DEF N, a
  <1>5. N \in Nat
    BY <1>1 DEF N
  <1> QED BY <1>2, <1>3, <1>4, <1>5

LEMMA YieldWildOK ==
    ASSUME IInv, loops # <<>>, YieldWild
    PROVE  IInv'
  <1>1. Top \in Loop /\ Current \in TableText /\ InStep(Top, Current)
    BY TopIs
  <1>2. Top.shrunk
    BY WildOnly
  <1>3. CASE loops' = <<>>
    <2>1. DOMAIN loops' = {} /\ loops' \in Seq(Loop)
      BY <1>3
    <2>2. LoopsInStep'
      BY <2>1 DEF LoopsInStep
    <2> QED BY <2>1, <2>2 DEF IInv, TypeOK, YieldWild
  <1>4. CASE Advance([Top EXCEPT !.at = @ + 1, !.wild = TRUE])
    <2> DEFINE loop == [Top EXCEPT !.at = @ + 1, !.wild = TRUE]
    <2>1. Top.at + 1 \in Nat \union {T!BeforeFirst}
      BY <1>1, LoopTyped
    <2>2. /\ loop \in Loop /\ loop.over = Top.over /\ loop.shrunk = Top.shrunk
      BY <1>1, <2>1 DEF Loop
    <2> HIDE DEF loop
    <2>3. InStep(loop, Current)
      BY <1>1, <1>2, <2>2 DEF InStep
    <2> QED BY <1>4, <2>2, <2>3, AdvanceOK DEF YieldWild, loop
  <1> QED BY <1>3, <1>4 DEF YieldWild

(* A change that keeps the keys, unless an entry goes.                     *)
LEMMA ChangeOK ==
    ASSUME IInv, NEW w \in Touched, NEW t \in TableText,
           Len(Table(w)) <= Len(t) => Extends(t, Table(w)),
           Change(w, t)
    PROVE  IInv'
  <1> DEFINE Loop1(n) == [loops[n] EXCEPT !.shrunk =
                            @ \/ (loops[n].over = w /\ Len(t) < Len(Table(w)))]
  <1>1. w \in Which /\ TypeOK
    BY TouchedAreTables DEF IInv
  <1>2. /\ Table(w) \in TableText
        /\ tables[w] # NULL => Table(w) = tables[w]
    BY <1>1, TableTyped
  <1>3. /\ tables' \in [Which -> TableText \union {NULL}]
        /\ tables'[w] = t
        /\ \A x \in Which : x # w => tables'[x] = tables[x]
    BY <1>1 DEF TypeOK, Change
  <1>4. loops \in Seq(Loop) /\ DOMAIN loops = 1..Len(loops) /\ Len(loops) \in Nat
    BY <1>1, LenProperties DEF TypeOK
  <1>5. \A n \in 1..Len(loops) :
           /\ loops[n] \in Loop
           /\ InStep(loops[n], tables[loops[n].over])
    BY <1>4, ElementOfSeq DEF IInv, LoopsInStep
  <1>6. Len(t) \in Nat /\ Len(Table(w)) \in Nat
    BY <1>2, LenProperties DEF TableText
  <1>7. ASSUME NEW n \in 1..Len(loops)
        PROVE  /\ Loop1(n) \in Loop /\ Loop1(n).over = loops[n].over
               /\ Loop1(n).start = loops[n].start /\ Loop1(n).at = loops[n].at
               /\ Loop1(n).seen = loops[n].seen /\ Loop1(n).wild = loops[n].wild
               /\ Loop1(n).shrunk =
                     (loops[n].shrunk \/ (loops[n].over = w /\ Len(t) < Len(Table(w))))
    <2> DEFINE l == loops[n]
               now == l.shrunk \/ (l.over = w /\ Len(t) < Len(Table(w)))
    <2>1. l \in Loop /\ now \in BOOLEAN
      BY <1>5
    <2>2. Loop1(n) = [l EXCEPT !.shrunk = now]
      OBVIOUS
    <2> HIDE DEF l, now, Loop1
    <2>3. /\ Loop1(n) \in Loop /\ Loop1(n).over = l.over
          /\ Loop1(n).start = l.start /\ Loop1(n).at = l.at
          /\ Loop1(n).seen = l.seen /\ Loop1(n).wild = l.wild
          /\ Loop1(n).shrunk = now
      BY <2>1, <2>2 DEF Loop
    <2> QED BY <2>3 DEF l, now
  <1>8. loops' = [n \in 1..Len(loops) |-> Loop1(n)]
    BY <1>4 DEF Change
  <1>9. /\ loops' \in Seq(Loop) /\ DOMAIN loops' = 1..Len(loops)
        /\ \A n \in 1..Len(loops) : loops'[n] = Loop1(n)
    BY <1>4, <1>7, <1>8, SeqDef
  <1> HIDE DEF Loop1
  <1>10. ASSUME NEW n \in 1..Len(loops)
         PROVE  InStep(loops'[n], tables'[loops'[n].over])
    <2> DEFINE l == loops[n]
               m == loops'[n]
    <2>1. /\ m.over = l.over /\ m.start = l.start /\ m.at = l.at
          /\ m.seen = l.seen /\ m.wild = l.wild
          /\ m.shrunk = (l.shrunk \/ (l.over = w /\ Len(t) < Len(Table(w))))
      BY <1>7, <1>9
    <2>2. l \in Loop /\ InStep(l, tables[l.over])
      BY <1>5
    <2>3. /\ l.over \in Which /\ l.start \in TableText
          /\ l.at \in Nat \union {-1} /\ l.seen \in Seq(Text)
      BY <2>2, LoopTyped
    <2> HIDE DEF l, m
    <2>4. CASE l.over # w
      <3>1. tables'[l.over] = tables[l.over]
        BY <1>3, <2>3, <2>4
      <3>2. m.shrunk = l.shrunk
        BY <2>1, <2>2, <2>4 DEF Loop
      <3>3. InStep(m, tables[l.over])
        BY <2>1, <2>2, <3>2 DEF InStep
      <3> QED BY <2>1, <3>1, <3>3 DEF m
    <2>5. CASE l.over = w
      <3> DEFINE u == tables[w]
      <3>1. u # NULL /\ Table(w) = u /\ InStep(l, u)
        BY <1>2, <2>2, <2>5 DEF InStep
      <3>2. t # NULL
        BY NullIsNothing
      <3>3. m.wild => m.shrunk
        BY <2>1, <3>1 DEF InStep
      <3>4. ASSUME ~ m.shrunk
            PROVE  /\ Extends(t, m.start)
                   /\ m.at < Len(t) /\ Len(m.seen) = m.at + 1
                   /\ \A i \in 1..Len(m.seen) : m.seen[i] = t[i].key
        <4>1. ~ l.shrunk /\ ~ (Len(t) < Len(Table(w)))
          BY <2>1, <2>5, <3>4
        <4>2. Len(Table(w)) <= Len(t)
          BY <1>6, <4>1
        <4>3. Extends(t, u)
          BY <3>1, <4>2
        <4>4. /\ Extends(u, l.start)
              /\ l.at < Len(u) /\ Len(l.seen) = l.at + 1
              /\ \A i \in 1..Len(l.seen) : l.seen[i] = u[i].key
          BY <3>1, <4>1 DEF InStep
        <4>5. Extends(t, l.start)
          BY <2>3, <4>3, <4>4, ExtendsFurther
        <4>6. l.at < Len(t) /\ \A i \in 1..Len(l.seen) : i \in 1..Len(u)
          BY <1>6, <2>3, <3>1, <4>2, <4>4
        <4>7. \A i \in 1..Len(l.seen) : l.seen[i] = t[i].key
          BY <4>3, <4>4, <4>6 DEF Extends
        <4> QED BY <2>1, <4>4, <4>5, <4>6, <4>7
      <3>5. InStep(m, t)
        BY <3>2, <3>3, <3>4 DEF InStep
      <3> QED BY <1>3, <2>1, <2>5, <3>5 DEF m
    <2> QED BY <2>4, <2>5
  <1>11. LoopsInStep'
    BY <1>9, <1>10 DEF LoopsInStep
  <1>12. changes' \in 0..MaxChanges
    BY <1>1, BoundsAreNats DEF Change, TypeOK
  <1>13. TypeOK'
    BY <1>1, <1>3, <1>9, <1>12 DEF Change, TypeOK
  <1> QED BY <1>11, <1>13 DEF IInv

LEMMA NextRequestOK ==
    ASSUME IInv, NextRequest
    PROVE  IInv'
  <1>1. tables' \in [Which -> TableText \union {NULL}]
    BY ScriptsUseTexts DEF NextRequest, NoTables
  <1>2. loops' \in Seq(Loop) /\ DOMAIN loops' = {}
    BY DEF NextRequest
  <1>3. LoopsInStep'
    BY <1>2 DEF LoopsInStep
  <1>4. changes' \in 0..MaxChanges /\ calls' \in 0..MaxCalls
    BY BoundsAreNats DEF NextRequest
  <1> QED BY <1>1, <1>2, <1>3, <1>4 DEF IInv, TypeOK, NextRequest

(* The changes a script makes keep the keys in their places.               *)
LEMMA ValueChangeOK ==
    ASSUME IInv, NEW w \in Touched, NEW name \in Name, NEW v \in Val,
           \/ SetValue(w, name, v) \/ AddValue(w, name, v) \/ MergeValue(w, name, v)
    PROVE  IInv'
  <1> DEFINE u == Table(w)
  <1>1. u \in TableText /\ name \in Text /\ v \in Text
    BY TableTyped, TouchedAreTables, ScriptsUseTexts DEF IInv
  <1> HIDE DEF u
  <1>2. T!Set(u, name, v) \in TableText
        /\ (Len(u) <= Len(T!Set(u, name, v)) => Extends(T!Set(u, name, v), u))
    BY <1>1, SetExtends
  <1>3. T!Add(u, name, v) \in TableText /\ Extends(T!Add(u, name, v), u)
    BY <1>1, AddExtends DEF Extends
  <1>4. T!Merge(u, name, v) \in TableText /\ Extends(T!Merge(u, name, v), u)
    BY <1>1, MergeExtends DEF Extends
  <1>5. CASE SetValue(w, name, v)
    BY <1>2, <1>5, ChangeOK DEF SetValue, u
  <1>6. CASE AddValue(w, name, v)
    BY <1>3, <1>6, ChangeOK DEF AddValue, u
  <1>7. CASE MergeValue(w, name, v)
    BY <1>4, <1>7, ChangeOK DEF MergeValue, u
  <1> QED BY <1>5, <1>6, <1>7

LEMMA UnsetNameOK ==
    ASSUME IInv, NEW w \in Touched, NEW name \in Name, UnsetName(w, name)
    PROVE  IInv'
  <1> DEFINE u == Table(w)
             left == T!Unset(u, name)
  <1>1. u \in TableText
    BY TableTyped, TouchedAreTables DEF IInv
  <1> HIDE DEF u
  <1>2. left \in TableText /\ Len(left) <= Len(u) /\ (Len(left) = Len(u) => left = u)
    BY <1>1, UnsetExtends
  <1> HIDE DEF left
  <1>3. Len(u) \in Nat /\ Len(left) \in Nat
    BY <1>1, <1>2, LenProperties DEF TableText
  <1>4. Len(u) <= Len(left) => Extends(left, u)
    BY <1>1, <1>2, <1>3, ExtendsItself
  <1> QED BY <1>2, <1>4, ChangeOK DEF UnsetName, u, left

LEMMA ClearOK ==
    ASSUME IInv, NEW w \in Touched, Clear(w)
    PROVE  IInv'
  <1> DEFINE u == Table(w)
  <1>1. u \in TableText
    BY TableTyped, TouchedAreTables DEF IInv
  <1> HIDE DEF u
  <1>2. Len(<<>>) = 0 /\ <<>> \in TableText
    BY DEF TableText
  <1>3. Len(u) <= 0 => u = <<>>
    BY <1>1, EmptySeq DEF TableText
  <1>4. Len(u) <= Len(<<>>) => Extends(<<>>, u)
    BY <1>2, <1>3, ExtendsItself
  <1> QED BY <1>2, <1>4, ChangeOK DEF Clear, u

LEMMA NextOK ==
    ASSUME IInv, [Next]_vars
    PROVE  IInv'
  <1>1. CASE NextRequest
    BY <1>1, NextRequestOK
  <1>2. CASE StepEach
    <2>1. CASE loops # <<>> /\ YieldEntry
      BY <2>1, YieldEntryOK
    <2>2. CASE loops # <<>> /\ YieldWild
      BY <2>2, YieldWildOK
    <2>3. CASE loops # <<>> /\ EndEach
      BY <2>3, FrontOK DEF EndEach
    <2> QED BY <1>2, <2>1, <2>2, <2>3 DEF StepEach
  <1>3. CASE LeaveEach
    BY <1>3, FrontOK DEF LeaveEach
  <1>4. ASSUME NEW w \in Touched, BeginEach(w) PROVE IInv'
    BY <1>4, BeginEachOK
  <1>5. ASSUME NEW w \in Touched, Clear(w) PROVE IInv'
    BY <1>5, ClearOK
  <1>6. ASSUME NEW w \in Touched, NEW name \in Name, UnsetName(w, name) PROVE IInv'
    BY <1>6, UnsetNameOK
  <1>7. ASSUME NEW w \in Touched, NEW name \in Name, NEW v \in Val,
               SetValue(w, name, v) \/ AddValue(w, name, v) \/ MergeValue(w, name, v)
        PROVE  IInv'
    BY <1>7, ValueChangeOK
  <1>8. CASE UNCHANGED vars
    BY <1>8 DEF vars, IInv, TypeOK, LoopsInStep
  <1> QED BY <1>1, <1>2, <1>3, <1>4, <1>5, <1>6, <1>7, <1>8 DEF Next

(* In every reachable state the tables hold texts, and a loop whose table  *)
(* did not shrink is in step with it.                                      *)
THEOREM InStepAlways == Spec => []IInv
  <1>1. Init => IInv
    BY InitOK
  <1>2. IInv /\ [Next]_vars => IInv'
    BY NextOK
  <1> QED BY <1>1, <1>2, PTL DEF Spec

(* The tables hold texts whatever a client sends: what hex2int makes of a  *)
(* byte is a digit or no digit at all, and what url_decode makes of two    *)
(* digits is a byte (util.cpp:34-149).                                     *)
THEOREM TablesTyped == Spec => []TypeOK
  <1>1. IInv => TypeOK
    BY DEF IInv
  <1> QED BY <1>1, InStepAlways, PTL

(* A loop reads past the table's end only if the table shrank under it,    *)
(* whatever else its block did (apr_table.cpp:261-277).                    *)
THEOREM OnlyShrinkingIsWild == Spec => []WildOnlyAfterShrink
  <1>1. IInv => WildOnlyAfterShrink
    BY DEF IInv, LoopsInStep, InStep, WildOnlyAfterShrink
  <1> QED BY <1>1, InStepAlways, PTL

---------------------------------------------------------------------------
(* The loop of each shows every entry.                                     *)

LEMMA EndHasSeen ==
    ASSUME IInv, loops # <<>>, EndEach, ~ Top.shrunk
    PROVE  IsPrefix([n \in DOMAIN Top.start |-> Top.start[n].key], Top.seen)
  <1> DEFINE t == Current
             N == Len(t)
             start == Top.start
             M == Len(start)
             keys == [n \in DOMAIN start |-> start[n].key]
             seen == Top.seen
  <1>1. Top \in Loop /\ t \in TableText /\ N \in Nat /\ InStep(Top, t)
    BY TopIs
  <1>2. /\ Extends(t, start) /\ Top.at < N /\ Len(seen) = Top.at + 1
        /\ \A i \in 1..Len(seen) : seen[i] = t[i].key
    BY <1>1 DEF InStep
  <1>3. Top.at \in Nat \union {-1} /\ start \in TableText /\ seen \in Seq(Text)
    BY <1>1, LoopTyped
  <1>4. Top.at = N - 1 \/ t = <<>>
    BY DEF EndEach, T!HasNext
  <1>5. t = <<>> => N = 0
    OBVIOUS
  <1>6. M \in Nat /\ DOMAIN start = 1..M
    BY <1>3, LenProperties DEF TableText
  <1>7. \A i \in 1..M : start[i] \in [key : Text, val : Text]
    BY <1>3, ElementOfSeq DEF TableText
  <1>8. M <= N /\ \A i \in 1..M : t[i].key = start[i].key
    BY <1>2 DEF Extends
  <1>9. keys = [n \in 1..M |-> start[n].key]
    BY <1>6
  <1>10. keys \in Seq(Text) /\ Len(keys) = M /\ \A i \in 1..M : keys[i] = start[i].key
    BY <1>6, <1>7, <1>9, SeqDef
  <1> HIDE DEF t, N, start, M, keys, seen
  <1>11. Len(seen) = N
    BY <1>1, <1>2, <1>3, <1>4, <1>5
  <1>12. \A i \in 1..M : seen[i] = keys[i]
    BY <1>1, <1>2, <1>6, <1>8, <1>10, <1>11
  <1>13. 1 \in 1..M + 1 /\ M \in 1 - 1..M /\ M \in 1 - 1..N /\ 1 \in 1..N + 1
    BY <1>1, <1>6, <1>8
  <1>14. /\ SubSeq(keys, 1, M) \in Seq(Text) /\ Len(SubSeq(keys, 1, M)) = M - 1 + 1
         /\ \A i \in 1..M - 1 + 1 : SubSeq(keys, 1, M)[i] = keys[1 + i - 1]
    BY <1>10, <1>13, Part
  <1>15. /\ SubSeq(seen, 1, M) \in Seq(Text) /\ Len(SubSeq(seen, 1, M)) = M - 1 + 1
         /\ \A i \in 1..M - 1 + 1 : SubSeq(seen, 1, M)[i] = seen[1 + i - 1]
    BY <1>3, <1>11, <1>13, Part
  <1>16. \A i \in 1..M - 1 + 1 : SubSeq(keys, 1, M)[i] = SubSeq(seen, 1, M)[i]
    BY <1>6, <1>12, <1>14, <1>15
  <1>17. SubSeq(keys, 1, M) = SubSeq(seen, 1, M)
    BY <1>14, <1>15, <1>16, SeqEqual
  <1>18. IsPrefix(keys, seen)
    BY <1>8, <1>10, <1>11, <1>17 DEF IsPrefix
  <1> QED BY <1>18 DEF keys, start, seen

(* A loop that ends by itself has shown its block every entry that was     *)
(* there when it began, in order and once, unless the table shrank         *)
(* (ruby_apr_table.cpp:124-138).                                           *)
THEOREM LoopsShowAll == Spec => EachSeesAll
  <1>1. IInv /\ [Next]_vars
           => [loops # <<>> /\ EndEach /\ ~ Top.shrunk
                  => IsPrefix([n \in DOMAIN Top.start |-> Top.start[n].key],
                              Top.seen)]_vars
    BY EndHasSeen
  <1> QED BY <1>1, InStepAlways, PTL DEF Spec, EachSeesAll

---------------------------------------------------------------------------
(* Decoding.  What grows by parts has each part where the ones before end. *)

Grown(S, N, f, part) ==
    /\ N \in Nat /\ f \in [0..N -> Seq(S)]
    /\ \A n \in 1..N : part[n] \in Seq(S) /\ f[n] = f[n - 1] \o part[n]

(* A text that holds another behind its first a bytes.                     *)
Holds(s, a, part) ==
    /\ a + Len(part) <= Len(s)
    /\ \A j \in 1..Len(part) : s[a + j] = part[j]

LEMMA Grows ==
    ASSUME NEW S, NEW N, NEW f, NEW part, Grown(S, N, f, part)
    PROVE  \A n \in 1..N :
              /\ Len(f[n]) = Len(f[n - 1]) + Len(part[n])
              /\ Holds(f[N], Len(f[n - 1]), part[n])
  <1>0. /\ N \in Nat /\ f \in [0..N -> Seq(S)]
        /\ \A n \in 1..N : part[n] \in Seq(S) /\ f[n] = f[n - 1] \o part[n]
    BY DEF Grown
  <1> DEFINE L(n) == Len(f[n])
             Ahead(m) == \A n \in 0..m : /\ L(n) <= L(m)
                                         /\ \A i \in 1..L(n) : f[m][i] = f[n][i]
             good == {m \in 0..N : Ahead(m)}
  <1>1. \A n \in 0..N : f[n] \in Seq(S) /\ L(n) \in Nat
    BY <1>0, LenProperties
  <1>2. ASSUME NEW n \in 1..N
        PROVE  /\ n - 1 \in 0..N /\ n \in 0..N
               /\ Len(part[n]) \in Nat /\ L(n) = L(n - 1) + Len(part[n])
               /\ \A i \in 1..L(n) : f[n][i] = IF i <= L(n - 1) THEN f[n - 1][i]
                                               ELSE part[n][i - L(n - 1)]
    <2>1. n - 1 \in 0..N /\ n \in 0..N
      BY <1>0
    <2>2. part[n] \in Seq(S) /\ f[n - 1] \in Seq(S) /\ f[n] = f[n - 1] \o part[n]
      BY <1>0, <1>1, <2>1
    <2> DEFINE u == f[n - 1] \o part[n]
    <2>3. /\ Len(u) = L(n - 1) + Len(part[n])
          /\ \A i \in 1..L(n - 1) + Len(part[n]) :
                u[i] = IF i <= L(n - 1) THEN f[n - 1][i] ELSE part[n][i - L(n - 1)]
      BY <2>2, ConcatProperties
    <2>4. Len(part[n]) \in Nat
      BY <2>2, LenProperties
    <2>5. f[n] = u
      BY <2>2
    <2> HIDE DEF u
    <2> QED BY <2>1, <2>3, <2>4, <2>5
  <1> HIDE DEF L
  <1>3. Ahead(0)
    BY <1>0, <1>1
  <1>4. ASSUME NEW m \in 1..N, Ahead(m - 1) PROVE Ahead(m)
    <2>1. ASSUME NEW n \in 0..m
          PROVE  L(n) <= L(m) /\ \A i \in 1..L(n) : f[m][i] = f[n][i]
      <3>0. n \in 0..N /\ m \in 0..N /\ m - 1 \in 0..N
        BY <1>0
      <3>1. CASE n = m
        BY <1>1, <3>0, <3>1
      <3>2. CASE n # m
        <4>1. n \in 0..m - 1
          BY <1>0, <3>2
        <4>2. L(n) <= L(m - 1) /\ \A i \in 1..L(n) : f[m - 1][i] = f[n][i]
          BY <1>4, <4>1
        <4>3. L(n) \in Nat /\ L(m - 1) \in Nat /\ L(m) \in Nat
          BY <1>1, <3>0
        <4>4. L(m - 1) <= L(m)
          <5>1. L(m) = L(m - 1) + Len(part[m]) /\ Len(part[m]) \in Nat
            BY <1>2
          <5> QED BY <4>3, <5>1
        <4>5. ASSUME NEW i \in 1..L(n) PROVE f[m][i] = f[n][i]
          <5>1. i \in 1..L(m) /\ i <= L(m - 1)
            BY <4>2, <4>3, <4>4
          <5>2. f[m][i] = f[m - 1][i]
            BY <1>2, <5>1
          <5> QED BY <4>2, <5>2
        <4> QED BY <4>2, <4>3, <4>4, <4>5
      <3> QED BY <3>1, <3>2
    <2> QED BY <2>1
  <1>5. Ahead(N)
    <2> HIDE DEF Ahead
    <2>1. good \in SUBSET (0..N) /\ 0 \in good
      BY <1>0, <1>3
    <2>2. \A n \in 1..N : n - 1 \in good => n \in good
      BY <1>0, <1>4
    <2>3. good = 0..N
      <3> HIDE DEF good
      <3> QED BY <1>0, <2>1, <2>2, Induction
    <2>4. N \in good
      BY <1>0, <2>3
    <2> QED BY <2>4
  <1>6. ASSUME NEW n \in 1..N
        PROVE  /\ L(n) = L(n - 1) + Len(part[n])
               /\ Holds(f[N], L(n - 1), part[n])
    <2>1. n - 1 \in 0..N /\ n \in 0..N /\ L(n) = L(n - 1) + Len(part[n])
      BY <1>2
    <2>2. L(n - 1) \in Nat /\ L(n) \in Nat /\ Len(part[n]) \in Nat
      BY <1>1, <1>2, <2>1
    <2>3. ASSUME NEW j \in 1..Len(part[n])
          PROVE  f[N][L(n - 1) + j] = part[n][j]
      <3> DEFINE i == L(n - 1) + j
      <3>1. i \in 1..L(n) /\ ~ (i <= L(n - 1)) /\ i - L(n - 1) = j
        BY <2>1, <2>2
      <3> HIDE DEF i
      <3>2. f[n][i] = part[n][j]
        BY <1>2, <3>1
      <3>3. f[N][i] = f[n][i]
        BY <1>5, <2>1, <3>1
      <3> QED BY <3>2, <3>3 DEF i
    <2>4. L(n - 1) + Len(part[n]) <= L(N)
      BY <1>5, <2>1
    <2> QED BY <2>1, <2>3, <2>4 DEF Holds, L
  <1> QED BY <1>6 DEF L

(* hex2int knows the digits and nothing else.                              *)
LEMMA HexToIntIs ==
    ASSUME NEW c \in 0..255
    PROVE  HexToInt(c) = IF c \in HexDigit THEN Digit(c) ELSE 255
  <1> DEFINE digit == (c - 48) % 256
             x == (digit + 47) % 256
             o == OrSpace(x)
             hex == IF digit <= 9 THEN digit ELSE (o - 86) % 256
  <1>1. HexToInt(c) = IF hex > 15 THEN 255 ELSE hex
    BY DEF HexToInt
  <1>2. digit = IF c < 48 THEN c + 208 ELSE c - 48
    OBVIOUS
  <1>3. x = IF c = 0 THEN 255 ELSE c - 1
    BY <1>2
  <1>4. o = IF (x \div 32) % 2 = 1 THEN x ELSE x + 32
    BY DEF OrSpace
  <1> HIDE DEF digit, x, o
  <1>5. CASE c \in 48..57
    BY <1>1, <1>2, <1>5 DEF HexDigit, Digit
  <1>6. CASE c \notin 48..57
    <2>1. hex = (o - 86) % 256
      BY <1>2, <1>6
    <2>2. x \in 0..255
      BY <1>3
    <2>3. o = IF x \in 0..31 \/ x \in 64..95 \/ x \in 128..159 \/ x \in 192..223
              THEN x + 32 ELSE x
      BY <1>4, <2>2
    <2>4. CASE x \in 64..69 \/ x \in 96..101
      <3>1. o = IF x <= 69 THEN x + 32 ELSE x
        BY <2>3, <2>4
      <3>2. (o - 86) % 256 = o - 86
        BY <2>4, <3>1
      <3>3. c = x + 1
        BY <1>3, <2>4
      <3> QED BY <1>1, <1>6, <2>1, <2>4, <3>1, <3>2, <3>3 DEF HexDigit, Digit
    <2>5. CASE ~ (x \in 64..69 \/ x \in 96..101)
      <3>1. o \in 32..63 \/ o \in 102..255
        BY <2>2, <2>3, <2>5
      <3>2. (o - 86) % 256 > 15
        BY <3>1
      <3>3. c \notin HexDigit
        BY <1>3, <1>6, <2>5 DEF HexDigit
      <3> QED BY <1>1, <2>1, <3>2, <3>3
    <2> QED BY <2>4, <2>5
  <1> QED BY <1>5, <1>6

LEMMA DigitIs ==
    ASSUME NEW c \in HexDigit
    PROVE  HexToInt(c) = Digit(c) /\ Digit(c) # 255
  <1>1. c \in 0..255
    BY DigitRange
  <1>2. HexToInt(c) = IF c \in HexDigit THEN Digit(c) ELSE 255
    BY <1>1, HexToIntIs
  <1>3. Digit(c) \in 0..15 /\ 255 \notin 0..15
    BY DigitRange
  <1> QED BY <1>2, <1>3

(* A piece that is not a percent sign takes a round, and so does the       *)
(* percent sign of one that is no escape.                                  *)
LEMMA RoundPlain ==
    ASSUME NEW s, NEW i \in Nat, i <= Len(s), Len(s) \in Nat, NEW d, ~ IsEscape(s, i)
    PROVE  Round(s, [src |-> i, dst |-> d])
              = [src |-> i + 1, dst |-> Append(d, PlainByte(s[i]))]
  BY DEF Round

LEMMA RoundEscape ==
    ASSUME NEW s, NEW i \in Nat, Len(s) \in Nat, i + 2 <= Len(s), NEW d,
           s[i] = PERCENT, s[i + 1] \in HexDigit, s[i + 2] \in HexDigit
    PROVE  Round(s, [src |-> i, dst |-> d])
              = [src |-> i + 3,
                 dst |-> Append(d, 16 * Digit(s[i + 1]) + Digit(s[i + 2]))]
  <1>1. \A c \in HexDigit : HexToInt(c) = Digit(c) /\ Digit(c) # 255
    BY DigitIs
  <1>2. IsEscape(s, i)
    BY <1>1 DEF IsEscape
  <1>3. EscapedByte(s, i) = 16 * Digit(s[i + 1]) + Digit(s[i + 2])
    BY <1>1 DEF EscapedByte
  <1>4. ~ (i > Len(s))
    OBVIOUS
  <1> DEFINE e == EscapedByte(s, i)
  <1>5. Round(s, [src |-> i, dst |-> d]) = [src |-> i + 3, dst |-> Append(d, e)]
    BY <1>2, <1>4 DEF Round
  <1> QED BY <1>3, <1>5

LEMMA NotAnEscape ==
    ASSUME NEW s \in Text, NEW i \in 1..Len(s),
           \/ s[i] # PERCENT
           \/ i + 2 > Len(s)
           \/ s[i + 1] \notin HexDigit
           \/ s[i + 2] \notin HexDigit
    PROVE  ~ IsEscape(s, i)
  <1>1. Len(s) \in Nat
    BY LenProperties DEF Text
  <1>2. CASE s[i] # PERCENT
    BY <1>2 DEF IsEscape
  <1>3. CASE i + 2 > Len(s)
    BY <1>1, <1>3 DEF IsEscape
  <1>4. ASSUME NEW j \in {i + 1, i + 2}, i + 2 <= Len(s), s[j] \notin HexDigit
        PROVE  HexToInt(s[j]) = 255
    <2>1. j \in 1..Len(s)
      BY <1>1, <1>4
    <2> DEFINE c == s[j]
    <2>2. c \in 0..255 /\ c \notin HexDigit
      BY <1>4, <2>1, ElementOfSeq DEF Text
    <2> HIDE DEF c
    <2>3. HexToInt(c) = 255
      BY <2>2, HexToIntIs
    <2> QED BY <2>3 DEF c
  <1>5. CASE i + 2 <= Len(s) /\ s[i + 1] \notin HexDigit
    <2>1. HexToInt(s[i + 1]) = 255
      BY <1>4, <1>5
    <2> QED BY <2>1 DEF IsEscape
  <1>6. CASE i + 2 <= Len(s) /\ s[i + 2] \notin HexDigit
    <2>1. HexToInt(s[i + 2]) = 255
      BY <1>4, <1>6
    <2> QED BY <2>1 DEF IsEscape
  <1> QED BY <1>1, <1>2, <1>3, <1>5, <1>6

LEMMA TwoBytes ==
    ASSUME NEW a \in 0..255, NEW b \in 0..255
    PROVE  <<a>> \o <<b>> = <<a, b>>
  <1>1. <<a>> \in Text /\ <<b>> \in Text /\ <<a, b>> \in Text
    BY DEF Text
  <1>2. Len(<<a>>) = 1 /\ Len(<<b>>) = 1 /\ Len(<<a, b>>) = 2
    OBVIOUS
  <1> DEFINE u == <<a>> \o <<b>>
  <1>3. /\ u \in Text /\ Len(u) = 1 + 1
        /\ \A i \in 1..1 + 1 : u[i] = IF i <= 1 THEN <<a>>[i] ELSE <<b>>[i - 1]
    BY <1>1, <1>2, ConcatProperties DEF Text
  <1> HIDE DEF u
  <1>4. u[1] = a /\ u[2] = b
    <2>1. u[1] = <<a>>[1]
      BY <1>3
    <2>2. u[2] = <<b>>[1]
      BY <1>3
    <2> QED BY <2>1, <2>2
  <1>5. \A i \in 1..Len(u) : u[i] = <<a, b>>[i]
    <2>1. \A i \in 1..Len(u) : i = 1 \/ i = 2
      BY <1>3
    <2> QED BY <1>4, <2>1
  <1>6. u = <<a, b>>
    BY <1>1, <1>2, <1>3, <1>5, SeqEqual DEF Text
  <1> QED BY <1>6 DEF u

(* The bytes of a piece.                                                   *)
LEMMA PieceKinds ==
    ASSUME NEW p \in Piece
    PROVE  \/ \E c \in 1..255, d \in 0..255 :
                 /\ p = [raw |-> <<c>>, text |-> <<d>>]
                 /\ c # PERCENT /\ PlainByte(c) = d
           \/ \E h \in HexDigit, l \in HexDigit :
                 p = [raw |-> <<PERCENT, h, l>>, text |-> <<16 * Digit(h) + Digit(l)>>]
           \/ p \in Stray /\ p = [raw |-> <<PERCENT>>, text |-> <<PERCENT>>]
           \/ \E h \in HexDigit :
                 p \in Stray /\ p = [raw |-> <<PERCENT, h>>, text |-> <<PERCENT, h>>]
  <1>1. \A q \in Written : \E c \in 1..255, d \in 0..255 :
           q = [raw |-> <<c>>, text |-> <<d>>] /\ c # PERCENT /\ PlainByte(c) = d
    BY DEF Written, PlainByte, AMP, PLUS, PERCENT, SPACE
  <1>2. CASE p \in Written
    BY <1>1, <1>2
  <1>3. CASE p \in Escape
    <2>1. PICK h \in HexDigit, l \in HexDigit :
             p = [raw |-> <<PERCENT, h, l>>, text |-> <<16 * Digit(h) + Digit(l)>>]
      BY <1>3 DEF Escape
    <2> QED BY <2>1
  <1>4. CASE p \in Stray
    BY <1>4 DEF Stray
  <1> QED BY <1>2, <1>3, <1>4 DEF Piece

(* Some round gets behind the first a bytes, and has the text d.           *)
Reaches(f, a, d) ==
    \E m \in Nat : m <= a /\ f[m] = [src |-> a + 1, dst |-> d]

(* No hexadecimal digit is behind the first b bytes.                       *)
NoDigitBehind(s, b) == b = Len(s) \/ (b + 1 <= Len(s) /\ s[b + 1] \notin HexDigit)

(* The rounds over a piece copy what is meant by it.                       *)
LEMMA RoundsOverPiece ==
    ASSUME NEW s \in Text, NEW p \in Piece, NEW a \in Nat, NEW d \in Text,
           Holds(s, a, p.raw), NEW f, Rounds(s, f), Reaches(f, a, d),
           p \in Stray => NoDigitBehind(s, a + Len(p.raw))
    PROVE  Reaches(f, a + Len(p.raw), d \o p.text)
  <1>0. PICK m \in Nat : m <= a /\ f[m] = [src |-> a + 1, dst |-> d]
    BY DEF Reaches
  <1>h. /\ a + Len(p.raw) <= Len(s)
        /\ \A j \in 1..Len(p.raw) : s[a + j] = p.raw[j]
    BY DEF Holds
  <1>1. Len(s) \in Nat /\ \A n \in 1..Len(s) : f[n] = Round(s, f[n - 1])
    BY LenProperties DEF Text, Rounds
  <1>2. ASSUME NEW c \in 1..255, NEW e \in 0..255,
               p = [raw |-> <<c>>, text |-> <<e>>], c # PERCENT, PlainByte(c) = e
        PROVE  Reaches(f, a + Len(p.raw), d \o p.text)
    <2>1. Len(p.raw) = 1 /\ p.raw[1] = c /\ p.text = <<e>>
      BY <1>2
    <2>2. a + 1 \in 1..Len(s) /\ s[a + 1] = c /\ m + 1 \in 1..Len(s)
          /\ a + 1 \in Nat /\ a + 1 <= Len(s) /\ m + 1 <= a + 1 /\ m + 1 - 1 = m
      BY <1>0, <1>1, <1>h, <2>1
    <2>3. ~ IsEscape(s, a + 1)
      BY <1>2, <2>2, NotAnEscape
    <2>4. Round(s, [src |-> a + 1, dst |-> d])
             = [src |-> a + 1 + 1, dst |-> Append(d, PlainByte(s[a + 1]))]
      BY <1>1, <2>2, <2>3, RoundPlain
    <2>5. f[m + 1] = [src |-> a + 1 + 1, dst |-> Append(d, e)]
      BY <1>0, <1>1, <1>2, <2>2, <2>4
    <2>6. Append(d, e) = d \o p.text
      BY <2>1, AppendIsConcat DEF Text
    <2> QED BY <2>1, <2>2, <2>5, <2>6 DEF Reaches
  <1>3. ASSUME NEW h \in HexDigit, NEW l \in HexDigit,
               p = [raw |-> <<PERCENT, h, l>>, text |-> <<16 * Digit(h) + Digit(l)>>]
        PROVE  Reaches(f, a + Len(p.raw), d \o p.text)
    <2> DEFINE e == 16 * Digit(h) + Digit(l)
    <2>1. /\ Len(p.raw) = 3 /\ p.raw[1] = PERCENT /\ p.raw[2] = h /\ p.raw[3] = l
          /\ p.text = <<e>>
      BY <1>3
    <2>2. /\ s[a + 1] = PERCENT /\ s[a + 1 + 1] = h /\ s[a + 1 + 2] = l
          /\ a + 1 + 2 <= Len(s) /\ m + 1 \in 1..Len(s)
          /\ m + 1 <= a + 3 /\ m + 1 - 1 = m /\ a + 1 + 3 = a + 3 + 1 /\ a + 1 \in Nat
      BY <1>0, <1>1, <1>h, <2>1
    <2>3. e \in 0..255
      <3>1. Digit(h) \in 0..15 /\ Digit(l) \in 0..15
        BY DigitRange
      <3>2. \A x, y \in 0..15 : 16 * x + y \in 0..255
        OBVIOUS
      <3> QED BY <3>1, <3>2
    <2>4. Round(s, [src |-> a + 1, dst |-> d])
             = [src |-> a + 1 + 3,
                dst |-> Append(d, 16 * Digit(s[a + 1 + 1]) + Digit(s[a + 1 + 2]))]
      BY <1>1, <2>2, RoundEscape
    <2>5. f[m + 1] = [src |-> a + 3 + 1, dst |-> Append(d, e)]
      <3>1. f[m + 1] = Round(s, f[m])
        BY <1>1, <2>2
      <3>2. Append(d, 16 * Digit(s[a + 1 + 1]) + Digit(s[a + 1 + 2])) = Append(d, e)
        BY <2>2
      <3> QED BY <1>0, <2>2, <2>4, <3>1, <3>2
    <2> HIDE DEF e
    <2>6. Append(d, e) = d \o p.text
      BY <2>1, <2>3, AppendIsConcat DEF Text
    <2> QED BY <2>1, <2>2, <2>5, <2>6 DEF Reaches
  <1>4. ASSUME p \in Stray, p = [raw |-> <<PERCENT>>, text |-> <<PERCENT>>]
        PROVE  Reaches(f, a + Len(p.raw), d \o p.text)
    <2>1. Len(p.raw) = 1 /\ p.raw[1] = PERCENT /\ p.text = <<PERCENT>>
      BY <1>4
    <2>2. a + 1 \in 1..Len(s) /\ s[a + 1] = PERCENT /\ m + 1 \in 1..Len(s)
          /\ a + 1 \in Nat /\ a + 1 <= Len(s) /\ m + 1 <= a + 1 /\ m + 1 - 1 = m
      BY <1>0, <1>1, <1>h, <2>1
    <2> DEFINE b == a + 1
    <2>a. NoDigitBehind(s, b)
      BY <1>4, <2>1
    <2>3. ~ IsEscape(s, b)
      <3>1. b = Len(s) => b + 2 > Len(s)
        BY <1>1
      <3> HIDE DEF b
      <3>2. b + 2 > Len(s) \/ s[b + 1] \notin HexDigit
        BY <2>a, <3>1 DEF NoDigitBehind
      <3>3. b \in 1..Len(s)
        BY <2>2 DEF b
      <3> QED BY <3>2, <3>3, NotAnEscape
    <2>4. Round(s, [src |-> a + 1, dst |-> d])
             = [src |-> a + 1 + 1, dst |-> Append(d, PlainByte(s[a + 1]))]
      BY <1>1, <2>2, <2>3, RoundPlain
    <2>5. PlainByte(PERCENT) = PERCENT /\ PERCENT \in 0..255
      BY DEF PlainByte, PERCENT, PLUS
    <2>6. f[m + 1] = [src |-> a + 1 + 1, dst |-> Append(d, PERCENT)]
      BY <1>0, <1>1, <2>2, <2>4, <2>5
    <2>7. Append(d, PERCENT) = d \o p.text
      BY <2>1, <2>5, AppendIsConcat DEF Text
    <2>8. m + 1 \in Nat /\ m + 1 <= a + Len(p.raw)
      BY <2>1, <2>2
    <2>9. f[m + 1] = [src |-> a + Len(p.raw) + 1, dst |-> d \o p.text]
      BY <2>1, <2>6, <2>7
    <2> QED BY <2>8, <2>9 DEF Reaches
  <1>5. ASSUME NEW c \in HexDigit, p \in Stray,
               p = [raw |-> <<PERCENT, c>>, text |-> <<PERCENT, c>>]
        PROVE  Reaches(f, a + Len(p.raw), d \o p.text)
    <2>1. /\ Len(p.raw) = 2 /\ p.raw[1] = PERCENT /\ p.raw[2] = c
          /\ p.text = <<PERCENT, c>>
      BY <1>5
    <2>2. /\ s[a + 1] = PERCENT /\ s[a + 1 + 1] = c
          /\ a + 1 \in 1..Len(s) /\ a + 1 + 1 \in 1..Len(s)
          /\ a + 1 \in Nat /\ a + 1 + 1 \in Nat
          /\ a + 1 <= Len(s) /\ a + 1 + 1 <= Len(s)
          /\ m + 1 \in 1..Len(s) /\ m + 2 \in 1..Len(s)
          /\ m + 2 <= a + 2 /\ m + 1 - 1 = m /\ m + 2 - 1 = m + 1
          /\ a + 1 + 1 + 1 = a + 2 + 1
      BY <1>0, <1>1, <1>h, <2>1
    <2> DEFINE b == a + 2
    <2>a. NoDigitBehind(s, b)
      BY <1>5, <2>1
    <2>b. a + 1 + 2 > Len(s) \/ s[a + 1 + 2] \notin HexDigit
      <3>1. a + 1 + 2 = b + 1
        OBVIOUS
      <3>2. CASE b = Len(s)
        BY <3>1, <3>2
      <3>3. CASE s[b + 1] \notin HexDigit
        BY <3>1, <3>3
      <3> HIDE DEF b
      <3> QED BY <2>a, <3>2, <3>3 DEF NoDigitBehind
    <2>c. c # PERCENT /\ c # PLUS /\ c \in 0..255 /\ PlainByte(c) = c
      BY DEF HexDigit, PERCENT, PLUS, PlainByte
    <2>3. ~ IsEscape(s, a + 1) /\ ~ IsEscape(s, a + 1 + 1)
      <3>1. ~ IsEscape(s, a + 1)
        BY <2>2, <2>b, NotAnEscape
      <3>2. ~ IsEscape(s, a + 1 + 1)
        BY <2>2, <2>c, NotAnEscape
      <3> QED BY <3>1, <3>2
    <2>4. Round(s, [src |-> a + 1, dst |-> d])
             = [src |-> a + 1 + 1, dst |-> Append(d, PlainByte(s[a + 1]))]
      BY <1>1, <2>2, <2>3, RoundPlain
    <2>5. PlainByte(PERCENT) = PERCENT /\ PERCENT \in 0..255
      BY DEF PlainByte, PERCENT, PLUS
    <2> DEFINE d1 == Append(d, PERCENT)
    <2>6. f[m + 1] = [src |-> a + 1 + 1, dst |-> d1]
      BY <1>0, <1>1, <2>2, <2>4, <2>5
    <2>7. d1 \in Text
      BY <2>5, AppendProperties DEF Text
    <2> HIDE DEF d1
    <2>8. Round(s, [src |-> a + 1 + 1, dst |-> d1])
             = [src |-> a + 1 + 1 + 1, dst |-> Append(d1, PlainByte(s[a + 1 + 1]))]
      BY <1>1, <2>2, <2>3, RoundPlain
    <2>9. f[m + 2] = [src |-> a + 2 + 1, dst |-> Append(d1, c)]
      <3>1. f[m + 2] = Round(s, f[m + 1])
        BY <1>1, <2>2
      <3>2. PlainByte(s[a + 1 + 1]) = c
        BY <2>2, <2>c
      <3>3. a + 1 + 1 + 1 = a + 2 + 1
        BY <2>2
      <3> QED BY <2>6, <2>8, <3>1, <3>2, <3>3
    <2>10. Append(d1, c) = d \o p.text
      <3>1. Append(d1, c) = d1 \o <<c>> /\ d1 = d \o <<PERCENT>>
        BY <2>5, <2>7, <2>c, AppendIsConcat DEF Text, d1
      <3>2. <<PERCENT>> \in Text /\ <<c>> \in Text
        BY <2>5, <2>c DEF Text
      <3>3. Append(d1, c) = d \o (<<PERCENT>> \o <<c>>)
        BY <3>1, <3>2, ConcatAssociative DEF Text
      <3>4. <<PERCENT>> \o <<c>> = <<PERCENT, c>>
        BY <2>5, <2>c, TwoBytes
      <3> QED BY <2>1, <3>3, <3>4
    <2>11. m + 2 \in Nat /\ m + 2 <= a + Len(p.raw)
      BY <2>1, <2>2
    <2>12. f[m + 2] = [src |-> a + Len(p.raw) + 1, dst |-> d \o p.text]
      BY <2>1, <2>9, <2>10
    <2> QED BY <2>11, <2>12 DEF Reaches
  <1> QED BY <1>2, <1>3, <1>4, <1>5, PieceKinds

(* Decoding what is written gives what is meant.                           *)
LEMMA DecodeIs ==
    ASSUME NEW spelling \in Seq(Piece), Spelled(spelling)
    PROVE  UrlDecode(Raw(spelling)) = Meaning(spelling)
  <1> DEFINE N == Len(spelling)
             s == Raw(spelling)
  <1>1. PICK r : Raws(spelling, r) /\ Raw(spelling) = r[Len(spelling)]
    BY RawIs
  <1>2. PICK t : Meanings(spelling, t) /\ Meaning(spelling) = CString(t[Len(spelling)])
    BY MeaningIs
  <1>3. N \in Nat /\ \A n \in 1..N : spelling[n] \in Piece
    BY LenProperties, ElementOfSeq
  <1>a. \A n \in 1..N - 1 :
           spelling[n] \in Stray => spelling[n + 1].raw[1] \notin HexDigit
    BY DEF Spelled
  <1>4. /\ r \in [0..N -> RawText] /\ r[0] = <<>>
        /\ \A n \in 1..N : r[n] = r[n - 1] \o spelling[n].raw
    BY <1>1 DEF Raws
  <1>5. /\ t \in [0..N -> Text] /\ t[0] = <<>>
        /\ \A n \in 1..N : t[n] = t[n - 1] \o spelling[n].text
    BY <1>2 DEF Meanings
  <1>6. s = r[N] /\ N \in 0..N /\ s \in RawText /\ s \in Text
    BY <1>1, <1>3, <1>4, RawTextIsText
  <1>7. PICK f : Rounds(s, f) /\ UrlDecode(s) = CString(f[Len(s)].dst)
    BY <1>6, UrlDecodeIs
  <1> DEFINE part == [n \in 1..N |-> spelling[n].raw]
  <1>8. \A n \in 1..N : part[n] = spelling[n].raw /\ part[n] \in RawText /\ part[n] # <<>>
    BY <1>3, PieceIs
  <1> HIDE DEF N, s, part
  <1>9. \A n \in 1..N : part[n] \in RawText /\ r[n] = r[n - 1] \o part[n]
    BY <1>4, <1>8
  <1>10. \A n \in 1..N : /\ Len(r[n]) = Len(r[n - 1]) + Len(part[n])
                         /\ Holds(s, Len(r[n - 1]), part[n])
    <2> DEFINE B == 1..255 \ {AMP}
    <2>1. RawText = Seq(B)
      BY DEF RawText
    <2> HIDE DEF B
    <2>2. Grown(B, N, r, part)
      BY <1>3, <1>4, <1>9, <2>1 DEF Grown
    <2>3. \A n \in 1..N : /\ Len(r[n]) = Len(r[n - 1]) + Len(part[n])
                           /\ Holds(r[N], Len(r[n - 1]), part[n])
      BY <2>2, Grows
    <2> QED BY <1>6, <2>3
  <1>11. \A n \in 0..N : Len(r[n]) \in Nat /\ t[n] \in Text
    BY <1>4, <1>5, LenProperties DEF RawText
  <1> DEFINE good == {n \in 0..N : Reaches(f, Len(r[n]), t[n])}
  <1>12. Reaches(f, Len(r[0]), t[0])
    <2>1. Len(r[0]) = 0
      BY <1>4
    <2>2. f[0] = [src |-> 1, dst |-> <<>>]
      BY <1>7 DEF Rounds
    <2> QED BY <1>5, <2>1, <2>2 DEF Reaches
  <1>13. ASSUME NEW n \in 1..N, Reaches(f, Len(r[n - 1]), t[n - 1])
         PROVE  Reaches(f, Len(r[n]), t[n])
    <2> DEFINE p == spelling[n]
               a == Len(r[n - 1])
               d == t[n - 1]
    <2>1. n - 1 \in 0..N /\ p \in Piece /\ p.raw = part[n]
      BY <1>3, <1>8
    <2>2. a \in Nat /\ d \in Text
      BY <1>11, <2>1
    <2>3. Len(r[n]) = a + Len(p.raw) /\ Holds(s, a, p.raw)
      BY <1>10, <2>1
    <2>4. t[n] = d \o p.text
      BY <1>5
    <2> HIDE DEF p, a, d
    <2>5. Reaches(f, a, d)
      BY <1>13 DEF a, d
    <2>6. p \in Stray => NoDigitBehind(s, Len(r[n]))
      <3>1. CASE n = N
        BY <1>6, <3>1 DEF NoDigitBehind
      <3>2. CASE n # N /\ p \in Stray
        <4> DEFINE k == n + 1
        <4>1. n \in 1..N - 1 /\ k \in 1..N /\ k - 1 = n
          BY <1>3, <3>2
        <4>2. spelling[k].raw[1] \notin HexDigit
          BY <1>a, <3>2, <4>1 DEF p
        <4> HIDE DEF k
        <4>3. part[k] = spelling[k].raw /\ 1 \in 1..Len(part[k])
              /\ Len(part[k]) \in Nat
          <5>1. part[k] = spelling[k].raw /\ part[k] \in RawText /\ part[k] # <<>>
            BY <1>8, <4>1
          <5>2. Len(part[k]) \in Nat /\ Len(part[k]) # 0
            BY <5>1, LenProperties, EmptySeq DEF RawText
          <5> QED BY <5>1, <5>2
        <4>4. Holds(s, Len(r[n]), part[k])
          BY <1>10, <4>1
        <4>5. /\ Len(r[n]) + Len(part[k]) <= Len(s)
              /\ s[Len(r[n]) + 1] = part[k][1]
          BY <4>3, <4>4 DEF Holds
        <4>6. Len(r[n]) + 1 <= Len(s)
          <5>1. Len(r[n]) \in Nat /\ Len(s) \in Nat
            BY <1>3, <1>6, <1>11, LenProperties DEF Text
          <5> DEFINE x == Len(r[n])
                     y == Len(part[k])
                     z == Len(s)
          <5>2. x \in Nat /\ y \in Nat /\ z \in Nat /\ 1 <= y /\ x + y <= z
            <6>1. x + y <= z
              BY <4>5
            <6>2. y \in Nat /\ 1 \in 1..y
              BY <4>3
            <6>3. x \in Nat /\ z \in Nat
              BY <5>1
            <6> HIDE DEF x, y, z
            <6> QED BY <6>1, <6>2, <6>3
          <5> HIDE DEF x, y, z
          <5>3. x + 1 <= z
            BY <5>2
          <5> QED BY <5>3 DEF x, z
        <4> QED BY <4>2, <4>3, <4>5, <4>6 DEF NoDigitBehind
      <3> QED BY <3>1, <3>2
    <2>7. Reaches(f, a + Len(p.raw), d \o p.text)
      BY <1>6, <1>7, <2>1, <2>2, <2>3, <2>5, <2>6, RoundsOverPiece
    <2> QED BY <2>3, <2>4, <2>7
  <1>14. Reaches(f, Len(r[N]), t[N])
    <2>1. good \in SUBSET (0..N) /\ 0 \in good
      BY <1>3, <1>12
    <2>2. \A n \in 1..N : n - 1 \in good => n \in good
      BY <1>3, <1>13
    <2>3. good = 0..N
      <3> HIDE DEF good
      <3> QED BY <1>3, <2>1, <2>2, Induction
    <2> QED BY <1>6, <2>3
  <1>15. PICK m \in Nat : m <= Len(s) /\ f[m] = [src |-> Len(s) + 1, dst |-> t[N]]
    BY <1>6, <1>14 DEF Reaches
  <1> DEFINE L == Len(s)
             stays == {n \in 0..L : n >= m => f[n] = f[m]}
  <1>16. L \in Nat
    BY <1>6, LenProperties DEF Text
  <1> HIDE DEF L
  <1>17. \A n \in 1..L : n - 1 \in stays => n \in stays
    <2>1. ASSUME NEW n \in 1..L, n - 1 \in stays, n >= m PROVE f[n] = f[m]
      <3>1. CASE n = m
        BY <3>1
      <3>2. CASE n # m
        <4>1. n - 1 >= m
          BY <1>16, <2>1, <3>2
        <4>2. f[n - 1] = f[m]
          BY <2>1, <4>1
        <4>3. f[n] = Round(s, f[m])
          BY <1>7, <4>2 DEF Rounds, L
        <4>4. f[m].src > Len(s)
          BY <1>15, <1>16 DEF L
        <4> QED BY <4>3, <4>4 DEF Round
      <3> QED BY <3>1, <3>2
    <2> QED BY <1>16, <2>1
  <1>18. stays \in SUBSET (0..L) /\ 0 \in stays
    BY <1>16
  <1>19. stays = 0..L
    <2> HIDE DEF stays
    <2> QED BY <1>16, <1>17, <1>18, Induction
  <1>20. f[L] = f[m]
    BY <1>15, <1>16, <1>19 DEF L
  <1>21. f[L].dst = t[N]
    BY <1>15, <1>20
  <1> QED BY <1>2, <1>7, <1>21 DEF L, N, s

---------------------------------------------------------------------------
(* An item that a client writes.                                           *)

LEMMA RawLen ==
    ASSUME NEW spelling \in Seq(Piece)
    PROVE  Raw(spelling) = <<>> <=> spelling = <<>>
  <1> DEFINE N == Len(spelling)
  <1>1. PICK r : Raws(spelling, r) /\ Raw(spelling) = r[N]
    BY RawIs
  <1>2. N \in Nat /\ \A n \in 1..N : spelling[n] \in Piece
    BY LenProperties, ElementOfSeq
  <1>3. /\ r \in [0..N -> RawText] /\ r[0] = <<>>
        /\ \A n \in 1..N : r[n] = r[n - 1] \o spelling[n].raw
    BY <1>1 DEF Raws
  <1>4. CASE spelling = <<>>
    <2>1. N = 0
      BY <1>4
    <2> QED BY <1>1, <1>3, <1>4, <2>1
  <1>5. CASE spelling # <<>>
    <2>1. N \in 1..N /\ N - 1 \in 0..N
      BY <1>2, <1>5, EmptySeq
    <2>2. /\ r[N - 1] \in RawText /\ spelling[N].raw \in RawText
          /\ spelling[N].raw # <<>> /\ r[N] = r[N - 1] \o spelling[N].raw
      BY <1>2, <1>3, <2>1, PieceIs
    <2>3. r[N] # <<>>
      BY <2>2, ConcatEqualIffEmpty DEF RawText
    <2> QED BY <1>1, <1>5, <2>3
  <1> QED BY <1>4, <1>5

(* Where the first equals sign of a text is.                               *)
LEMMA PositionFirst ==
    ASSUME NEW S, NEW s \in Seq(S), NEW c, NEW p \in 1..Len(s), s[p] = c,
           \A i \in 1..p - 1 : s[i] # c
    PROVE  Position(s, c) = p
  <1>1. Len(s) \in Nat
    BY LenProperties
  <1>2. /\ Position(s, c) \in 1..Len(s) /\ s[Position(s, c)] = c
        /\ \A n \in 1..Len(s) : n < Position(s, c) => s[n] # c
    BY PositionIs
  <1> DEFINE q == Position(s, c)
  <1> HIDE DEF q
  <1>3. ~ (p < q)
    BY <1>2 DEF q
  <1>4. ~ (q < p)
    <2>1. q < p => q \in 1..p - 1
      BY <1>1, <1>2 DEF q
    <2> QED BY <1>2, <2>1 DEF q
  <1>5. q = p
    BY <1>1, <1>2, <1>3, <1>4 DEF q
  <1> QED BY <1>5 DEF q

(* It counts if it has a value, and is what it means.                      *)
HasVal(item) == item.value \notin {NULL, <<>>}

LEMMA ParseItemIs ==
    ASSUME NEW t \in TableText, NEW item \in Item
    PROVE  ParseItem(t, TextOf(item)) =
              IF HasVal(item) THEN T!Merge(t, Meaning(item.name), Meaning(item.value))
              ELSE t
  <1> DEFINE s == TextOf(item)
             name == Raw(item.name)
             value == Raw(item.value)
             found == Position(s, EQUALS)
  <1>1. /\ item.name \in Seq(Piece) /\ Spelled(item.name)
        /\ name \in Text /\ Position(name, EQUALS) = 0 /\ Len(name) \in Nat
    BY SpellingTyped, RawTextIsText, LenProperties DEF Item, Text
  <1>2. ParseItem(t, s) = IF found \in {0, Len(s)} THEN t
                          ELSE T!Merge(t, UrlDecode(SubSeq(s, 1, found - 1)),
                                       UrlDecode(SubSeq(s, found + 1, Len(s))))
    BY DEF ParseItem
  <1>3. CASE item.value = NULL
    <2>1. s = name
      BY <1>3 DEF TextOf
    <2> QED BY <1>1, <1>2, <1>3, <2>1 DEF HasVal
  <1>4. CASE item.value # NULL
    <2>1. /\ item.value \in Seq(Piece) /\ Spelled(item.value)
          /\ value \in Text /\ Len(value) \in Nat
      BY <1>4, SpellingTyped, RawTextIsText, LenProperties DEF Item, Text
    <2>2. value = <<>> <=> item.value = <<>>
      BY <2>1, RawLen
    <2>3. UrlDecode(name) = Meaning(item.name) /\ UrlDecode(value) = Meaning(item.value)
      BY <1>1, <2>1, DecodeIs
    <2>4. s = name \o <<EQUALS>> \o value
      BY <1>4 DEF TextOf
    <2> DEFINE n == Len(name)
               v == Len(value)
               before == name \o <<EQUALS>>
    <2>5. <<EQUALS>> \in Text /\ Len(<<EQUALS>>) = 1
      BY DEF EQUALS, Text
    <2> HIDE DEF name, value, s, found
    <2>6. /\ before \in Text /\ Len(before) = n + 1
          /\ \A i \in 1..n + 1 : before[i] = IF i <= n THEN name[i]
                                             ELSE <<EQUALS>>[i - n]
      BY <1>1, <2>5, ConcatProperties DEF Text
    <2> HIDE DEF before
    <2>7. /\ before[n + 1] = EQUALS /\ \A i \in 1..n : before[i] = name[i]
      <3>1. n + 1 \in 1..n + 1 /\ ~ (n + 1 <= n) /\ n + 1 - n = 1
        BY <1>1
      <3>2. before[n + 1] = <<EQUALS>>[1]
        BY <2>6, <3>1
      <3>3. \A i \in 1..n : i \in 1..n + 1 /\ i <= n
        BY <1>1
      <3> QED BY <2>6, <3>2, <3>3
    <2>8. /\ s \in Text /\ Len(s) = n + 1 + v
          /\ \A i \in 1..n + 1 + v : s[i] = IF i <= n + 1 THEN before[i]
                                            ELSE value[i - (n + 1)]
      BY <2>1, <2>4, <2>6, ConcatProperties DEF Text, before
    <2>9. /\ s[n + 1] = EQUALS /\ \A i \in 1..n : s[i] = name[i]
          /\ \A i \in 1..v : s[n + 1 + i] = value[i]
      <3>1. n + 1 \in 1..n + 1 + v /\ n + 1 <= n + 1
        BY <1>1, <2>1
      <3>2. \A i \in 1..n : i \in 1..n + 1 + v /\ i <= n + 1
        BY <1>1, <2>1
      <3>3. \A i \in 1..v : n + 1 + i \in 1..n + 1 + v /\ ~ (n + 1 + i <= n + 1)
                            /\ n + 1 + i - (n + 1) = i
        BY <1>1, <2>1
      <3>4. s[n + 1] = EQUALS
        BY <2>7, <2>8, <3>1
      <3>5. \A i \in 1..n : s[i] = name[i]
        BY <2>7, <2>8, <3>2
      <3>6. \A i \in 1..v : s[n + 1 + i] = value[i]
        BY <2>8, <3>3
      <3> QED BY <3>4, <3>5, <3>6
    <2>10. \A i \in 1..n : name[i] # EQUALS
      <3>1. \A i \in 1..Len(name) : name[i] # EQUALS
        BY <1>1, PositionIs DEF Text
      <3> QED BY <3>1
    <2>11. found = n + 1
      <3> DEFINE k == n + 1
      <3>1. k \in 1..Len(s) /\ k - 1 = n
        BY <1>1, <2>1, <2>8
      <3>2. s[k] = EQUALS /\ \A i \in 1..k - 1 : s[i] # EQUALS
        BY <2>9, <2>10, <3>1
      <3> HIDE DEF k
      <3>3. found = k
        BY <2>8, <3>1, <3>2, PositionFirst DEF Text, found
      <3> QED BY <3>3 DEF k
    <2>12. SubSeq(s, 1, n) = name
      <3> DEFINE k == 1
                 u == SubSeq(s, k, n)
      <3>1. k \in 1..Len(s) + 1 /\ n \in k - 1..Len(s)
        BY <1>1, <2>1, <2>8
      <3> HIDE DEF k
      <3>2. /\ u \in Text /\ Len(u) = n - k + 1
            /\ \A i \in 1..n - k + 1 : u[i] = s[k + i - 1]
        BY <2>8, <3>1, Part DEF Text
      <3> HIDE DEF u
      <3>3. Len(u) = n /\ \A i \in 1..n : u[i] = name[i]
        <4>1. n - k + 1 = n /\ \A i \in 1..n : k + i - 1 = i
          BY <1>1 DEF k
        <4> QED BY <2>9, <3>2, <4>1
      <3>4. u = name
        BY <1>1, <3>2, <3>3, SeqEqual DEF Text
      <3> QED BY <3>4 DEF u, k
    <2>13. SubSeq(s, n + 1 + 1, Len(s)) = value
      <3>1. n + 1 + 1 \in 1..Len(s) + 1 /\ Len(s) \in n + 1 + 1 - 1..Len(s)
        BY <1>1, <2>1, <2>8
      <3> DEFINE k == n + 1 + 1
                 u == SubSeq(s, k, Len(s))
      <3>0. k \in 1..Len(s) + 1 /\ Len(s) \in k - 1..Len(s)
        BY <3>1
      <3> HIDE DEF k
      <3>2. /\ u \in Text /\ Len(u) = Len(s) - k + 1
            /\ \A i \in 1..Len(s) - k + 1 : u[i] = s[k + i - 1]
        BY <2>8, <3>0, Part DEF Text
      <3> HIDE DEF u
      <3>3. Len(u) = v
        BY <1>1, <2>1, <2>8, <3>2 DEF k
      <3>4. \A i \in 1..v : u[i] = s[n + 1 + i]
        BY <1>1, <2>1, <2>8, <3>2 DEF k
      <3>5. \A i \in 1..v : u[i] = value[i]
        BY <2>9, <3>4
      <3>6. u = value
        BY <2>1, <3>2, <3>3, <3>5, SeqEqual DEF Text
      <3> QED BY <3>6 DEF u, k
    <2>14. found = 0 <=> FALSE
      BY <1>1, <2>11
    <2>15. found = Len(s) <=> item.value = <<>>
      <3>1. value = <<>> <=> v = 0
        BY <2>1, EmptySeq DEF Text
      <3> QED BY <1>1, <2>1, <2>2, <2>8, <2>11, <3>1
    <2>16. found - 1 = n
      BY <1>1, <2>11
    <2>17. CASE item.value = <<>>
      BY <1>2, <2>15, <2>17 DEF HasVal, s
    <2>18. CASE item.value # <<>>
      BY <1>2, <1>4, <2>3, <2>11, <2>12, <2>13, <2>14, <2>15, <2>16, <2>18
         DEF HasVal, s
    <2> QED BY <2>17, <2>18
  <1> QED BY <1>3, <1>4

---------------------------------------------------------------------------
(* The items of what a client sends.                                       *)

LEMMA AppendEnds ==
    ASSUME NEW S, NEW s \in Seq(S), NEW e \in S
    PROVE  Front(Append(s, e)) = s /\ Last(Append(s, e)) = e
  <1> DEFINE u == Append(s, e)
             n == Len(s)
  <1>1. /\ u \in Seq(S) /\ u # <<>> /\ Len(u) = n + 1 /\ n \in Nat
        /\ \A i \in 1..n : u[i] = s[i]
        /\ u[n + 1] = e
    BY AppendProperties, LenProperties
  <1> HIDE DEF u
  <1>2. /\ Front(u) \in Seq(S) /\ Len(Front(u)) = Len(u) - 1
        /\ \A i \in 1..Len(u) - 1 : Front(u)[i] = u[i]
        /\ Last(u) = u[Len(u)]
    BY <1>1, FrontLast
  <1>3. Len(u) - 1 = n
    BY <1>1
  <1>4. Len(Front(u)) = n /\ \A i \in 1..n : Front(u)[i] = s[i]
    BY <1>1, <1>2, <1>3
  <1>5. Front(u) = s
    BY <1>2, <1>4, SeqEqual
  <1> QED BY <1>1, <1>2, <1>5 DEF u

LEMMA PrefixGrows ==
    ASSUME NEW S, NEW s \in Seq(S), NEW n \in 1..Len(s)
    PROVE  /\ SubSeq(s, 1, n - 1) \in Seq(S)
           /\ SubSeq(s, 1, n) = Append(SubSeq(s, 1, n - 1), s[n])
  <1>1. Len(s) \in Nat /\ s[n] \in S
    BY LenProperties, ElementOfSeq
  <1>2. /\ 1 \in 1..Len(s) /\ n \in 1..Len(s)
        /\ 1 \in 1..Len(s) + 1 /\ n - 1 \in 1 - 1..Len(s)
    BY <1>1
  <1>3. SubSeq(s, 1, n) = SubSeq(s, 1, n - 1) \o <<s[n]>>
    BY <1>2, SubSeqRecursiveSecond
  <1>4. SubSeq(s, 1, n - 1) \in Seq(S)
    BY <1>2, Part
  <1> QED BY <1>1, <1>3, <1>4, AppendIsConcat

(* A text without a delimiter goes behind the last one as a whole.         *)
LEMMA CutsOver ==
    ASSUME NEW s \in Text, NEW f, Cuts(s, AMP, f), NEW a \in Nat,
           NEW text \in RawText, Holds(s, a, text),
           NEW before \in Seq(Text), f[a] = Append(before, <<>>)
    PROVE  f[a + Len(text)] = Append(before, text)
  <1> DEFINE N == Len(text)
             good == {j \in 0..N : f[a + j] = Append(before, SubSeq(text, 1, j))}
  <1>1. N \in Nat /\ text \in Text /\ \A j \in 1..N : text[j] \in 1..255 \ {AMP}
    BY RawTextIsText, LenProperties, ElementOfSeq DEF RawText
  <1>2. Len(s) \in Nat /\ a + N <= Len(s) /\ \A j \in 1..N : s[a + j] = text[j]
    BY LenProperties DEF Holds, Text
  <1>3. 0 \in good
    <2>1. SubSeq(text, 1, 0) = <<>>
      BY SubSeqEmpty
    <2>2. a + 0 = a /\ 0 \in 0..N
      BY <1>1
    <2>3. f[a + 0] = Append(before, SubSeq(text, 1, 0))
      BY <2>1, <2>2
    <2> HIDE DEF N
    <2> QED BY <2>2, <2>3
  <1> HIDE DEF N
  <1>4. ASSUME NEW j \in 1..N, j - 1 \in good PROVE j \in good
    <2> DEFINE x == SubSeq(text, 1, j - 1)
               c == text[j]
    <2>1. f[a + (j - 1)] = Append(before, x)
      BY <1>4
    <2>2. x \in Text /\ SubSeq(text, 1, j) = Append(x, c)
      BY <1>1, PrefixGrows DEF Text, N
    <2>3. a + j \in 1..Len(s) /\ a + j - 1 = a + (j - 1) /\ s[a + j] = c
      BY <1>1, <1>2
    <2>4. c # AMP
      BY <1>1
    <2> HIDE DEF x, c
    <2>5. f[a + j] = Append(Front(f[a + j - 1]), Append(Last(f[a + j - 1]), c))
      <3>1. \A n \in 1..Len(s) :
               s[n] # AMP => f[n] = Append(Front(f[n - 1]), Append(Last(f[n - 1]), s[n]))
        BY DEF Cuts
      <3> DEFINE i == a + j
      <3> HIDE DEF i
      <3>2. i \in 1..Len(s) /\ s[i] = c
        BY <2>3 DEF i
      <3>3. f[i] = Append(Front(f[i - 1]), Append(Last(f[i - 1]), c))
        BY <2>4, <3>1, <3>2
      <3> QED BY <3>3 DEF i
    <2>6. Front(Append(before, x)) = before /\ Last(Append(before, x)) = x
      BY <2>2, AppendEnds
    <2>7. f[a + j] = Append(before, Append(x, c))
      BY <2>1, <2>3, <2>5, <2>6
    <2>8. j \in 0..N
      BY <1>1
    <2> QED BY <2>2, <2>7, <2>8
  <1>5. good = 0..N
    <2>1. good \in SUBSET (0..N)
      OBVIOUS
    <2> HIDE DEF good
    <2> QED BY <1>1, <1>3, <1>4, <2>1, Induction
  <1>6. f[a + N] = Append(before, SubSeq(text, 1, N))
    <2>1. N \in 0..N
      BY <1>1
    <2>2. N \in good
      BY <1>5, <2>1
    <2> QED BY <2>2
  <1>7. SubSeq(text, 1, N) = text
    BY <1>1, SubSeqFull DEF Text, N
  <1> QED BY <1>6, <1>7 DEF N

Texts(items) == [n \in DOMAIN items |-> TextOf(items[n])]

LEMMA TextsTyped ==
    ASSUME NEW items \in Seq(Item)
    PROVE  /\ Texts(items) \in Seq(Text) /\ Len(Texts(items)) = Len(items)
           /\ Len(items) \in Nat
           /\ \A n \in 1..Len(items) : /\ items[n] \in Item
                                       /\ Texts(items)[n] = TextOf(items[n])
                                       /\ TextOf(items[n]) \in RawText
  <1>1. Len(items) \in Nat /\ DOMAIN items = 1..Len(items)
    BY LenProperties
  <1>2. \A n \in 1..Len(items) : items[n] \in Item /\ TextOf(items[n]) \in RawText
    BY ElementOfSeq, TextOfTyped
  <1>3. Texts(items) = [n \in 1..Len(items) |-> TextOf(items[n])]
    BY <1>1 DEF Texts
  <1>4. \A n \in 1..Len(items) : TextOf(items[n]) \in Text
    BY <1>2, RawTextIsText
  <1>5. Texts(items) \in Seq(Text) /\ Len(Texts(items)) = Len(items)
    BY <1>1, <1>3, <1>4, SeqDef
  <1> QED BY <1>1, <1>2, <1>3, <1>5

(* An ampersand in front of each item but the first.                       *)
Ahead(items) == [n \in 1..Len(items) |-> IF n = 1 THEN TextOf(items[n])
                                         ELSE <<AMP>> \o TextOf(items[n])]

LEMMA JoinedGrows ==
    ASSUME NEW items \in Seq(Item), NEW f, Joins(items, f)
    PROVE  Grown(1..255, Len(items), f, Ahead(items))
  <1> DEFINE N == Len(items)
  <1>1. N \in Nat /\ \A n \in 1..N : TextOf(items[n]) \in RawText
    BY TextsTyped
  <1>2. /\ f \in [0..N -> Bytes] /\ f[0] = <<>>
        /\ \A n \in 1..N : f[n] = IF n = 1 THEN TextOf(items[n])
                                  ELSE f[n - 1] \o <<AMP>> \o TextOf(items[n])
    BY DEF Joins
  <1>3. ASSUME NEW n \in 1..N
        PROVE  Ahead(items)[n] \in Bytes /\ f[n] = f[n - 1] \o Ahead(items)[n]
    <2> DEFINE x == TextOf(items[n])
    <2>1. x \in Bytes /\ <<AMP>> \in Bytes
      BY <1>1, BytesAreText DEF Bytes, AMP
    <2>2. n - 1 \in 0..N
      BY <1>1
    <2>3. f[n - 1] \in Bytes
      BY <1>2, <2>2
    <2>4. Ahead(items)[n] = IF n = 1 THEN x ELSE <<AMP>> \o x
      BY DEF Ahead
    <2> HIDE DEF x
    <2>5. CASE n = 1
      <3>1. f[n] = x /\ f[n - 1] = <<>>
        BY <1>2, <2>5 DEF x
      <3>2. <<>> \o x = x
        BY <2>1, ConcatEmptySeq DEF Bytes
      <3> QED BY <2>1, <2>4, <2>5, <3>1, <3>2
    <2>6. CASE n # 1
      <3>1. f[n] = f[n - 1] \o <<AMP>> \o x
        BY <1>2, <2>6 DEF x
      <3>2. (f[n - 1] \o <<AMP>>) \o x = f[n - 1] \o (<<AMP>> \o x)
        BY <2>1, <2>3, BytesInARow
      <3>3. <<AMP>> \o x \in Bytes
        BY <2>1, ConcatProperties DEF Bytes
      <3> QED BY <2>4, <2>6, <3>1, <3>2, <3>3
    <2> QED BY <2>5, <2>6
  <1> HIDE DEF N
  <1>4. f \in [0..N -> Seq(1..255)] /\ \A n \in 1..N : Ahead(items)[n] \in Seq(1..255)
    BY <1>2, <1>3 DEF Bytes
  <1> QED BY <1>1, <1>3, <1>4 DEF Grown, N

LEMMA BehindAmpersand ==
    ASSUME NEW s \in Text, NEW a \in Nat, NEW x \in RawText, Holds(s, a, <<AMP>> \o x)
    PROVE  /\ a + 1 \in 1..Len(s) /\ s[a + 1] = AMP
           /\ Holds(s, a + 1, x) /\ Len(<<AMP>> \o x) = 1 + Len(x)
  <1> DEFINE u == <<AMP>> \o x
             N == Len(x)
  <1>1. <<AMP>> \in Text /\ x \in Text /\ Len(<<AMP>>) = 1
    BY RawTextIsText DEF Text, AMP
  <1>2. /\ Len(u) = 1 + N
        /\ \A i \in 1..1 + N : u[i] = IF i <= 1 THEN <<AMP>>[i] ELSE x[i - 1]
    BY <1>1, ConcatProperties DEF Text
  <1>3. N \in Nat /\ Len(s) \in Nat
    BY <1>1, LenProperties DEF Text
  <1>4. a + Len(u) <= Len(s) /\ \A j \in 1..Len(u) : s[a + j] = u[j]
    BY DEF Holds
  <1> HIDE DEF u, N
  <1>5. u[1] = AMP
    <2>1. 1 \in 1..1 + N /\ 1 <= 1
      BY <1>3
    <2>2. u[1] = <<AMP>>[1]
      BY <1>2, <2>1
    <2> QED BY <2>2
  <1>6. ASSUME NEW j \in 1..N PROVE s[a + 1 + j] = x[j]
    <2>1. 1 + j \in 1..1 + N /\ ~ (1 + j <= 1) /\ 1 + j - 1 = j /\ a + (1 + j) = a + 1 + j
      BY <1>3
    <2>2. u[1 + j] = x[j]
      BY <1>2, <2>1
    <2>3. s[a + (1 + j)] = u[1 + j]
      BY <1>2, <1>4, <2>1
    <2> QED BY <2>1, <2>2, <2>3
  <1>7. a + 1 + N <= Len(s) /\ a + 1 \in 1..Len(s) /\ 1 \in 1..Len(u)
    BY <1>2, <1>3, <1>4
  <1>8. s[a + 1] = AMP
    BY <1>4, <1>5, <1>7
  <1> QED BY <1>2, <1>6, <1>7, <1>8 DEF Holds, u, N

LEMMA CutsOfItems ==
    ASSUME NEW items \in Seq(Item), items # <<>>, NEW f,
           Cuts(Joined(items), AMP, f)
    PROVE  f[Len(Joined(items))] = Texts(items)
  <1> DEFINE N == Len(items)
             s == Joined(items)
             T1 == Texts(items)
  <1>1. PICK g : Joins(items, g) /\ Joined(items) = g[Len(items)]
    BY JoinedIs
  <1>2. /\ N \in Nat \ {0} /\ T1 \in Seq(Text) /\ Len(T1) = N
        /\ \A n \in 1..N : T1[n] = TextOf(items[n]) /\ T1[n] \in RawText
    BY TextsTyped, EmptySeq
  <1>3. s \in Text /\ s = g[N]
    BY <1>1, ParsedTyped
  <1>4. \A n \in 1..N : /\ Len(g[n]) = Len(g[n - 1]) + Len(Ahead(items)[n])
                        /\ Holds(g[N], Len(g[n - 1]), Ahead(items)[n])
    BY <1>1, JoinedGrows, Grows
  <1>5. \A n \in 1..N : Ahead(items)[n] = IF n = 1 THEN T1[n] ELSE <<AMP>> \o T1[n]
    BY <1>2 DEF Ahead
  <1>6. g \in [0..N -> Bytes] /\ g[0] = <<>>
    BY <1>1 DEF Joins
  <1>7. \A n \in 0..N : Len(g[n]) \in Nat
    BY <1>6, LenProperties DEF Bytes
  <1> HIDE DEF N, s, T1
  <1>8. /\ Cuts(s, AMP, f) /\ f[0] = << <<>> >>
        /\ \A n \in 1..Len(s) : s[n] = AMP => f[n] = Append(f[n - 1], <<>>)
    BY DEF Cuts, s
  <1> DEFINE good == {n \in 0..N : n = 0 \/ f[Len(g[n])] = SubSeq(T1, 1, n)}
  <1>9. ASSUME NEW n \in 1..N, n = 1 \/ f[Len(g[n - 1])] = SubSeq(T1, 1, n - 1)
        PROVE  f[Len(g[n])] = SubSeq(T1, 1, n)
    <2> DEFINE x == T1[n]
               a == Len(g[n - 1])
               before == SubSeq(T1, 1, n - 1)
    <2>1. n - 1 \in 0..N
      BY <1>2
    <2>2. a \in Nat /\ x \in RawText /\ Len(g[n]) = a + Len(Ahead(items)[n])
          /\ Holds(s, a, Ahead(items)[n])
      BY <1>2, <1>3, <1>4, <1>7, <2>1
    <2>3. before \in Seq(Text) /\ SubSeq(T1, 1, n) = Append(before, x)
      BY <1>2, PrefixGrows
    <2>4. n = 1 => before = <<>> /\ a = 0
      <3>1. SubSeq(T1, 1, 0) = <<>>
        BY SubSeqEmpty
      <3>2. Len(g[0]) = 0
        BY <1>6
      <3> QED BY <3>1, <3>2
    <2>5. n # 1 => f[a] = before
      BY <1>9
    <2>6. Ahead(items)[n] = IF n = 1 THEN x ELSE <<AMP>> \o x
      BY <1>5
    <2> HIDE DEF x, a, before
    <2>7. CASE n = 1
      <3>1. f[a] = Append(before, <<>>)
        <4>1. Append(<<>>, <<>>) = << <<>> >>
          OBVIOUS
        <4> QED BY <1>8, <2>4, <2>7, <4>1
      <3>2. f[a + Len(x)] = Append(before, x)
        BY <1>3, <1>8, <2>2, <2>3, <2>6, <2>7, <3>1, CutsOver, ZenonT(30)
      <3> QED BY <2>2, <2>3, <2>6, <2>7, <3>2
    <2>8. CASE n # 1
      <3>1. Holds(s, a, <<AMP>> \o x)
        BY <2>2, <2>6, <2>8
      <3>2. /\ a + 1 \in 1..Len(s) /\ s[a + 1] = AMP
            /\ Holds(s, a + 1, x) /\ Len(<<AMP>> \o x) = 1 + Len(x)
        BY <1>3, <2>2, <3>1, BehindAmpersand
      <3> DEFINE b == a + 1
      <3>3. b \in Nat /\ b - 1 = a
        BY <2>2
      <3>4. b \in 1..Len(s) /\ s[b] = AMP /\ Holds(s, b, x)
        BY <3>2
      <3> HIDE DEF b
      <3>5. f[b] = Append(before, <<>>)
        <4>1. f[b] = Append(f[b - 1], <<>>)
          BY <1>8, <3>4
        <4> QED BY <2>5, <2>8, <3>3, <4>1
      <3>6. f[b + Len(x)] = Append(before, x)
        <4>1. s \in Text /\ Cuts(s, AMP, f)
          BY <1>3, <1>8
        <4>2. x \in RawText /\ before \in Seq(Text)
          BY <2>2, <2>3
        <4>3. b \in Nat /\ Holds(s, b, x)
          BY <3>3, <3>4
        <4> QED BY <3>5, <4>1, <4>2, <4>3, CutsOver
      <3>7. Len(g[n]) = b + Len(x)
        <4>1. Len(x) \in Nat
          BY <2>2, LenProperties DEF RawText
        <4> QED BY <2>2, <2>6, <2>8, <3>2, <4>1 DEF b
      <3> QED BY <2>3, <3>6, <3>7
    <2> QED BY <2>7, <2>8
  <1>10. good = 0..N
    <2>1. good \in SUBSET (0..N) /\ 0 \in good
      BY <1>2
    <2>2. ASSUME NEW n \in 1..N, n - 1 \in good PROVE n \in good
      <3>1. n - 1 = 0 => n = 1
        BY <1>2
      <3>2. n = 1 \/ f[Len(g[n - 1])] = SubSeq(T1, 1, n - 1)
        BY <2>2, <3>1
      <3>3. f[Len(g[n])] = SubSeq(T1, 1, n)
        BY <1>9, <3>2
      <3> QED BY <1>2, <3>3
    <2> HIDE DEF good
    <2> QED BY <1>2, <2>1, <2>2, Induction
  <1>11. f[Len(g[N])] = SubSeq(T1, 1, N)
    <2>1. N \in 0..N /\ N # 0
      BY <1>2
    <2>2. N \in good
      BY <1>10, <2>1
    <2> QED BY <2>1, <2>2
  <1>12. SubSeq(T1, 1, N) = T1
    BY <1>2, SubSeqFull
  <1> QED BY <1>3, <1>11, <1>12 DEF s, T1

(* Splitting what was joined gives the items again; an empty one at the    *)
(* end is dropped.                                                         *)
LEMMA SplitIsTexts ==
    ASSUME NEW items \in Seq(Item)
    PROVE  LET list == Split(CString(Joined(items)), AMP)
           IN  \/ list = Texts(items)
               \/ /\ items # <<>> /\ Last(Texts(items)) = <<>>
                  /\ list = Front(Texts(items))
  <1> DEFINE s == Joined(items)
             list == Split(s, AMP)
  <1>1. PICK g : Joins(items, g) /\ Joined(items) = g[Len(items)]
    BY JoinedIs
  <1>2. /\ Len(items) \in Nat /\ Texts(items) \in Seq(Text)
        /\ Len(Texts(items)) = Len(items)
    BY TextsTyped
  <1>3. s \in Bytes
    BY <1>1, <1>2 DEF Joins
  <1>4. CString(s) = s /\ s \in Text
    BY <1>3, BytesAreText
  <1>5. PICK f : /\ Cuts(s, AMP, f)
                 /\ list = IF Last(f[Len(s)]) = <<>> THEN Front(f[Len(s)])
                           ELSE f[Len(s)]
    BY <1>4, SplitIs
  <1>6. CASE items = <<>>
    <2>1. Len(items) = 0
      BY <1>6
    <2>2. s = <<>>
      BY <1>1, <2>1 DEF Joins
    <2>3. f[Len(s)] = << <<>> >>
      <3>1. Len(s) = 0
        BY <2>2
      <3> QED BY <1>5, <3>1 DEF Cuts
    <2>4. <<>> \in Seq(Text) /\ <<>> \in Text /\ << <<>> >> = Append(<<>>, <<>>)
      BY DEF Text
    <2>5. Front(<< <<>> >>) = <<>> /\ Last(<< <<>> >>) = <<>>
      BY <2>4, AppendEnds
    <2>6. list = <<>>
      BY <1>5, <2>3, <2>5
    <2>7. Texts(items) = <<>>
      BY <1>2, <2>1, EmptySeq
    <2> QED BY <1>4, <2>6, <2>7
  <1>7. CASE items # <<>>
    <2>1. f[Len(s)] = Texts(items)
      BY <1>5, <1>7, CutsOfItems
    <2> HIDE DEF s, list
    <2> QED BY <1>4, <1>5, <1>7, <2>1 DEF s, list
  <1> QED BY <1>6, <1>7

(* The table that the items with a value make, one after the other.        *)
Merged(items, f) ==
    /\ f \in [0..Len(items) -> TableText]
    /\ f[0] = <<>>
    /\ \A n \in 1..Len(items) :
          f[n] = IF HasVal(items[n])
                 THEN T!Merge(f[n - 1], Meaning(items[n].name), Meaning(items[n].value))
                 ELSE f[n - 1]

(* An item that is written as nothing has no value.                        *)
LEMMA NothingWritten ==
    ASSUME NEW item \in Item, TextOf(item) = <<>>
    PROVE  ~ HasVal(item)
  <1>1. CASE item.value = NULL
    BY <1>1 DEF HasVal
  <1>2. CASE item.value # NULL
    <2> DEFINE name == Raw(item.name)
               value == Raw(item.value)
    <2>1. name \in RawText /\ value \in RawText
      BY <1>2, SpellingTyped DEF Item
    <2>2. TextOf(item) = name \o <<EQUALS>> \o value
      BY <1>2 DEF TextOf
    <2> HIDE DEF name, value
    <2>3. <<EQUALS>> \in RawText /\ Len(<<EQUALS>>) = 1
      BY DEF EQUALS, AMP, RawText
    <2>4. name \o <<EQUALS>> \in RawText /\ Len(name \o <<EQUALS>>) = Len(name) + 1
      BY <2>1, <2>3, ConcatProperties DEF RawText
    <2> DEFINE u == name \o <<EQUALS>>
    <2> HIDE DEF u
    <2>5. u \in RawText /\ Len(u) = Len(name) + 1
      BY <2>4 DEF u
    <2>6. Len(u \o value) = Len(name) + 1 + Len(value)
      <3> DEFINE B == 1..255 \ {AMP}
      <3>1. RawText = Seq(B)
        BY DEF RawText
      <3> HIDE DEF B
      <3>2. Len(u \o value) = Len(u) + Len(value)
        BY <2>1, <2>5, <3>1, ConcatProperties
      <3> QED BY <2>5, <3>2
    <2>7. Len(name) \in Nat /\ Len(value) \in Nat
      BY <2>1, LenProperties DEF RawText
    <2>8. u \o value = <<>>
      BY <2>2 DEF u
    <2>9. Len(u \o value) = 0
      BY <2>8
    <2> QED BY <2>6, <2>7, <2>9
  <1> QED BY <1>1, <1>2

LEMMA MergedIs ==
    ASSUME NEW items \in Seq(Item)
    PROVE  \E f : Merged(items, f) /\ ParseQueryString(Joined(items)) = f[Len(items)]
  <1> DEFINE N == Len(items)
             s == Joined(items)
             list == Split(CString(s), AMP)
             texts == Texts(items)
             result == ParseQueryString(s)
             Step(t, n) == IF HasVal(items[n])
                           THEN T!Merge(t, Meaning(items[n].name),
                                        Meaning(items[n].value))
                           ELSE t
  <1>1. s \in Text
    BY ParsedTyped
  <1>2. \E f : Tables(list, f) /\ result = f[Len(list)]
    BY <1>1, ParseQueryStringIs
  <1>3. /\ texts \in Seq(Text) /\ Len(texts) = N /\ N \in Nat
        /\ \A n \in 1..N : items[n] \in Item /\ texts[n] = TextOf(items[n])
    BY TextsTyped
  <1>4. list = texts \/ (items # <<>> /\ Last(texts) = <<>> /\ list = Front(texts))
    BY SplitIsTexts
  <1>5. \A t \in TableText, n \in 1..N : ParseItem(t, texts[n]) = Step(t, n)
    BY <1>3, ParseItemIs
  <1>6. \A f : Merged(items, f) <=> /\ f \in [0..N -> TableText]
                                    /\ f[0] = <<>>
                                    /\ \A n \in 1..N : f[n] = Step(f[n - 1], n)
    BY DEF Merged
  <1> HIDE DEF N, s, list, texts, result, Step
  <1>7. PICK f : Tables(list, f) /\ result = f[Len(list)]
    BY <1>2
  <1>8. CASE list = texts
    <2>1. /\ f \in [0..N -> TableText] /\ f[0] = <<>>
          /\ \A n \in 1..N : f[n] = ParseItem(f[n - 1], texts[n])
      BY <1>3, <1>7, <1>8 DEF Tables
    <2>2. \A n \in 1..N : f[n] = Step(f[n - 1], n)
      <3>1. \A n \in 1..N : n - 1 \in 0..N
        BY <1>3
      <3>2. \A n \in 1..N : f[n - 1] \in TableText
        BY <2>1, <3>1
      <3> QED BY <1>5, <2>1, <3>2
    <2> QED BY <1>3, <1>6, <1>7, <1>8, <2>1, <2>2 DEF result, s, N
  <1>9. CASE items # <<>> /\ Last(texts) = <<>> /\ list = Front(texts)
    <2>1. N \in 1..N /\ N - 1 \in Nat
      BY <1>9, EmptySeq DEF N
    <2>2. texts # <<>>
      <3>1. Len(<<>>) = 0
        OBVIOUS
      <3> QED BY <1>3, <2>1, <3>1
    <2>3. Len(list) = N - 1 /\ \A n \in 1..N - 1 : list[n] = texts[n]
      BY <1>3, <1>9, <2>2, FrontLast
    <2>4. texts[N] = <<>>
      BY <1>3, <1>9, <2>2, FrontLast
    <2>5. ~ HasVal(items[N])
      BY <1>3, <2>1, <2>4, NothingWritten
    <2>6. /\ f \in [0..N - 1 -> TableText] /\ f[0] = <<>>
          /\ \A n \in 1..N - 1 : f[n] = ParseItem(f[n - 1], texts[n])
      BY <1>7, <2>3 DEF Tables
    <2>7. \A n \in 1..N - 1 : f[n] = Step(f[n - 1], n)
      <3>1. \A n \in 1..N - 1 : n - 1 \in 0..N - 1 /\ n \in 1..N
        BY <1>3
      <3>2. \A n \in 1..N - 1 : f[n - 1] \in TableText
        BY <2>6, <3>1
      <3> QED BY <1>5, <2>6, <3>1, <3>2
    <2> DEFINE g == [n \in 0..N |-> IF n = N THEN f[N - 1] ELSE f[n]]
    <2>8. f[N - 1] \in TableText
      BY <2>1, <2>6
    <2>9. g \in [0..N -> TableText]
      <3>1. \A n \in 0..N : n = N \/ n \in 0..N - 1
        BY <1>3
      <3>2. \A n \in 0..N - 1 : f[n] \in TableText
        BY <2>6
      <3> QED BY <2>8, <3>1, <3>2
    <2>10. g[N] = f[N - 1] /\ \A n \in 0..N - 1 : g[n] = f[n]
      BY <1>3, <2>1
    <2> HIDE DEF g
    <2>11. g[0] = <<>>
      BY <2>1, <2>6, <2>10
    <2>12. ASSUME NEW n \in 1..N PROVE g[n] = Step(g[n - 1], n)
      <3>1. n - 1 \in 0..N - 1 /\ g[n - 1] = f[n - 1]
        BY <1>3, <2>10
      <3>2. CASE n = N
        BY <2>5, <2>10, <3>1, <3>2 DEF Step
      <3>3. CASE n # N
        <4>1. n \in 1..N - 1 /\ n \in 0..N - 1
          BY <1>3, <3>3
        <4> QED BY <2>7, <2>10, <3>1, <4>1
      <3> QED BY <3>2, <3>3
    <2>13. Merged(items, g)
      BY <1>6, <2>9, <2>11, <2>12
    <2>14. result = g[N]
      BY <1>7, <2>3, <2>10
    <2> QED BY <2>13, <2>14 DEF result, s, N
  <1> QED BY <1>4, <1>8, <1>9

---------------------------------------------------------------------------
(* keys and values run over the whole table.                               *)

LEMMA WalkIs ==
    ASSUME NEW E, NEW t \in Seq(E)
    PROVE  T!Walk(t) = t
  <1> DEFINE N == Len(t)
             Eq(f) == f = [i \in T!BeforeFirst..Len(t) - 1 |->
                             IF T!HasNext(t, i) THEN <<T!At(t, i + 1)>> \o f[i + 1]
                             ELSE <<>>]
             walk == CHOOSE f : Eq(f)
             rest == [i \in T!BeforeFirst..Len(t) - 1 |-> SubSeq(t, i + 1 + 1, Len(t))]
  <1>1. N \in Nat
    BY LenProperties
  <1>2. T!BeforeFirst = -1
    BY DEF T!BeforeFirst
  <1>3. t # <<>> <=> N # 0
    BY EmptySeq
  <1>4. \A i \in -1..N - 1 : T!HasNext(t, i) <=> i # N - 1
    BY <1>1, <1>3 DEF T!HasNext
  <1>5. ASSUME NEW i \in -1..N - 1, i # N - 1
        PROVE  SubSeq(t, i + 1 + 1, N) = <<T!At(t, i + 1)>> \o SubSeq(t, i + 1 + 1 + 1, N)
    <2> DEFINE k == i + 1 + 1
    <2>1. k \in 1..N /\ N \in k..N
      BY <1>1, <1>5
    <2>2. T!At(t, i + 1) = t[k]
      BY DEF T!At
    <2> HIDE DEF k, N
    <2>3. SubSeq(t, k, N) = <<t[k]>> \o SubSeq(t, k + 1, N)
      BY <2>1, SubSeqRecursiveFirst DEF N
    <2> QED BY <2>2, <2>3 DEF k
  <1>6. \A i \in -1..N - 1 : i = N - 1 => SubSeq(t, i + 1 + 1, N) = <<>>
    BY <1>1, SubSeqEmpty
  <1>7. Eq(rest)
    <2>1. ASSUME NEW i \in -1..N - 1
          PROVE  rest[i] = IF T!HasNext(t, i) THEN <<T!At(t, i + 1)>> \o rest[i + 1]
                           ELSE <<>>
      <3>1. rest[i] = SubSeq(t, i + 1 + 1, N)
        BY <1>2
      <3>2. CASE i = N - 1
        BY <1>4, <1>6, <3>1, <3>2
      <3>3. CASE i # N - 1
        <4>1. i + 1 \in -1..N - 1
          BY <1>1, <3>3
        <4>2. rest[i + 1] = SubSeq(t, i + 1 + 1 + 1, N)
          BY <1>2, <4>1
        <4> QED BY <1>4, <1>5, <3>1, <3>3, <4>2
      <3> QED BY <3>2, <3>3
    <2>2. rest = [i \in -1..N - 1 |-> rest[i]]
      BY <1>2
    <2> HIDE DEF rest
    <2> QED BY <1>2, <2>1, <2>2
  <1>8. Eq(walk)
    <2> HIDE DEF Eq, rest
    <2> QED BY <1>7
  <1>9. T!Walk(t) = walk[-1]
    BY <1>2 DEF T!Walk
  <1> HIDE DEF walk, rest
  <1>10. \A i \in -1..N - 1 :
            walk[i] = IF i # N - 1 THEN <<T!At(t, i + 1)>> \o walk[i + 1]
                                        ELSE <<>>
    BY <1>2, <1>4, <1>8
  <1> HIDE DEF Eq, N
  <1> DEFINE good == {n \in 0..N : walk[N - 1 - n] = SubSeq(t, N - 1 - n + 1 + 1, N)}
  <1>11. 0 \in good
    <2>1. N - 1 - 0 = N - 1 /\ N - 1 \in -1..N - 1 /\ 0 \in 0..N
      BY <1>1
    <2>2. walk[N - 1] = <<>> /\ SubSeq(t, N - 1 + 1 + 1, N) = <<>>
      BY <1>6, <1>10, <2>1
    <2> QED BY <2>1, <2>2
  <1>12. ASSUME NEW n \in 1..N, n - 1 \in good PROVE n \in good
    <2> DEFINE i == N - 1 - n
    <2>1. i \in -1..N - 1 /\ i # N - 1 /\ i + 1 = N - 1 - (n - 1) /\ n \in 0..N
      BY <1>1
    <2>2. walk[i + 1] = SubSeq(t, i + 1 + 1 + 1, N)
      BY <1>12, <2>1
    <2> HIDE DEF i
    <2>3. walk[i] = SubSeq(t, i + 1 + 1, N)
      BY <1>5, <1>10, <2>1, <2>2
    <2> QED BY <2>1, <2>3 DEF i
  <1>13. good = 0..N
    <2>1. good \in SUBSET (0..N)
      OBVIOUS
    <2> HIDE DEF good
    <2> QED BY <1>1, <1>11, <1>12, <2>1, Induction
  <1>14. walk[-1] = SubSeq(t, 1, N)
    <2>1. N \in 0..N /\ N - 1 - N = -1
      BY <1>1
    <2>2. N \in good
      BY <1>13, <2>1
    <2>3. -1 + 1 + 1 = 1
      OBVIOUS
    <2>4. walk[N - 1 - N] = SubSeq(t, N - 1 - N + 1 + 1, N)
      BY <2>2
    <2> QED BY <2>1, <2>3, <2>4
  <1>15. SubSeq(t, 1, N) = t
    BY SubSeqFull DEF N
  <1> QED BY <1>9, <1>14, <1>15

---------------------------------------------------------------------------
(* What a client means: the values of some items so far.                   *)

ValueStep(items, places, n, text) ==
    IF n \notin places THEN text
    ELSE IF \A m \in places : n <= m THEN Meaning(items[n].value)
    ELSE Glue(text, Meaning(items[n].value))

ValuesSoFar(items, places, f) ==
    /\ f \in [0..Len(items) -> Text]
    /\ f[0] = <<>>
    /\ \A n \in 1..Len(items) : f[n] = ValueStep(items, places, n, f[n - 1])

LEMMA ValueStepTyped ==
    ASSUME NEW items \in Seq(Item), NEW places \in SUBSET Valued(items),
           NEW n \in 1..Len(items), NEW text \in Text
    PROVE  ValueStep(items, places, n, text) \in Text
  <1>1. CASE n \notin places
    BY <1>1 DEF ValueStep
  <1>2. CASE n \in places
    <2>1. items[n] \in Item /\ items[n].value # NULL
      BY <1>2, ElementOfSeq DEF Valued
    <2>2. Meaning(items[n].value) \in Text
      BY <2>1, SpellingTyped DEF Item
    <2>3. Glue(text, Meaning(items[n].value)) \in Text
      BY <2>2, GlueTyped
    <2> QED BY <1>2, <2>2, <2>3 DEF ValueStep
  <1> QED BY <1>1, <1>2

LEMMA ValuesAtIs ==
    ASSUME NEW items \in Seq(Item), NEW places \in SUBSET Valued(items)
    PROVE  \E f : /\ ValuesSoFar(items, places, f)
                  /\ ValuesAt(items, places) = f[Len(items)]
  <1> DEFINE N == Len(items)
             base == <<>>
             Value(n, x) == ValueStep(items, places, n, x)
             step == [n \in 1..N |-> [x \in Text |-> Value(n, x)]]
             Eq(f) == f = [n \in 0..N |->
                             IF n = 0 THEN <<>>
                             ELSE IF n \notin places THEN f[n - 1]
                             ELSE IF \A m \in places : n <= m
                                  THEN Meaning(items[n].value)
                             ELSE Glue(f[n - 1], Meaning(items[n].value))]
             text == CHOOSE f : Eq(f)
  <1>1. N \in Nat
    BY LenProperties
  <1>2. \A n \in 1..N, x \in Text : Value(n, x) \in Text
    BY ValueStepTyped
  <1>3. step \in [1..N -> [Text -> Text]] /\ base \in Text
    <2>1. base \in Text
      BY DEF Text
    <2> HIDE DEF N, Value
    <2> QED BY <1>2, <2>1
  <1>4. \A n \in 1..N, x \in Text : step[n][x] = Value(n, x)
    OBVIOUS
  <1> HIDE DEF step, N, base, Value
  <1>5. PICK g : Follows(g, Text, N, base, step)
    BY <1>1, <1>3, Recursion
  <1>6. /\ g \in [0..N -> Text] /\ g[0] = base
        /\ \A n \in 1..N : g[n] = step[n][g[n - 1]]
    BY <1>5 DEF Follows
  <1>7. ASSUME NEW n \in 1..N PROVE g[n] = Value(n, g[n - 1])
    <2>1. n - 1 \in 0..N
      BY <1>1
    <2>2. g[n - 1] \in Text
      BY <1>6, <2>1
    <2> QED BY <1>4, <1>6, <2>2
  <1>8. Eq(g)
    <2>1. g = [n \in 0..N |-> g[n]]
      BY <1>6
    <2>2. \A n \in 0..N : n = 0 \/ n \in 1..N
      BY <1>1
    <2>3. \A n \in 0..N : g[n] = IF n = 0 THEN base ELSE Value(n, g[n - 1])
      BY <1>6, <1>7, <2>2
    <2> QED BY <2>1, <2>3 DEF base, Value, ValueStep
  <1>9. Eq(text)
    <2> HIDE DEF Eq
    <2> QED BY <1>8
  <1>10. ValuesAt(items, places) = text[N]
    BY DEF ValuesAt, N
  <1> HIDE DEF text
  <1>11. text[0] = base /\ \A n \in 1..N : text[n] = Value(n, text[n - 1])
    <2>1. text = [n \in 0..N |-> IF n = 0 THEN base ELSE Value(n, text[n - 1])]
      BY <1>9 DEF base, Value, ValueStep
    <2>2. 0 \in 0..N /\ \A n \in 1..N : n \in 0..N /\ n # 0
      BY <1>1
    <2> HIDE DEF Eq
    <2> QED BY <2>1, <2>2
  <1>12. \A n \in 0..N : text[n] \in Text
    <2> HIDE DEF Eq
    <2>1. \A n \in 1..N : text[n - 1] \in Text => text[n] \in Text
      BY <1>2, <1>11
    <2> QED BY <1>1, <1>3, <1>11, <2>1, FollowsIn
  <1>13. text = [n \in 0..N |-> text[n]]
    BY <1>9
  <1> HIDE DEF Eq
  <1>14. ValuesSoFar(items, places, text)
    BY <1>11, <1>12, <1>13 DEF N, ValuesSoFar, base, Value
  <1> QED BY <1>10, <1>14 DEF N

(* The values of the items named as one of them, up to an item.            *)
ValuesTo(items, n) == CHOOSE f : /\ ValuesSoFar(items, SameName(items, n), f)
                                 /\ ValuesAt(items, SameName(items, n)) = f[Len(items)]

LEMMA ValuesToIs ==
    ASSUME NEW items \in Seq(Item), NEW n
    PROVE  /\ ValuesSoFar(items, SameName(items, n), ValuesTo(items, n))
           /\ ValuesAt(items, SameName(items, n)) = ValuesTo(items, n)[Len(items)]
  <1>1. SameName(items, n) \in SUBSET Valued(items)
    BY DEF SameName
  <1> QED BY <1>1, ValuesAtIs DEF ValuesTo

---------------------------------------------------------------------------
(* Items of one name.                                                      *)

LEMMA ValuedIs ==
    ASSUME NEW items \in Seq(Item)
    PROVE  /\ Len(items) \in Nat /\ Valued(items) \subseteq 1..Len(items)
           /\ \A n \in 1..Len(items) : n \in Valued(items) <=> HasVal(items[n])
           /\ \A n \in Valued(items) :
                 /\ Meaning(items[n].name) \in Text
                 /\ Meaning(items[n].value) \in Text
  <1>1. Len(items) \in Nat /\ DOMAIN items = 1..Len(items)
    BY LenProperties
  <1>2. Valued(items) = {n \in 1..Len(items) : HasVal(items[n])}
    BY <1>1 DEF Valued, HasVal
  <1>3. ASSUME NEW n \in Valued(items)
        PROVE  Meaning(items[n].name) \in Text /\ Meaning(items[n].value) \in Text
    <2>1. items[n] \in Item /\ items[n].value # NULL
      BY <1>2, <1>3, ElementOfSeq DEF HasVal
    <2>2. items[n].name \in Spelling /\ items[n].value \in Spelling
      BY <2>1 DEF Item
    <2> QED BY <2>2, SpellingTyped
  <1> QED BY <1>1, <1>2, <1>3

LEMMA SameNameIs ==
    ASSUME NEW items, NEW n \in Valued(items), NEW m \in Valued(items)
    PROVE  /\ n \in SameName(items, n)
           /\ m \in SameName(items, n)
                 <=> T!Same(Meaning(items[m].name), Meaning(items[n].name))
           /\ m \in SameName(items, n) => SameName(items, m) = SameName(items, n)
  BY DEF SameName, T!Same

LEMMA FirstExists ==
    ASSUME NEW items \in Seq(Item), NEW n \in Valued(items)
    PROVE  \E m \in FirstOfName(items) : m <= n /\ m \in SameName(items, n)
  <1> DEFINE S == SameName(items, n)
  <1>1. S \in SUBSET Nat /\ S # {} /\ n \in S /\ S \subseteq Valued(items)
    BY ValuedIs, SameNameIs DEF SameName
  <1>2. PICK m \in S : \A l \in S : m <= l
    BY <1>1, SmallestOf
  <1>3. m \in Valued(items) /\ SameName(items, m) = S
    BY <1>1, <1>2, SameNameIs
  <1>4. m \in FirstOfName(items)
    BY <1>2, <1>3 DEF FirstOfName
  <1> QED BY <1>1, <1>2, <1>4

LEMMA FirstIsOne ==
    ASSUME NEW items \in Seq(Item), NEW m \in FirstOfName(items),
           NEW l \in FirstOfName(items), NEW n \in Valued(items),
           n \in SameName(items, m), n \in SameName(items, l)
    PROVE  m = l
  <1>1. m \in Valued(items) /\ l \in Valued(items) /\ m \in Nat /\ l \in Nat
    BY ValuedIs DEF FirstOfName
  <1>2. SameName(items, m) = SameName(items, l)
    BY <1>1, SameNameIs
  <1>3. m \in SameName(items, l) /\ l \in SameName(items, m)
    BY <1>1, <1>2, SameNameIs
  <1>4. m <= l /\ l <= m
    BY <1>3 DEF FirstOfName
  <1> QED BY <1>1, <1>4

---------------------------------------------------------------------------
(* The table after some items: an entry for each name that was given a     *)
(* value, in the order of the first of each.                               *)

MeantTo(items, n, t, order) ==
    /\ order \in [1..Len(t) -> FirstOfName(items)]
    /\ \A k \in 1..Len(t) : order[k] <= n
    /\ \A m \in FirstOfName(items) : m <= n => \E k \in 1..Len(t) : order[k] = m
    /\ \A k, l \in 1..Len(t) : k < l => order[k] < order[l]
    /\ \A k \in 1..Len(t) : /\ t[k].key = Meaning(items[order[k]].name)
                            /\ t[k].val = ValuesTo(items, order[k])[n]

(* What one item changes in the values of a name.                          *)
LEMMA ValueAfter ==
    ASSUME NEW items \in Seq(Item), NEW n \in 1..Len(items), NEW m \in FirstOfName(items)
    PROVE  LET f == ValuesTo(items, m)
           IN  /\ n \notin SameName(items, m) => f[n] = f[n - 1]
               /\ n \in SameName(items, m) /\ m < n
                     => f[n] = Glue(f[n - 1], Meaning(items[n].value))
               /\ n = m => f[n] = Meaning(items[n].value)
  <1> DEFINE f == ValuesTo(items, m)
             S == SameName(items, m)
  <1>1. f[n] = ValueStep(items, S, n, f[n - 1])
    BY ValuesToIs DEF ValuesSoFar
  <1>2. m \in Valued(items) /\ m \in S /\ \A l \in S : m <= l
    BY SameNameIs DEF FirstOfName
  <1>3. m \in Nat /\ n \in Nat
    BY <1>2, ValuedIs
  <1> HIDE DEF f, S
  <1>4. m < n => ~ (n <= m)
    BY <1>3
  <1>5. n \notin S => f[n] = f[n - 1]
    BY <1>1 DEF ValueStep
  <1>6. n \in S /\ m < n => f[n] = Glue(f[n - 1], Meaning(items[n].value))
    BY <1>1, <1>2, <1>4 DEF ValueStep
  <1>7. n = m => f[n] = Meaning(items[n].value)
    BY <1>1, <1>2 DEF ValueStep
  <1> QED BY <1>5, <1>6, <1>7 DEF f, S

LEMMA NoValueStep ==
    ASSUME NEW items \in Seq(Item), NEW n \in 1..Len(items), n \notin Valued(items),
           NEW t \in TableText, NEW order, MeantTo(items, n - 1, t, order)
    PROVE  MeantTo(items, n, t, order)
  <1>1. /\ order \in [1..Len(t) -> FirstOfName(items)]
        /\ \A k \in 1..Len(t) : order[k] <= n - 1
        /\ \A m \in FirstOfName(items) :
              m <= n - 1 => \E k \in 1..Len(t) : order[k] = m
        /\ \A k, l \in 1..Len(t) : k < l => order[k] < order[l]
        /\ \A k \in 1..Len(t) : /\ t[k].key = Meaning(items[order[k]].name)
                                /\ t[k].val = ValuesTo(items, order[k])[n - 1]
    BY DEF MeantTo
  <1>2. FirstOfName(items) \subseteq Nat /\ n \in Nat /\ n \notin FirstOfName(items)
    BY ValuedIs DEF FirstOfName
  <1>3. \A k \in 1..Len(t) : order[k] \in FirstOfName(items)
    BY <1>1
  <1>4. \A m \in FirstOfName(items) : ValuesTo(items, m)[n] = ValuesTo(items, m)[n - 1]
    <2>1. ASSUME NEW m \in FirstOfName(items)
          PROVE  ValuesTo(items, m)[n] = ValuesTo(items, m)[n - 1]
      <3>1. n \notin SameName(items, m)
        BY DEF SameName
      <3> QED BY <3>1, ValueAfter
    <2> QED BY <2>1
  <1>5. \A k \in 1..Len(t) : order[k] <= n
    BY <1>1, <1>2, <1>3
  <1>6. \A m \in FirstOfName(items) : m <= n => m <= n - 1
    BY <1>2
  <1>7. \A m \in FirstOfName(items) : m <= n => \E k \in 1..Len(t) : order[k] = m
    BY <1>1, <1>6
  <1>8. \A k \in 1..Len(t) : t[k].val = ValuesTo(items, order[k])[n]
    BY <1>1, <1>3, <1>4
  <1> QED BY <1>1, <1>5, <1>7, <1>8 DEF MeantTo

(* The name has an entry: its value goes behind the one it has.            *)
LEMMA AgainStep ==
    ASSUME NEW items \in Seq(Item), NEW n \in 1..Len(items), n \in Valued(items),
           NEW t \in TableText, NEW order, MeantTo(items, n - 1, t, order),
           T!HasKey(t, Meaning(items[n].name))
    PROVE  MeantTo(items, n, T!Merge(t, Meaning(items[n].name), Meaning(items[n].value)),
                   order)
  <1> DEFINE name == Meaning(items[n].name)
             value == Meaning(items[n].value)
             u == T!Merge(t, name, value)
             f == T!First(t, name)
             F == FirstOfName(items)
             N == Len(t)
  <1>1. /\ order \in [1..N -> F]
        /\ \A k \in 1..N : order[k] <= n - 1
        /\ \A m \in F : m <= n - 1 => \E k \in 1..N : order[k] = m
        /\ \A k, l \in 1..N : k < l => order[k] < order[l]
        /\ \A k \in 1..N : /\ t[k].key = Meaning(items[order[k]].name)
                           /\ t[k].val = ValuesTo(items, order[k])[n - 1]
    BY DEF MeantTo
  <1>2. F \subseteq Nat /\ F \subseteq Valued(items) /\ n \in Nat
        /\ name \in Text /\ value \in Text
    BY ValuedIs DEF FirstOfName
  <1>3. N \in Nat /\ \A k \in 1..N : t[k] \in [key : Text, val : Text]
    BY LenProperties, ElementOfSeq DEF TableText
  <1>4. /\ Len(u) = N
        /\ \A k \in 1..N :
              u[k] = IF k = f THEN [t[k] EXCEPT !.val = Glue(t[k].val, value)]
                                  ELSE t[k]
    BY <1>2, MergeExtends
  <1>5. f \in 1..N /\ T!Same(t[f].key, name)
    BY FirstIs
  <1> HIDE DEF u, f, N
  <1>6. order[f] \in F /\ order[f] < n
    BY <1>1, <1>2, <1>5
  <1>7. n \in SameName(items, order[f])
    <2>1. T!Same(Meaning(items[n].name), Meaning(items[order[f]].name))
      BY <1>1, <1>5 DEF T!Same
    <2> QED BY <1>2, <1>6, <2>1, SameNameIs
  <1>8. n \notin F
    <2>1. SameName(items, order[f]) = SameName(items, n)
      BY <1>2, <1>6, <1>7, SameNameIs
    <2>2. order[f] \in SameName(items, n)
      BY <1>2, <1>6, <2>1, SameNameIs
    <2>3. n \in F => n <= order[f]
      BY <2>2 DEF FirstOfName
    <2>4. order[f] \in Nat
      BY <1>2, <1>6
    <2> QED BY <1>2, <1>6, <2>3, <2>4
  <1>9. ASSUME NEW k \in 1..N, k # f PROVE n \notin SameName(items, order[k])
    <2>1. order[k] \in F /\ order[f] \in F /\ order[k] \in Nat /\ order[f] \in Nat
      BY <1>1, <1>2, <1>5
    <2>2. k < f \/ f < k
      BY <1>3, <1>5, <1>9
    <2>3. order[k] # order[f]
      BY <1>1, <1>5, <2>1, <2>2
    <2> HIDE DEF F
    <2>4. n \in SameName(items, order[k]) => order[k] = order[f]
      BY <1>7, <2>1, FirstIsOne DEF F
    <2> QED BY <2>3, <2>4
  <1>10. ASSUME NEW k \in 1..N
         PROVE  /\ u[k].key = Meaning(items[order[k]].name)
                /\ u[k].val = ValuesTo(items, order[k])[n]
    <2>1. order[k] \in F
      BY <1>1
    <2> DEFINE old == ValuesTo(items, order[k])[n - 1]
    <2>2. t[k].key = Meaning(items[order[k]].name) /\ t[k].val = old
      BY <1>1
    <2> HIDE DEF old, name, value
    <2>3. CASE k = f
      <3>1. ValuesTo(items, order[k])[n] = Glue(old, value)
        BY <1>6, <1>7, <2>1, <2>3, ValueAfter DEF old, value
      <3>2. u[k] = [t[k] EXCEPT !.val = Glue(t[k].val, value)]
        BY <1>4, <2>3
      <3>3. u[k].key = t[k].key /\ u[k].val = Glue(t[k].val, value)
        BY <1>3, <3>2
      <3> QED BY <2>2, <3>1, <3>3
    <2>4. CASE k # f
      <3>1. ValuesTo(items, order[k])[n] = old
        BY <1>9, <2>1, <2>4, ValueAfter DEF old
      <3>2. u[k] = t[k]
        BY <1>4, <2>4
      <3> QED BY <2>2, <3>1, <3>2
    <2> QED BY <2>3, <2>4
  <1>11. \A k \in 1..N : order[k] <= n
    <2>1. \A k \in 1..N : order[k] \in Nat /\ order[k] <= n - 1
      BY <1>1, <1>2
    <2> QED BY <1>2, <2>1
  <1>12. \A m \in F : m <= n => \E k \in 1..N : order[k] = m
    <2>1. \A m \in F : m <= n => m <= n - 1
      BY <1>2, <1>8
    <2> QED BY <1>1, <2>1
  <1> HIDE DEF F, name, value
  <1>13. MeantTo(items, n, u, order)
    BY <1>1, <1>4, <1>10, <1>11, <1>12 DEF MeantTo, F
  <1> QED BY <1>13 DEF u, name, value

(* The name has no entry: it gets one behind the others.                   *)
LEMMA NewStep ==
    ASSUME NEW items \in Seq(Item), NEW n \in 1..Len(items), n \in Valued(items),
           NEW t \in TableText, NEW order, MeantTo(items, n - 1, t, order),
           ~ T!HasKey(t, Meaning(items[n].name))
    PROVE  MeantTo(items, n, T!Merge(t, Meaning(items[n].name), Meaning(items[n].value)),
                   [k \in 1..Len(t) + 1 |-> IF k = Len(t) + 1 THEN n ELSE order[k]])
  <1> DEFINE name == Meaning(items[n].name)
             value == Meaning(items[n].value)
             u == T!Merge(t, name, value)
             F == FirstOfName(items)
             N == Len(t)
             next == [k \in 1..N + 1 |-> IF k = N + 1 THEN n ELSE order[k]]
  <1>1. /\ order \in [1..N -> F]
        /\ \A k \in 1..N : order[k] <= n - 1
        /\ \A m \in F : m <= n - 1 => \E k \in 1..N : order[k] = m
        /\ \A k, l \in 1..N : k < l => order[k] < order[l]
        /\ \A k \in 1..N : /\ t[k].key = Meaning(items[order[k]].name)
                           /\ t[k].val = ValuesTo(items, order[k])[n - 1]
    BY DEF MeantTo
  <1>2. F \subseteq Nat /\ F \subseteq Valued(items) /\ n \in Nat
        /\ name \in Text /\ value \in Text
    BY ValuedIs DEF FirstOfName
  <1>3. N \in Nat
    BY LenProperties DEF TableText
  <1>4. u = T!Add(t, name, value)
    BY <1>2, MergeExtends
  <1>5. /\ Len(u) = N + 1
        /\ \A k \in 1..N : u[k] = t[k]
        /\ u[N + 1] = T!Entry(name, value)
    BY <1>2, <1>4, AddExtends
  <1>6. T!Entry(name, value).key = name /\ T!Entry(name, value).val = value
    BY <1>2, EntryTyped
  <1>7. \A k \in 1..N : ~ T!Same(t[k].key, name)
    BY FirstIs
  <1>8. \A k \in 1..N : order[k] \in F /\ order[k] \in Nat /\ order[k] \in Valued(items)
    BY <1>1, <1>2
  <1>9. \A k \in 1..N : n \notin SameName(items, order[k])
    <2>1. ASSUME NEW k \in 1..N PROVE n \notin SameName(items, order[k])
      <3>1. n \in SameName(items, order[k])
               => T!Same(Meaning(items[n].name), Meaning(items[order[k]].name))
        BY <1>8, SameNameIs
      <3>2. T!Same(Meaning(items[n].name), Meaning(items[order[k]].name))
               => T!Same(t[k].key, name)
        BY <1>1 DEF T!Same
      <3> QED BY <1>7, <3>1, <3>2
    <2> QED BY <2>1
  <1> HIDE DEF u, N, next, name, value, F
  <1>10. n \in F
    <2>1. PICK m \in F : m <= n /\ m \in SameName(items, n)
      BY FirstExists DEF F
    <2>2. m = n \/ m <= n - 1
      BY <1>2, <2>1
    <2>3. CASE m <= n - 1
      <3>1. PICK k \in 1..N : order[k] = m
        BY <1>1, <2>3
      <3>2. n \in SameName(items, m)
        BY <1>2, <2>1, SameNameIs
      <3> QED BY <1>9, <3>1, <3>2
    <2> QED BY <2>1, <2>2, <2>3
  <1>11. /\ next[N + 1] = n /\ \A k \in 1..N : next[k] = order[k]
         /\ next \in [1..N + 1 -> F]
    <2>1. N + 1 \in 1..N + 1 /\ \A k \in 1..N : k \in 1..N + 1 /\ k # N + 1
      BY <1>3
    <2>2. \A k \in 1..N + 1 : k = N + 1 \/ k \in 1..N
      BY <1>3
    <2> QED BY <1>8, <1>10, <2>1, <2>2 DEF next
  <1>12. \A k \in 1..N + 1 : k \in 1..N \/ k = N + 1
    BY <1>3
  <1>13. \A k \in 1..N + 1 : next[k] <= n
    <2>1. \A k \in 1..N : next[k] <= n
      BY <1>1, <1>2, <1>8, <1>11
    <2> QED BY <1>2, <1>11, <1>12, <2>1
  <1>14. \A m \in F : m <= n => \E k \in 1..N + 1 : next[k] = m
    <2>1. ASSUME NEW m \in F, m <= n PROVE \E k \in 1..N + 1 : next[k] = m
      <3>1. CASE m = n
        <4>1. N + 1 \in 1..N + 1
          BY <1>3
        <4> QED BY <1>11, <3>1, <4>1
      <3>2. CASE m # n
        <4>1. m <= n - 1
          BY <1>2, <2>1, <3>2
        <4>2. PICK k \in 1..N : order[k] = m
          BY <1>1, <4>1
        <4>3. k \in 1..N + 1
          BY <1>3
        <4> QED BY <1>11, <4>2, <4>3
      <3> QED BY <3>1, <3>2
    <2> QED BY <2>1
  <1>15. \A k, l \in 1..N + 1 : k < l => next[k] < next[l]
    <2>1. ASSUME NEW k \in 1..N + 1, NEW l \in 1..N + 1, k < l PROVE next[k] < next[l]
      <3>1. k \in 1..N
        BY <1>3, <2>1
      <3>2. CASE l \in 1..N
        BY <1>1, <1>11, <2>1, <3>1, <3>2
      <3>3. CASE l = N + 1
        BY <1>1, <1>2, <1>8, <1>11, <3>1, <3>3
      <3> QED BY <1>12, <3>2, <3>3
    <2> QED BY <2>1
  <1>16. ASSUME NEW k \in 1..N + 1
         PROVE  /\ u[k].key = Meaning(items[next[k]].name)
                /\ u[k].val = ValuesTo(items, next[k])[n]
    <2>1. CASE k \in 1..N
      <3> DEFINE m == order[k]
                 old == ValuesTo(items, m)[n - 1]
      <3>1. m \in F /\ n \notin SameName(items, m) /\ next[k] = m /\ u[k] = t[k]
        BY <1>5, <1>8, <1>9, <1>11, <2>1
      <3>2. t[k].key = Meaning(items[m].name) /\ t[k].val = old
        BY <1>1, <2>1
      <3> HIDE DEF m
      <3>3. ValuesTo(items, m)[n] = old
        BY <3>1, ValueAfter DEF F
      <3> HIDE DEF old
      <3> QED BY <3>1, <3>2, <3>3
    <2>2. CASE k = N + 1
      <3>1. ValuesTo(items, n)[n] = value
        BY <1>10, ValueAfter DEF F, value
      <3> QED BY <1>5, <1>6, <1>11, <2>2, <3>1 DEF name
    <2> QED BY <1>12, <2>1, <2>2
  <1>17. MeantTo(items, n, u, next)
    BY <1>5, <1>11, <1>13, <1>14, <1>15, <1>16 DEF MeantTo, F
  <1> QED BY <1>17 DEF u, next, N, name, value

LEMMA MergedMeant ==
    ASSUME NEW items \in Seq(Item), NEW f, Merged(items, f)
    PROVE  \E order : MeantTo(items, Len(items), f[Len(items)], order)
  <1> DEFINE N == Len(items)
             Meant(n) == \E order : MeantTo(items, n, f[n], order)
             good == {n \in 0..N : Meant(n)}
  <1>1. N \in Nat /\ Valued(items) \subseteq 1..N
        /\ \A n \in 1..N : n \in Valued(items) <=> HasVal(items[n])
    BY ValuedIs
  <1>2. /\ f \in [0..N -> TableText] /\ f[0] = <<>>
        /\ \A n \in 1..N :
              f[n] = IF HasVal(items[n])
                     THEN T!Merge(f[n - 1], Meaning(items[n].name),
                                  Meaning(items[n].value))
                     ELSE f[n - 1]
    BY DEF Merged
  <1> HIDE DEF N
  <1>3. Meant(0)
    <2>1. Len(f[0]) = 0 /\ 1..0 = {}
      BY <1>2
    <2>2. \A m \in FirstOfName(items) : ~ (m <= 0)
      BY <1>1 DEF FirstOfName
    <2>3. [k \in 1..0 |-> 0] \in [1..0 -> FirstOfName(items)]
      BY <2>1
    <2>4. MeantTo(items, 0, f[0], [k \in 1..0 |-> 0])
      BY <2>1, <2>2, <2>3 DEF MeantTo
    <2> QED BY <2>4
  <1>4. ASSUME NEW n \in 1..N, Meant(n - 1) PROVE Meant(n)
    <2>1. PICK order : MeantTo(items, n - 1, f[n - 1], order)
      BY <1>4
    <2>2. n - 1 \in 0..N
      BY <1>1
    <2>3. f[n - 1] \in TableText /\ n \in 1..Len(items)
      BY <1>2, <2>2 DEF N
    <2> DEFINE name == Meaning(items[n].name)
    <2>4. CASE n \notin Valued(items)
      <3>1. f[n] = f[n - 1]
        BY <1>1, <1>2, <2>4
      <3>2. MeantTo(items, n, f[n - 1], order)
        BY <2>1, <2>3, <2>4, NoValueStep
      <3> QED BY <3>1, <3>2
    <2>5. CASE n \in Valued(items) /\ T!HasKey(f[n - 1], name)
      <3>1. f[n] = T!Merge(f[n - 1], Meaning(items[n].name), Meaning(items[n].value))
        BY <1>1, <1>2, <2>5
      <3>2. MeantTo(items, n, T!Merge(f[n - 1], Meaning(items[n].name),
                                      Meaning(items[n].value)), order)
        BY <2>1, <2>3, <2>5, AgainStep
      <3> QED BY <3>1, <3>2
    <2>6. CASE n \in Valued(items) /\ ~ T!HasKey(f[n - 1], name)
      <3>1. f[n] = T!Merge(f[n - 1], Meaning(items[n].name), Meaning(items[n].value))
        BY <1>1, <1>2, <2>6
      <3>2. \E next : MeantTo(items, n, T!Merge(f[n - 1], Meaning(items[n].name),
                                                Meaning(items[n].value)), next)
        BY <2>1, <2>3, <2>6, NewStep
      <3> QED BY <3>1, <3>2
    <2> QED BY <2>4, <2>5, <2>6
  <1> HIDE DEF Meant
  <1>5. good = 0..N
    <2>1. good \in SUBSET (0..N) /\ 0 \in good
      BY <1>1, <1>3
    <2>2. \A n \in 1..N : n - 1 \in good => n \in good
      BY <1>1, <1>4
    <2> HIDE DEF good
    <2> QED BY <1>1, <2>1, <2>2, Induction
  <1>6. Meant(N)
    <2>1. N \in 0..N
      BY <1>1
    <2> QED BY <1>5, <2>1
  <1> QED BY <1>6 DEF Meant, N

(* What is parsed from the items is what they mean.                        *)
LEMMA ParsedIsMeant ==
    ASSUME NEW items \in Seq(Item)
    PROVE  LET t == ParseQueryString(Joined(items))
           IN  MeantBy(items, T!Keys(t), T!Values(t))
  <1> DEFINE t == ParseQueryString(Joined(items))
             M == Len(t)
             F == FirstOfName(items)
             keys == T!Keys(t)
             values == T!Values(t)
  <1>1. PICK f : Merged(items, f) /\ t = f[Len(items)]
    BY MergedIs
  <1>2. PICK order : MeantTo(items, Len(items), t, order)
    BY <1>1, MergedMeant
  <1>3. t \in TableText
    BY ParsedTyped
  <1>4. M \in Nat /\ DOMAIN t = 1..M
    BY <1>3, LenProperties DEF TableText
  <1>5. \A k \in 1..M : t[k] \in [key : Text, val : Text]
    BY <1>3, ElementOfSeq DEF TableText
  <1>6. T!Walk(t) = t
    BY <1>3, WalkIs DEF TableText
  <1> HIDE DEF t
  <1>7. keys = [k \in 1..M |-> t[k].key] /\ values = [k \in 1..M |-> t[k].val]
    BY <1>4, <1>6 DEF T!Keys, T!Values
  <1>8. /\ keys \in Seq(Text) /\ Len(keys) = M
        /\ values \in Seq(Text) /\ Len(values) = M
    BY <1>4, <1>5, <1>7, SeqDef
  <1>9. DOMAIN keys = 1..M
    BY <1>7
  <1>10. \A k \in 1..M : keys[k] = t[k].key /\ values[k] = t[k].val
    BY <1>7
  <1>11. /\ order \in [1..M -> F]
         /\ \A m \in F : m <= Len(items) => \E k \in 1..M : order[k] = m
         /\ \A k, l \in 1..M : k < l => order[k] < order[l]
         /\ \A k \in 1..M : /\ t[k].key = Meaning(items[order[k]].name)
                            /\ t[k].val = ValuesTo(items, order[k])[Len(items)]
    BY <1>2 DEF MeantTo
  <1>12. \A m \in F : m <= Len(items)
    BY ValuedIs DEF FirstOfName
  <1>13. F = {order[k] : k \in 1..M}
    BY <1>11, <1>12
  <1>14. \A k \in 1..M : values[k] = ValuesAt(items, SameName(items, order[k]))
    <2>1. \A m : ValuesAt(items, SameName(items, m)) = ValuesTo(items, m)[Len(items)]
      BY ValuesToIs
    <2> QED BY <1>10, <1>11, <2>1
  <1>15. \A k \in 1..M : keys[k] = Meaning(items[order[k]].name)
    BY <1>10, <1>11
  <1> HIDE DEF keys, values, F, M
  <1>16. MeantBy(items, keys, values)
    BY <1>8, <1>9, <1>11, <1>13, <1>14, <1>15 DEF MeantBy, F
  <1> QED BY <1>16 DEF keys, values, t

(* The keys and values of a parsed table are one of each for a name the    *)
(* client gave a value, as it is spelled first and in the order of these   *)
(* spellings, with all its values, decoded and in their order, whatever    *)
(* the items in between (request.cpp:352-377, util.cpp:34-149,             *)
(* ruby_apr_table.cpp:140-170).                                            *)
THEOREM QueriesMeant == Spec => []ParsedAsMeant
  <1>1. ASSUME TypeOK PROVE ParsedAsMeant
    <2>1. form \in Seq(Item) /\ query \in Seq(Item)
      BY <1>1 DEF TypeOK
    <2>2. /\ type = "form" => Parsed("params") = ParseQueryString(Joined(form))
          /\ Parsed("queries") = ParseQueryString(Joined(query))
      BY DEF Parsed, ParsedForm
    <2> QED BY <2>1, <2>2, ParsedIsMeant DEF ParsedAsMeant
  <1> QED BY <1>1, TablesTyped, PTL

---------------------------------------------------------------------------
(* Look-ups.                                                               *)

(* Nothing is left of a table only if it has no entry at those places.     *)
LEMMA OnlyNone ==
    ASSUME NEW E, NEW t \in Seq(E), NEW places, T!Only(t, places) = <<>>
    PROVE  \A n \in 1..Len(t) : n \notin places
  <1> DEFINE N == Len(t)
  <1>1. N \in Nat /\ \A n \in 1..N : t[n] \in E
    BY LenProperties, ElementOfSeq
  <1>2. PICK f \in [0..N -> Seq(E)] :
           /\ T!Only(t, places) = f[N]
           /\ f[0] = <<>>
           /\ \A n \in 1..N :
                 f[n] = IF n \in places THEN Append(f[n - 1], t[n]) ELSE f[n - 1]
    BY OnlyIs
  <1> HIDE DEF N
  <1> DEFINE Good(n) == f[n] = <<>> => \A m \in 1..n : m \notin places
             good == {n \in 0..N : Good(n)}
  <1>3. Good(0)
    OBVIOUS
  <1>4. ASSUME NEW n \in 1..N, Good(n - 1) PROVE Good(n)
    <2>1. n - 1 \in 0..N
      BY <1>1
    <2>2. f[n - 1] \in Seq(E) /\ t[n] \in E
      BY <1>1, <1>2, <2>1
    <2>3. CASE n \in places
      <3>1. f[n] = Append(f[n - 1], t[n])
        BY <1>2, <2>3
      <3>2. Append(f[n - 1], t[n]) # <<>>
        BY <2>2, AppendProperties
      <3> QED BY <3>1, <3>2
    <2>4. CASE n \notin places
      <3>1. f[n] = f[n - 1]
        BY <1>2, <2>4
      <3>2. \A m \in 1..n : m = n \/ m \in 1..n - 1
        BY <1>1
      <3> QED BY <1>4, <2>4, <3>1, <3>2
    <2> QED BY <2>3, <2>4
  <1> HIDE DEF Good
  <1>5. good = 0..N
    <2>1. good \in SUBSET (0..N) /\ 0 \in good
      BY <1>1, <1>3
    <2>2. \A n \in 1..N : n - 1 \in good => n \in good
      BY <1>1, <1>4
    <2> HIDE DEF good
    <2> QED BY <1>1, <2>1, <2>2, Induction
  <1>6. Good(N)
    <2>1. N \in 0..N
      BY <1>1
    <2> QED BY <1>5, <2>1
  <1> QED BY <1>2, <1>6 DEF Good, N

(* The entries of exactly a name: none, or the first is an entry.          *)
LEMMA ExactlyIs ==
    ASSUME NEW t \in TableText, NEW name
    PROVE  \/ /\ Vals(Exactly(t, name)) = <<>>
              /\ \A n \in 1..Len(t) : t[n].key # name
           \/ /\ Vals(Exactly(t, name)) # <<>>
              /\ \E n \in 1..Len(t) :
                    t[n].key = name /\ Head(Vals(Exactly(t, name))) = t[n].val
  <1> DEFINE s == Exactly(t, name)
             places == {n \in DOMAIN t : t[n].key = name}
             vals == Vals(s)
             E == [key : Text, val : Text]
  <1>1. t \in Seq(E) /\ TableText = Seq(E) /\ s = T!Only(t, places)
    BY DEF TableText, Exactly
  <1>2. Len(t) \in Nat /\ DOMAIN t = 1..Len(t)
    BY <1>1, LenProperties
  <1>3. \A n \in places : n \in 1..Len(t) /\ t[n].key = name
    BY <1>2
  <1>4. \A n \in 1..Len(t) : t[n].key = name => n \in places
    BY <1>2
  <1> HIDE DEF E, places, s
  <1>5. /\ s \in Seq(E)
        /\ \A i \in 1..Len(s) : \E n \in 1..Len(t) : n \in places /\ s[i] = t[n]
    BY <1>1, OnlyAt
  <1>6. Len(s) \in Nat /\ DOMAIN s = 1..Len(s)
    BY <1>5, LenProperties
  <1>7. vals = [i \in 1..Len(s) |-> s[i].val]
    BY <1>6 DEF Vals
  <1>8. \A i \in 1..Len(s) : s[i].val \in Text
    <2>1. \A i \in 1..Len(s) : s[i] \in E
      BY <1>5, ElementOfSeq
    <2> QED BY <2>1 DEF E
  <1>9. vals \in Seq(Text) /\ Len(vals) = Len(s)
    BY <1>6, <1>7, <1>8, SeqDef
  <1>10. CASE Len(s) = 0
    <2>1. vals = <<>>
      BY <1>9, <1>10, EmptySeq
    <2>2. \A n \in 1..Len(t) : n \notin places
      BY <1>1, <1>5, <1>6, <1>10, OnlyNone
    <2> QED BY <1>4, <2>1, <2>2 DEF s
  <1>11. CASE Len(s) # 0
    <2>1. 1 \in 1..Len(s)
      BY <1>6, <1>11
    <2>2. PICK n \in 1..Len(t) : n \in places /\ s[1] = t[n]
      BY <1>5, <2>1
    <2>3. vals[1] = t[n].val
      BY <1>7, <2>1, <2>2
    <2> HIDE DEF vals
    <2>4. vals # <<>> /\ Head(vals) = vals[1]
      BY <1>9, <1>11
    <2> QED BY <1>3, <2>2, <2>3, <2>4 DEF vals, s
  <1> QED BY <1>10, <1>11

(* A parsed table has an entry for a name if and only if the items know    *)
(* it, and for a name as it is spelled what they give it.                  *)
LEMMA ParsedAnswers ==
    ASSUME NEW items \in Seq(Item), NEW name, NEW t,
           t = ParseQueryString(Joined(items))
    PROVE  /\ T!HasKey(t, name) <=> KnownIn(items, name)
           /\ \/ Vals(Exactly(t, name)) = <<>> /\ GivenIn(items, name) = {}
              \/ /\ Vals(Exactly(t, name)) # <<>>
                 /\ Head(Vals(Exactly(t, name))) \in GivenIn(items, name)
  <1> DEFINE M == Len(t)
             F == FirstOfName(items)
  <1>1. PICK order : MeantTo(items, Len(items), t, order)
    <2>1. PICK f : Merged(items, f) /\ t = f[Len(items)]
      BY MergedIs
    <2> QED BY <2>1, MergedMeant
  <1>2. t \in TableText
    BY ParsedTyped
  <1>3. \A m \in F : m <= Len(items) /\ m \in Valued(items)
    BY ValuedIs DEF FirstOfName
  <1>4. /\ \A k \in 1..M : order[k] \in F
        /\ \A m \in F : \E k \in 1..M : order[k] = m
        /\ \A k \in 1..M : /\ t[k].key = Meaning(items[order[k]].name)
                           /\ t[k].val = ValuesAt(items, SameName(items, order[k]))
    <2>1. \A m : ValuesAt(items, SameName(items, m)) = ValuesTo(items, m)[Len(items)]
      BY ValuesToIs
    <2> QED BY <1>1, <1>3, <2>1 DEF MeantTo
  <1>5. T!HasKey(t, name) => KnownIn(items, name)
    <2>1. SUFFICES ASSUME T!HasKey(t, name) PROVE KnownIn(items, name)
      OBVIOUS
    <2>2. PICK k \in 1..M : T!Same(t[k].key, name)
      BY <1>2, <2>1, FirstIs
    <2>3. order[k] \in Valued(items) /\ T!Same(Meaning(items[order[k]].name), name)
      BY <1>3, <1>4, <2>2
    <2> QED BY <2>3 DEF KnownIn
  <1>6. KnownIn(items, name) => T!HasKey(t, name)
    <2>1. SUFFICES ASSUME KnownIn(items, name) PROVE T!HasKey(t, name)
      OBVIOUS
    <2>2. PICK n \in Valued(items) : T!Same(Meaning(items[n].name), name)
      BY <2>1 DEF KnownIn
    <2>3. PICK m \in F : T!Same(Meaning(items[m].name), Meaning(items[n].name))
      BY FirstExists DEF SameName
    <2>4. PICK k \in 1..M : order[k] = m
      BY <1>4, <2>3
    <2>5. T!Same(t[k].key, name)
      BY <1>4, <2>2, <2>3, <2>4 DEF T!Same
    <2> QED BY <1>2, <2>5, FirstIs
  <1>7. CASE \A k \in 1..M : t[k].key # name
    <2>1. \A m \in F : Meaning(items[m].name) # name
      BY <1>4, <1>7
    <2>2. GivenIn(items, name) = {}
      BY <2>1 DEF GivenIn
    <2>3. Vals(Exactly(t, name)) = <<>>
      BY <1>2, <1>7, ExactlyIs
    <2> QED BY <1>5, <1>6, <2>2, <2>3
  <1>8. CASE \E k \in 1..M : t[k].key = name
    <2>1. Vals(Exactly(t, name)) # <<>>
      BY <1>2, <1>8, ExactlyIs
    <2>2. PICK k \in 1..M : t[k].key = name /\ Head(Vals(Exactly(t, name))) = t[k].val
      BY <1>2, <2>1, ExactlyIs
    <2>3. order[k] \in {m \in F : Meaning(items[m].name) = name}
      BY <1>4, <2>2
    <2>4. t[k].val \in GivenIn(items, name)
      BY <1>4, <2>3 DEF GivenIn
    <2> QED BY <1>5, <1>6, <2>1, <2>2, <2>4
  <1> QED BY <1>7, <1>8

(* Until a script changes a table, every table it used is as it was        *)
(* parsed; and only a form has items.                                      *)
AsParsed ==
    /\ type # "form" => form = <<>>
    /\ changes = 0 => \A w \in Which : tables[w] \in {NULL, Parsed(w)}

LEMMA AsParsedStep ==
    ASSUME TypeOK, AsParsed, [Next]_vars
    PROVE  AsParsed'
  <1>1. type' = type /\ form' = form /\ query' = query
    BY DEF Next, vars, NextRequest, StepEach, YieldEntry, YieldWild, EndEach, LeaveEach,
           BeginEach, Clear, UnsetName, SetValue, AddValue, MergeValue, Change
  <1>2. \A w \in Which : Parsed(w)' = Parsed(w)
    BY <1>1 DEF Parsed, ParsedForm
  <1>3. CASE NextRequest
    <2>1. \A w \in Which : tables'[w] \in {NULL, Parsed(w)}
      BY <1>3 DEF NextRequest, NoTables, Parsed
    <2> QED BY <1>1, <1>2, <2>1 DEF AsParsed
  <1>4. CASE \E w \in Touched : BeginEach(w)
    <2>1. PICK w \in Touched : BeginEach(w)
      BY <1>4
    <2>2. changes' = changes /\ tables' = [tables EXCEPT ![w] = Table(w)]
      BY <2>1 DEF BeginEach, Use
    <2>3. tables \in [Which -> TableText \union {NULL}]
      BY DEF TypeOK
    <2>4. \A v \in Which : tables'[v] \in {tables[v], Table(v)}
      BY <2>2, <2>3
    <2> QED BY <1>1, <1>2, <2>2, <2>4 DEF AsParsed, Table
  <1>5. CASE \E w \in Touched : \E t : Change(w, t)
    <2>1. changes' # 0
      BY <1>5, BoundsAreNats DEF Change, TypeOK
    <2> QED BY <1>1, <2>1 DEF AsParsed
  <1>6. CASE UNCHANGED <<tables, changes>>
    BY <1>1, <1>2, <1>6 DEF AsParsed
  <1> QED BY <1>3, <1>4, <1>5, <1>6
          DEF Next, vars, StepEach, YieldEntry, YieldWild, EndEach, LeaveEach,
              Clear, UnsetName, SetValue, AddValue, MergeValue

(* As long as the script changed no table, and through all its loops, a    *)
(* lookup answers from one source that has the name in any case: with all  *)
(* that the client gave it there, as meant, or with nil when that source   *)
(* spells it first in another case; never with a mixture of the form's and *)
(* the query's, and with nil only if no source has the name                *)
(* (request.rb:307-397, request.cpp:352-377).                              *)
THEOREM LookupsFind == Spec => []ValueAsGiven
  <1>1. Init => AsParsed
    BY DEF Init, NoTables, AsParsed, Parsed
  <1>2. ASSUME TypeOK, AsParsed PROVE ValueAsGiven
    <2> DEFINE Answers(name) ==
                  \/ \E items \in {form, query} :
                        /\ KnownIn(items, name)
                        /\ \/ ValueOf(name) \in GivenIn(items, name)
                           \/ GivenIn(items, name) = {} /\ ValueOf(name) = NULL
                  \/ T!HasKey(CGI, name) /\ ValueOf(name) = T!Get(CGI, name)
                  \/ /\ \A items \in {form, query} : ~ KnownIn(items, name)
                     /\ ~ T!HasKey(CGI, name)
                     /\ ValueOf(name) = NULL
    <2>1. SUFFICES ASSUME changes = 0, type # "other", NEW name \in Name
                   PROVE  Answers(name)
      BY DEF ValueAsGiven
    <2> DEFINE p == Table("params")
               q == Table("queries")
    <2>2. form \in Seq(Item) /\ query \in Seq(Item)
      BY <1>2 DEF TypeOK
    <2>3. /\ p = ParsedForm /\ q = ParseQueryString(Joined(query))
          /\ Table("cgi") = CGI
      BY <1>1, <1>2, <2>1 DEF AsParsed, Table, Parsed, Which
    <2> HIDE DEF p, q
    <2>4. T!HasKey(p, name) => type = "form"
      <3>1. CASE type = "none"
        <4>1. p = <<>> /\ <<>> \in TableText
          BY <2>3, <3>1, EmptySeq DEF ParsedForm, TableText
        <4>2. Len(p) = 0
          BY <4>1
        <4> QED BY <4>1, <4>2, FirstIs
      <3> QED BY <1>2, <2>1, <3>1 DEF TypeOK, Type
    <2>5. type = "form" => p = ParseQueryString(Joined(form))
      BY <2>3 DEF ParsedForm
    <2>6. type # "form" => ~ KnownIn(form, name)
      <3>1. type # "form" => Len(form) = 0
        BY <1>2 DEF AsParsed
      <3>2. Valued(form) \subseteq 1..Len(form)
        BY <2>2, ValuedIs
      <3>3. type # "form" => Valued(form) = {}
        BY <3>1, <3>2
      <3> QED BY <3>3 DEF KnownIn
    <2>7. T!HasKey(p, name) <=> KnownIn(form, name)
      BY <1>2, <2>1, <2>2, <2>4, <2>5, <2>6, ParsedAnswers DEF TypeOK, Type
    <2>8. T!HasKey(q, name) <=> KnownIn(query, name)
      BY <2>2, <2>3, ParsedAnswers
    <2>9. HasValue(name) <=> \/ T!HasKey(p, name) \/ T!HasKey(q, name)
                             \/ T!HasKey(CGI, name)
      BY <2>3 DEF HasValue, Which, p, q
    <2>10. CASE T!HasKey(p, name)
      <3>1. ValuesOf(name) = Vals(Exactly(p, name))
        BY <2>10 DEF ValuesOf, p
      <3>2. \/ Vals(Exactly(p, name)) = <<>> /\ GivenIn(form, name) = {}
            \/ /\ Vals(Exactly(p, name)) # <<>>
               /\ Head(Vals(Exactly(p, name))) \in GivenIn(form, name)
        BY <2>2, <2>4, <2>5, <2>10, ParsedAnswers
      <3>3. \/ ValueOf(name) \in GivenIn(form, name)
            \/ GivenIn(form, name) = {} /\ ValueOf(name) = NULL
        BY <2>9, <2>10, <3>1, <3>2 DEF ValueOf
      <3> QED BY <2>7, <2>10, <3>3
    <2>11. CASE ~ T!HasKey(p, name) /\ T!HasKey(q, name)
      <3>1. ValuesOf(name) = Vals(Exactly(q, name))
        BY <2>11 DEF ValuesOf, p, q
      <3>2. \/ Vals(Exactly(q, name)) = <<>> /\ GivenIn(query, name) = {}
            \/ /\ Vals(Exactly(q, name)) # <<>>
               /\ Head(Vals(Exactly(q, name))) \in GivenIn(query, name)
        BY <2>2, <2>3, ParsedAnswers
      <3>3. \/ ValueOf(name) \in GivenIn(query, name)
            \/ GivenIn(query, name) = {} /\ ValueOf(name) = NULL
        BY <2>9, <2>11, <3>1, <3>2 DEF ValueOf
      <3> QED BY <2>8, <2>11, <3>3
    <2>12. CASE /\ ~ T!HasKey(p, name) /\ ~ T!HasKey(q, name)
                /\ T!HasKey(CGI, name)
      <3>1. ValuesOf(name) = <<T!Get(CGI, name)>>
        BY <2>3, <2>12 DEF ValuesOf, p, q
      <3>2. ValueOf(name) = T!Get(CGI, name)
        BY <2>9, <2>12, <3>1 DEF ValueOf
      <3> QED BY <2>12, <3>2
    <2>13. CASE ~ HasValue(name)
      <3>1. ValueOf(name) = NULL
        BY <2>13 DEF ValueOf
      <3> QED BY <2>7, <2>8, <2>9, <2>13, <3>1
    <2> QED BY <2>9, <2>10, <2>11, <2>12, <2>13
  <1> QED BY <1>1, <1>2, AsParsedStep, TablesTyped, PTL DEF Spec

===========================================================================
