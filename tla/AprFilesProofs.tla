-------------------------- MODULE AprFilesProofs --------------------------
(***************************************************************************)
(* Theorems of AprFiles and of the Md5 it uses, for any tree of paths, any *)
(* sizes of blocks and words that fit, and any lengths of files and reads. *)
(***************************************************************************)
EXTENDS AprFiles, SequenceTheorems, TLAPS

---------------------------------------------------------------------------
(* The directories above a path.                                           *)

(* A set of paths with the directories above them.                         *)
Upward(S) == \A q \in S : ParentOf[q] # NULL => ParentOf[q] \in S

(* The equation of AboveOf has a solution: what is in every upward set.    *)
LEMMA AboveExists ==
    \E f : f = [q \in Path \union {NULL} |->
                   IF q = NULL THEN {} ELSE {q} \union f[ParentOf[q]]]
  <1> DEFINE D == Path \union {NULL}
             g == [q \in D |-> {r \in Path :
                      q # NULL /\ \A S \in SUBSET Path : q \in S /\ Upward(S) => r \in S}]
  <1>1. \A q \in Path : ParentOf[q] \in D
    BY ParentsArePaths
  <1>2. \A q \in D : \A r : r \in g[q] <=>
           /\ r \in Path /\ q # NULL
           /\ \A S \in SUBSET Path : q \in S /\ Upward(S) => r \in S
    OBVIOUS
  <1>3. g = [q \in D |-> g[q]]
    OBVIOUS
  <1> HIDE DEF g
  <1>4. ASSUME NEW q \in Path PROVE g[q] = {q} \union g[ParentOf[q]]
    <2> DEFINE p == ParentOf[q]
    <2>1. q \in D /\ q # NULL /\ p \in D
      BY <1>1, NullIsNoPath
    <2>2. ASSUME NEW r \in g[q], r # q PROVE r \in g[p]
      <3>1. r \in Path /\ \A S \in SUBSET Path : q \in S /\ Upward(S) => r \in S
        BY <1>2, <2>1
      <3>2. p # NULL
        <4>1. CASE p = NULL
          <5>1. Upward({q}) /\ {q} \in SUBSET Path
            BY <4>1 DEF Upward
          <5> QED BY <2>2, <3>1, <5>1
        <4> QED BY <4>1
      <3>3. ASSUME NEW S \in SUBSET Path, p \in S, Upward(S) PROVE r \in S
        <4>1. Upward(S \union {q}) /\ S \union {q} \in SUBSET Path
          BY <3>3 DEF Upward
        <4>2. r \in S \union {q}
          BY <3>1, <4>1
        <4> QED BY <2>2, <4>2
      <3> QED BY <1>2, <2>1, <3>1, <3>2, <3>3
    <2>3. q \in g[q]
      BY <1>2, <2>1
    <2>4. ASSUME NEW r \in g[p] PROVE r \in g[q]
      <3>1. /\ r \in Path /\ p # NULL
            /\ \A S \in SUBSET Path : p \in S /\ Upward(S) => r \in S
        BY <1>2, <2>1
      <3>2. \A S \in SUBSET Path : q \in S /\ Upward(S) => r \in S
        BY <3>1 DEF Upward
      <3> QED BY <1>2, <2>1, <3>1, <3>2
    <2> QED BY <2>2, <2>3, <2>4
  <1>5. g[NULL] = {}
    BY <1>2
  <1>6. g = [q \in D |-> IF q = NULL THEN {} ELSE {q} \union g[ParentOf[q]]]
    <2>1. \A q \in D : g[q] = IF q = NULL THEN {} ELSE {q} \union g[ParentOf[q]]
      BY <1>4, <1>5
    <2> QED BY <1>3, <2>1
  <1> QED BY <1>6

LEMMA AboveIs ==
    /\ AboveOf[NULL] = {}
    /\ \A q \in Path : AboveOf[q] = {q} \union AboveOf[ParentOf[q]]
  <1>1. AboveOf = [q \in Path \union {NULL} |->
                     IF q = NULL THEN {} ELSE {q} \union AboveOf[ParentOf[q]]]
    BY AboveExists DEF AboveOf
  <1> QED BY <1>1, NullIsNoPath

LEMMA AboveIsUpward ==
    ASSUME NEW p \in Path
    PROVE  p \in Above(p) /\ Upward(Above(p))
  <1> DEFINE bad == {x \in Path : ~ Upward(AboveOf[x])}
  <1>1. bad = {}
    <2> SUFFICES ASSUME bad # {} PROVE FALSE
      OBVIOUS
    <2>1. PICK x \in bad : ParentOf[x] \notin bad
      BY DirectoriesAreTrees
    <2> DEFINE y == ParentOf[x]
    <2>2. y \in Path \union {NULL} /\ AboveOf[x] = {x} \union AboveOf[y]
      BY AboveIs, ParentsArePaths
    <2>3. Upward(AboveOf[y])
      BY <2>1, <2>2, AboveIs DEF Upward
    <2>4. y # NULL => y \in AboveOf[y]
      BY <2>2, AboveIs
    <2>5. Upward(AboveOf[x])
      BY <2>2, <2>3, <2>4 DEF Upward
    <2> QED BY <2>1, <2>5
  <1> QED BY <1>1, AboveIs DEF Above

(* Where a path is nothing, so is all below it.                            *)
LEMMA NothingBelow ==
    ASSUME \A p \in Path : Exists(p) => HasPlace(p),
           NEW d \in Path, kind[d] = "none",
           NEW p \in Path, d \in Above(p)
    PROVE  kind[p] = "none"
  <1> DEFINE bad == {x \in Path : d \in AboveOf[x] /\ kind[x] # "none"}
  <1>1. bad = {}
    <2> SUFFICES ASSUME bad # {} PROVE FALSE
      OBVIOUS
    <2>1. PICK x \in bad : ParentOf[x] \notin bad
      BY DirectoriesAreTrees
    <2>2. d \in AboveOf[ParentOf[x]]
      BY <2>1, AboveIs
    <2>3. ParentOf[x] # NULL /\ ParentOf[x] \in Path
      BY <2>1, <2>2, AboveIs, ParentsArePaths
    <2>4. kind[ParentOf[x]] = "dir"
      BY <2>1, <2>3 DEF Exists, HasPlace
    <2> QED BY <2>1, <2>2, <2>3, <2>4
  <1> QED BY <1>1 DEF Above

---------------------------------------------------------------------------
(* Paths stay in directories.                                              *)

Placed == kind \in [Path -> Kind] /\ \A p \in Path : Exists(p) => HasPlace(p)

LEMMA MadeOrRemoved ==
    ASSUME Placed, NEW p \in Path, NEW k \in Kind, kind' = [kind EXCEPT ![p] = k],
           k # "none" => HasPlace(p),
           k # "dir" => Present(p) = {} \/ kind[p] # "dir"
    PROVE  Placed'
  <1>1. kind' \in [Path -> Kind] /\ kind'[p] = k
        /\ \A q \in Path : q # p => kind'[q] = kind[q]
    BY DEF Placed
  <1>2. ASSUME NEW q \in Path, kind'[q] # "none", ParentOf[q] # NULL
        PROVE  kind'[ParentOf[q]] = "dir"
    <2>1. ParentOf[q] \in Path
      BY <1>2, ParentsArePaths
    <2>2. kind[ParentOf[q]] = "dir"
      BY <1>1, <1>2 DEF Placed, Exists, HasPlace
    <2>3. CASE ParentOf[q] # p
      BY <1>1, <2>1, <2>2, <2>3
    <2>4. CASE ParentOf[q] = p
      <3>1. CASE q = p
        <4>1. kind[p] = "none" => k = "dir" \/ p \in Path
          OBVIOUS
        <4>2. kind[p] = "dir"
          BY <2>2, <2>4
        <4>3. p \in Present(p)
          BY <2>4, <3>1, <4>2 DEF Present, Children, Exists
        <4> QED BY <1>1, <2>4, <4>2, <4>3
      <3>2. CASE q # p
        <4>1. kind[q] # "none"
          BY <1>1, <1>2, <3>2
        <4>2. q \in Present(p)
          BY <2>4, <4>1 DEF Present, Children, Exists
        <4> QED BY <1>1, <2>2, <2>4, <4>2
      <3> QED BY <3>1, <3>2
    <2> QED BY <2>3, <2>4
  <1> QED BY <1>1, <1>2 DEF Placed, Exists, HasPlace

LEMMA FileMoved ==
    ASSUME Placed, NEW p \in Path, NEW q \in Path, p # q, kind[p] = "file",
           kind[q] # "dir", HasPlace(q),
           kind' = [kind EXCEPT ![p] = "none", ![q] = "file"]
    PROVE  Placed'
  <1>1. kind' \in [Path -> Kind] /\ kind'[p] = "none" /\ kind'[q] = "file"
        /\ \A r \in Path : r # p /\ r # q => kind'[r] = kind[r]
    BY DEF Placed, Kind
  <1>2. ASSUME NEW r \in Path, kind'[r] # "none", ParentOf[r] # NULL
        PROVE  kind'[ParentOf[r]] = "dir"
    <2>1. ParentOf[r] \in Path
      BY <1>2, ParentsArePaths
    <2>2. kind[ParentOf[r]] = "dir"
      BY <1>1, <1>2 DEF Placed, Exists, HasPlace
    <2> QED BY <1>1, <2>1, <2>2
  <1> QED BY <1>1, <1>2 DEF Placed, Exists, HasPlace

LEMMA DirectoriesMade ==
    ASSUME Placed, NEW p \in Path,
           kind' = [q \in Path |-> IF q \in Above(p) THEN "dir" ELSE kind[q]]
    PROVE  Placed'
  <1>1. kind' \in [Path -> Kind]
    BY DEF Placed, Kind
  <1>2. ASSUME NEW q \in Path, kind'[q] # "none", ParentOf[q] # NULL
        PROVE  kind'[ParentOf[q]] = "dir"
    <2>1. ParentOf[q] \in Path
      BY <1>2, ParentsArePaths
    <2>2. CASE q \in Above(p)
      BY <1>2, <2>1, <2>2, AboveIsUpward DEF Upward
    <2>3. CASE q \notin Above(p)
      BY <1>2, <2>1, <2>3 DEF Placed, Exists, HasPlace
    <2> QED BY <2>2, <2>3
  <1> QED BY <1>1, <1>2 DEF Placed, Exists, HasPlace

---------------------------------------------------------------------------
(* The calls of rmdir.                                                     *)

LEMMA FrontOfSeq ==
    ASSUME NEW S, NEW s \in Seq(S), s # <<>>
    PROVE  /\ Len(s) \in Nat \ {0} /\ Last(s) = s[Len(s)] /\ Last(s) \in S
           /\ Front(s) \in Seq(S) /\ Len(Front(s)) = Len(s) - 1
           /\ \A n \in 1..Len(s) - 1 : Front(s)[n] = s[n]
  <1>1. Len(s) \in Nat \ {0}
    BY EmptySeq, LenProperties
  <1>2. \A n \in 1..Len(s) : s[n] \in S
    BY ElementOfSeq
  <1>3. \A n \in 1..Len(s) - 1 : s[n] \in S
    BY <1>1, <1>2
  <1>4. /\ Front(s) \in Seq(S) /\ Len(Front(s)) = Len(s) - 1
        /\ \A n \in 1..Len(s) - 1 : Front(s)[n] = s[n]
    <2> DEFINE m == Len(s) - 1
    <2>1. m \in Int /\ 1 \in Int /\ m >= 0 /\ Front(s) = SubSeq(s, 1, m)
      BY <1>1 DEF Front
    <2>2. \A n \in 1..m : s[n] \in S
      BY <1>3
    <2> HIDE DEF m
    <2>3. /\ Front(s) \in Seq(S) /\ Len(Front(s)) = IF 1 <= m THEN m - 1 + 1 ELSE 0
          /\ \A n \in 1..m - 1 + 1 : Front(s)[n] = s[1 + n - 1]
      BY <2>1, <2>2, SubSeqProperties
    <2>4. /\ Len(Front(s)) = m
          /\ \A n \in 1..m : Front(s)[n] = s[n]
      BY <2>1, <2>3
    <2> QED BY <2>3, <2>4 DEF m
  <1> QED BY <1>1, <1>2, <1>4 DEF Last

LEMMA Innermost ==
    ASSUME stack \in Seq(Frame), stack # <<>>
    PROVE  /\ Len(stack) \in Nat \ {0}
           /\ Top = stack[Len(stack)] /\ Top \in Frame
           /\ Outer \in Seq(Frame) /\ Len(Outer) = Len(stack) - 1
           /\ \A n \in 1..Len(stack) - 1 : Outer[n] = stack[n]
           /\ \A f \in Frame :
                 /\ Here(f) \in Seq(Frame) /\ Len(Here(f)) = Len(stack)
                 /\ Here(f)[Len(stack)] = f
                 /\ \A n \in 1..Len(stack) - 1 : Here(f)[n] = stack[n]
  <1>1. /\ Len(stack) \in Nat \ {0} /\ Last(stack) = stack[Len(stack)]
        /\ Last(stack) \in Frame
        /\ Front(stack) \in Seq(Frame) /\ Len(Front(stack)) = Len(stack) - 1
        /\ \A n \in 1..Len(stack) - 1 : Front(stack)[n] = stack[n]
    BY FrontOfSeq
  <1>3. /\ Outer \in Seq(Frame) /\ Len(Outer) = Len(stack) - 1
        /\ \A n \in 1..Len(stack) - 1 : Outer[n] = stack[n]
    BY <1>1 DEF Outer
  <1>4. Top = stack[Len(stack)] /\ Top \in Frame
    BY <1>1 DEF Top
  <1>5. ASSUME NEW f \in Frame
        PROVE  /\ Here(f) \in Seq(Frame) /\ Len(Here(f)) = Len(stack)
               /\ Here(f)[Len(stack)] = f
               /\ \A n \in 1..Len(stack) - 1 : Here(f)[n] = stack[n]
    <2>1. /\ Here(f) \in Seq(Frame) /\ Len(Here(f)) = Len(Outer) + 1
          /\ Here(f)[Len(Outer) + 1] = f
          /\ \A n \in 1..Len(Outer) : Here(f)[n] = Outer[n]
      BY <1>3, AppendProperties DEF Here
    <2> QED BY <1>1, <1>3, <2>1
  <1> QED BY <1>1, <1>3, <1>4, <1>5

(* What a call has still to read is in its directory, and only the         *)
(* innermost may not have recursed, or have closed its directory.          *)
Nested(s) ==
    /\ s \in Seq(Frame)
    /\ \A n \in 1..Len(s) : s[n].due \subseteq Children(s[n].path)
    /\ \A n \in 1..Len(s) - 1 : s[n].recursed /\ ~ s[n].closed

LEMMA NestedOuter ==
    ASSUME Nested(stack), stack # <<>>
    PROVE  Nested(Outer) /\ Nested(<<>>) /\ Len(Outer) = Len(stack) - 1
  <1>1. /\ Len(stack) \in Nat \ {0}
        /\ Outer \in Seq(Frame) /\ Len(Outer) = Len(stack) - 1
        /\ \A n \in 1..Len(stack) - 1 : Outer[n] = stack[n]
    BY Innermost DEF Nested
  <1>2. Nested(Outer)
    <2>1. ASSUME NEW n \in 1..Len(stack) - 1
          PROVE  Outer[n].due \subseteq Children(Outer[n].path)
      <3>1. Outer[n] = stack[n] /\ n \in 1..Len(stack)
        BY <1>1
      <3> QED BY <3>1 DEF Nested
    <2>2. \A n \in 1..(Len(stack) - 1) - 1 : Outer[n].recursed /\ ~ Outer[n].closed
      BY <1>1 DEF Nested
    <2> QED BY <1>1, <2>1, <2>2 DEF Nested
  <1>3. Nested(<<>>)
    BY EmptySeq DEF Nested
  <1> QED BY <1>1, <1>2, <1>3

(* The innermost call goes on as f.                                        *)
LEMMA NestedHere ==
    ASSUME Nested(stack), stack # <<>>, NEW f \in Frame,
           f.path = Top.path, f.due \subseteq Top.due
    PROVE  Nested(Here(f)) /\ Len(Here(f)) = Len(stack)
  <1> DEFINE s == Here(f)
             n == Len(stack)
  <1>1. /\ n \in Nat \ {0} /\ Top = stack[n]
        /\ s \in Seq(Frame) /\ Len(s) = n /\ s[n] = f
        /\ \A k \in 1..n - 1 : s[k] = stack[k]
    BY Innermost DEF Nested
  <1>0. n = Len(stack)
    OBVIOUS
  <1> HIDE DEF s, n
  <1>2. \A k \in 1..n : s[k].path = stack[k].path /\ s[k].due \subseteq stack[k].due
    BY <1>1
  <1>3. \A k \in 1..n : s[k].due \subseteq Children(s[k].path)
    BY <1>0, <1>2 DEF Nested
  <1>4. \A k \in 1..n - 1 : s[k].recursed /\ ~ s[k].closed
    BY <1>0, <1>1 DEF Nested
  <1>5. Nested(s)
    BY <1>1, <1>3, <1>4 DEF Nested
  <1> QED BY <1>0, <1>1, <1>5 DEF s

(* A call of rmdir by the innermost one.                                   *)
LEMMA NestedDeeper ==
    ASSUME NEW s, Nested(s), s # <<>>, s[Len(s)].recursed, ~ s[Len(s)].closed,
           NEW f \in Frame, f.due \subseteq Children(f.path)
    PROVE  Nested(Append(s, f)) /\ Len(Append(s, f)) = Len(s) + 1
  <1> DEFINE t == Append(s, f)
             n == Len(s)
  <1>1. /\ n \in Nat /\ n >= 1
    BY EmptySeq, LenProperties DEF Nested
  <1>2. /\ t \in Seq(Frame) /\ Len(t) = n + 1 /\ t[n + 1] = f
        /\ \A k \in 1..n : t[k] = s[k]
    BY AppendProperties DEF Nested
  <1>0. n = Len(s)
    OBVIOUS
  <1> HIDE DEF t, n
  <1>3. ASSUME NEW k \in 1..n + 1
        PROVE  t[k].due \subseteq Children(t[k].path)
    <2>1. CASE k = n + 1
      BY <1>2, <2>1
    <2>2. CASE k # n + 1
      <3>1. k \in 1..n
        BY <1>1, <2>2
      <3> QED BY <1>0, <1>2, <3>1 DEF Nested
    <2> QED BY <2>1, <2>2
  <1>4. ASSUME NEW k \in 1..n PROVE t[k].recursed /\ ~ t[k].closed
    <2>1. CASE k = n
      BY <1>0, <1>2, <2>1
    <2>2. CASE k # n
      <3>1. k \in 1..n - 1
        BY <1>1, <2>2
      <3> QED BY <1>0, <1>2, <3>1 DEF Nested
    <2> QED BY <2>1, <2>2
  <1>5. (n + 1) - 1 = n
    BY <1>1
  <1>6. Nested(t)
    BY <1>2, <1>3, <1>4, <1>5 DEF Nested
  <1> QED BY <1>0, <1>2, <1>6 DEF t

(* Each call of s that has not closed its directory has one of h handles,  *)
(* and a call that has not recursed the first after those there were.      *)
OpenOf(s) == IF s # <<>> /\ s[Len(s)].closed THEN Len(s) - 1 ELSE Len(s)
Handled(s, h) ==
    /\ h \in OpenOf(s)..MaxHandles
    /\ s # <<>> /\ ~ s[1].recursed =>
          h = s[1].before + IF s[1].closed THEN 0 ELSE 1

LEMMA HandledIs ==
    ASSUME stack \in Seq(Frame)
    PROVE  /\ HeldOpen = OpenOf(stack)
           /\ Handled(stack, handles) => handles \in 0..MaxHandles
  <1>1. stack # <<>> => Top = stack[Len(stack)]
    BY Innermost
  <1>2. HeldOpen = OpenOf(stack)
    BY <1>1 DEF HeldOpen, OpenOf
  <1>3. OpenOf(stack) \in Nat
    <2>1. stack # <<>> => Len(stack) \in Nat \ {0}
      BY Innermost
    <2>2. stack = <<>> => Len(stack) = 0
      BY EmptySeq
    <2> QED BY <2>1, <2>2 DEF OpenOf
  <1>4. Handled(stack, handles) => handles \in 0..MaxHandles
    BY <1>3, BoundsAreNats DEF Handled
  <1> QED BY <1>2, <1>4

LEMMA HandledOuter ==
    ASSUME Nested(stack), stack # <<>>, Handled(stack, handles)
    PROVE  Handled(Outer, handles) /\ Handled(<<>>, handles)
  <1> DEFINE n == Len(stack)
  <1>1. /\ n \in Nat \ {0} /\ Len(Outer) = n - 1 /\ Outer \in Seq(Frame)
        /\ \A k \in 1..n - 1 : Outer[k] = stack[k]
    BY Innermost DEF Nested
  <1>0. n = Len(stack)
    OBVIOUS
  <1> HIDE DEF n
  <1>2. handles \in n - 1..MaxHandles /\ MaxHandles \in Nat
    BY <1>0, <1>1, BoundsAreNats DEF Handled, OpenOf
  <1>3. Handled(<<>>, handles)
    <2>1. OpenOf(<<>>) = 0
      BY EmptySeq DEF OpenOf
    <2> QED BY <1>1, <1>2, <2>1 DEF Handled
  <1>4. CASE Outer = <<>>
    BY <1>3, <1>4
  <1>5. CASE Outer # <<>>
    <2>1. n - 1 \in 1..n - 1 /\ 1 \in 1..n - 1
      <3>1. Len(Outer) # 0
        BY <1>1, <1>5, EmptySeq
      <3> QED BY <1>1, <3>1
    <2>2. Outer[1].recursed /\ ~ Outer[n - 1].closed
      BY <1>0, <1>1, <2>1 DEF Nested
    <2>3. OpenOf(Outer) = n - 1
      BY <1>1, <2>2 DEF OpenOf
    <2>4. handles \in OpenOf(Outer)..MaxHandles
      BY <1>2, <2>3
    <2>5. Outer[1].recursed
      BY <2>2
    <2> QED BY <1>3, <2>4, <2>5 DEF Handled
  <1> QED BY <1>3, <1>4, <1>5

(* The innermost call goes on as f, and has recursed or is as far.         *)
LEMMA HandledHere ==
    ASSUME Nested(stack), stack # <<>>, Handled(stack, handles), NEW f \in Frame,
           f.closed = Top.closed, f.before = Top.before,
           ~ f.recursed => ~ Top.recursed
    PROVE  Handled(Here(f), handles)
  <1> DEFINE n == Len(stack)
             s == Here(f)
  <1>1. /\ n \in Nat \ {0} /\ Top = stack[n]
        /\ s \in Seq(Frame) /\ Len(s) = n /\ s[n] = f
        /\ \A k \in 1..n - 1 : s[k] = stack[k]
    BY Innermost DEF Nested
  <1>0. n = Len(stack)
    OBVIOUS
  <1> HIDE DEF n, s
  <1>2. s # <<>>
    BY <1>1, EmptySeq
  <1>3. OpenOf(s) = OpenOf(stack)
    BY <1>0, <1>1, <1>2 DEF OpenOf
  <1>4. ~ s[1].recursed => ~ stack[1].recursed /\ s[1].closed = stack[1].closed
                           /\ s[1].before = stack[1].before
    <2>1. CASE n = 1
      BY <1>1, <2>1
    <2>2. CASE n # 1
      <3>1. 1 \in 1..n - 1
        BY <1>1, <2>2
      <3> QED BY <1>1, <3>1
    <2> QED BY <2>1, <2>2
  <1>5. Handled(s, handles)
    BY <1>3, <1>4 DEF Handled
  <1> QED BY <1>5 DEF s

LEMMA HandledDeeper ==
    ASSUME NEW s, Nested(s), s # <<>>, s[Len(s)].recursed, ~ s[Len(s)].closed,
           Handled(s, handles), handles < MaxHandles,
           NEW f \in Frame, ~ f.closed
    PROVE  Handled(Append(s, f), handles + 1)
  <1> DEFINE t == Append(s, f)
             n == Len(s)
  <1>1. n \in Nat /\ n >= 1
    BY EmptySeq, LenProperties DEF Nested
  <1>2. /\ t \in Seq(Frame) /\ Len(t) = n + 1 /\ t[n + 1] = f
        /\ \A k \in 1..n : t[k] = s[k]
    BY AppendProperties DEF Nested
  <1>0. n = Len(s)
    OBVIOUS
  <1> HIDE DEF t, n
  <1>3. t[1].recursed
    <2>1. CASE n = 1
      BY <1>0, <1>1, <1>2, <2>1
    <2>2. CASE n # 1
      <3>1. 1 \in 1..n - 1 /\ 1 \in 1..n
        BY <1>1, <2>2
      <3> QED BY <1>0, <1>2, <3>1 DEF Nested
    <2> QED BY <2>1, <2>2
  <1>4. OpenOf(t) = n + 1 /\ OpenOf(s) = n
    BY <1>0, <1>2 DEF OpenOf
  <1>5. handles + 1 \in n + 1..MaxHandles
    BY <1>1, <1>4, BoundsAreNats DEF Handled
  <1>6. Handled(t, handles + 1)
    BY <1>3, <1>4, <1>5 DEF Handled
  <1> QED BY <1>6 DEF t

---------------------------------------------------------------------------
(* The inductive invariant: what concerns the file system and the calls,   *)
(* apart from the md5.                                                     *)

Calls ==
    /\ Placed
    /\ Nested(stack)
    /\ status \in Status
    /\ Handled(stack, handles)
    /\ events \in 0..MaxEvents
    /\ info \in Info \union {NULL}

LEMMA FilesInvIs == FilesInv <=> Calls /\ HashInv /\ DigestIsOfBytes
  <1>1. HashInv /\ hashing # NULL =>
           /\ hashing.context.low \in 0..WORD - 1
           /\ hashing.context.high \in 0..WORD - 1
           /\ hashing.total \in 0..MaxBytes
    <2> SUFFICES ASSUME HashInv, hashing # NULL
                 PROVE  /\ hashing.context.low \in 0..WORD - 1
                        /\ hashing.context.high \in 0..WORD - 1
                        /\ hashing.total \in 0..MaxBytes
      OBVIOUS
    <2>1. hashing.total \in 0..MaxBytes
      BY DEF HashInv
    <2> QED BY <2>1 DEF HashInv, M!Took, M!Context
  <1>2. stack \in Seq(Frame) => HeldOpen = OpenOf(stack)
    BY HandledIs
  <1> QED BY <1>1, <1>2
          DEF FilesInv, TypeOK, Calls, Placed, Nested, Handled, CallsInv

LEMMA SameFiles ==
    ASSUME Placed, UNCHANGED kind
    PROVE  Placed'
  BY DEF Placed, Exists, HasPlace

LEMMA OpenedTyped ==
    ASSUME NEW p \in Path, handles \in 0..MaxHandles
    PROVE  /\ Opened(p) \in Frame /\ Opened(p).path = p
           /\ Opened(p).due \subseteq Children(p)
           /\ ~ Opened(p).closed /\ Opened(p).before = handles
           /\ Nested(<<Opened(p)>>) /\ Len(<<Opened(p)>>) = 1
  <1>1. /\ Opened(p) \in Frame /\ Opened(p).path = p
        /\ Opened(p).due \subseteq Children(p)
        /\ ~ Opened(p).closed /\ Opened(p).before = handles
    BY DEF Opened, Frame, Present, Children
  <1> DEFINE f == Opened(p)
             s == <<f>>
  <1>2. f \in Frame /\ f.path = p /\ f.due \subseteq Children(p)
    BY <1>1
  <1> HIDE DEF f
  <1>3. s \in Seq(Frame) /\ Len(s) = 1 /\ s[1] = f
    BY <1>2
  <1> HIDE DEF s
  <1>4. Nested(s)
    BY <1>2, <1>3 DEF Nested
  <1> QED BY <1>1, <1>3, <1>4 DEF s, f

LEMMA CallRmdirCalls ==
    ASSUME Calls, NEW p \in Path, CallRmdir(p)
    PROVE  Calls'
  <1>1. UNCHANGED <<kind, events, info>> /\ stack = <<>>
    BY DEF CallRmdir, Idle
  <1>2. CASE Opens(p)
    <2>1. stack' = <<Opened(p)>> /\ handles' = handles + 1 /\ status' = "ok"
          /\ handles < MaxHandles
      BY <1>2 DEF CallRmdir, Opens
    <2>2. handles \in 0..MaxHandles
      BY HandledIs DEF Calls, Nested
    <2>3. /\ Nested(stack') /\ Len(stack') = 1 /\ stack'[1] = Opened(p)
          /\ ~ Opened(p).closed /\ Opened(p).before = handles
      BY <2>1, <2>2, OpenedTyped
    <2>4. handles' \in 1..MaxHandles /\ handles' = handles + 1
      BY <2>1, <2>2, BoundsAreNats
    <2>5. Handled(stack', handles')
      <3>1. OpenOf(stack') = 1
        BY <2>3 DEF OpenOf
      <3> QED BY <2>3, <2>4, <3>1 DEF Handled
    <2> QED BY <1>1, <2>1, <2>3, <2>5 DEF Calls, Placed, Exists, HasPlace, Status
  <1>3. CASE ~ Opens(p)
    <2>1. status' = "error" /\ UNCHANGED <<stack, handles>>
      BY <1>3 DEF CallRmdir
    <2> QED BY <1>1, <2>1 DEF Calls, Placed, Exists, HasPlace, Status
  <1> QED BY <1>2, <1>3

(* A call returns.                                                         *)
LEMMA ReturnCalls ==
    ASSUME Nested(stack), stack # <<>>, Handled(stack, handles),
           NEW ok \in BOOLEAN, Return(ok), UNCHANGED handles
    PROVE  /\ Nested(stack') /\ Handled(stack', handles')
           /\ status' \in Status
           /\ ok => stack' = <<>> /\ status' = "ok"
           /\ ~ ok => status' = "error"
  <1>1. /\ Nested(Outer) /\ Nested(<<>>)
        /\ Handled(Outer, handles) /\ Handled(<<>>, handles)
    BY NestedOuter, HandledOuter
  <1>2. stack' = IF ok THEN <<>> ELSE Outer
    BY DEF Return, Returned
  <1>3. status' = IF ok THEN "ok" ELSE "error"
    BY DEF Return
  <1>4. CASE ok
    <2>1. stack' = <<>>
      BY <1>2, <1>4
    <2> QED BY <1>1, <1>3, <1>4, <2>1 DEF Status
  <1>5. CASE ~ ok
    <2>1. stack' = Outer
      BY <1>2, <1>5
    <2> QED BY <1>1, <1>3, <1>5, <2>1 DEF Status
  <1> QED BY <1>4, <1>5

(* What the innermost call read becomes part of its state.                 *)
LEMMA ReadTyped ==
    ASSUME Nested(stack), stack # <<>>, NEW c \in Path
    PROVE  /\ Read(c) \in Frame /\ Read(c).path = Top.path
           /\ Read(c).due \subseteq Top.due /\ Read(c).recursed = Top.recursed
           /\ Read(c).closed = Top.closed /\ Read(c).before = Top.before
  <1> SUFFICES ASSUME NEW t \in Frame, t = Top
               PROVE  /\ Read(c) \in Frame /\ Read(c).path = t.path
                      /\ Read(c).due \subseteq t.due /\ Read(c).recursed = t.recursed
                      /\ Read(c).closed = t.closed /\ Read(c).before = t.before
    BY Innermost DEF Nested
  <1> DEFINE g == [t EXCEPT !.due = @ \ {c}, !.seen = @ \union {c}]
  <1>1. Read(c) = g
    BY DEF Read
  <1>2. /\ g.path = t.path /\ g.due = t.due \ {c} /\ g.seen = t.seen \union {c}
        /\ g.recursed = t.recursed /\ g.closed = t.closed /\ g.before = t.before
    BY DEF Frame
  <1>3. g \in Frame
    BY DEF Frame
  <1> HIDE DEF g
  <1> QED BY <1>1, <1>2, <1>3

LEMMA RemoveEntryCalls ==
    ASSUME Calls, NEW c \in Path, NEW q \in Named, RemoveEntry(c, q)
    PROVE  Calls'
  <1>1. stack # <<>> /\ UNCHANGED <<handles, events, info>>
    BY DEF RemoveEntry, Reading
  <1>2. CASE q # NULL /\ kind[q] = "file"
    <2>1. /\ kind' = [kind EXCEPT ![q] = "none"] /\ kind[q] = "file"
          /\ stack' = Here(Read(c)) /\ status' = "ok" /\ q \in Path
      BY <1>2 DEF RemoveEntry, Named
    <2>2. Nested(stack') /\ Handled(stack', handles')
      <3>1. /\ Read(c) \in Frame /\ Read(c).path = Top.path
            /\ Read(c).due \subseteq Top.due /\ Read(c).recursed = Top.recursed
            /\ Read(c).closed = Top.closed /\ Read(c).before = Top.before
        BY <1>1, ReadTyped DEF Calls
      <3> QED BY <1>1, <2>1, <3>1, NestedHere, HandledHere DEF Calls
    <2>3. Placed'
      BY <2>1, MadeOrRemoved DEF Calls, Kind
    <2> QED BY <1>1, <2>1, <2>2, <2>3 DEF Calls, Status
  <1>3. CASE ~ (q # NULL /\ kind[q] = "file")
    <2>1. Return(FALSE) /\ UNCHANGED kind
      BY <1>3 DEF RemoveEntry
    <2>2. Nested(stack') /\ Handled(stack', handles') /\ status' \in Status
      BY <1>1, <2>1, ReturnCalls DEF Calls
    <2> QED BY <1>1, <2>1, <2>2, SameFiles DEF Calls
  <1> QED BY <1>2, <1>3

LEMMA EnterEntryCalls ==
    ASSUME Calls, NEW c \in Path, NEW q \in Named, EnterEntry(c, q)
    PROVE  Calls'
  <1> DEFINE f == [Read(c) EXCEPT !.recursed = TRUE]
             here == Here(f)
  <1>1. /\ stack # <<>> /\ ~ Top.closed
        /\ status' = "ok" /\ UNCHANGED <<kind, events, info>>
        /\ IF q # NULL /\ Opens(q)
           THEN /\ stack' = Append(here, Opened(q)) /\ handles' = handles + 1
           ELSE stack' = here /\ UNCHANGED handles
    BY DEF EnterEntry, Reading
  <1>2. /\ f \in Frame /\ f.path = Top.path /\ f.due \subseteq Top.due
        /\ f.recursed /\ f.closed = Top.closed /\ f.before = Top.before
    <2> SUFFICES ASSUME NEW g \in Frame, g = Read(c), g.path = Top.path,
                        g.due \subseteq Top.due, g.closed = Top.closed,
                        g.before = Top.before
                 PROVE  /\ f \in Frame /\ f.path = Top.path
                        /\ f.due \subseteq Top.due /\ f.recursed
                        /\ f.closed = Top.closed /\ f.before = Top.before
      BY <1>1, ReadTyped DEF Calls
    <2> QED BY DEF Frame
  <1> HIDE DEF f
  <1>3. /\ Nested(here) /\ Handled(here, handles) /\ here[Len(here)] = f
        /\ here # <<>>
    <2>1. Nested(here) /\ Handled(here, handles) /\ Len(here) = Len(stack)
      BY <1>1, <1>2, NestedHere, HandledHere DEF Calls
    <2>2. here[Len(stack)] = f /\ Len(stack) # 0
      BY <1>1, <1>2, Innermost DEF Calls, Nested
    <2> HIDE DEF here
    <2> QED BY <2>1, <2>2, EmptySeq
  <1> HIDE DEF here
  <1>4. CASE q # NULL /\ Opens(q)
    <2>1. /\ stack' = Append(here, Opened(q)) /\ handles' = handles + 1
          /\ handles < MaxHandles /\ q \in Path
      BY <1>1, <1>4 DEF Opens, Named
    <2>2. handles \in 0..MaxHandles
      BY HandledIs DEF Calls, Nested
    <2>3. /\ Opened(q) \in Frame /\ Opened(q).due \subseteq Children(Opened(q).path)
          /\ ~ Opened(q).closed
      BY <2>1, <2>2, OpenedTyped
    <2>4. here[Len(here)].recursed /\ ~ here[Len(here)].closed
      BY <1>1, <1>2, <1>3
    <2>5. Nested(stack') /\ Handled(stack', handles')
      BY <1>3, <2>1, <2>3, <2>4, NestedDeeper, HandledDeeper
    <2> QED BY <1>1, <2>5, SameFiles DEF Calls, Status
  <1>5. CASE ~ (q # NULL /\ Opens(q))
    <2>1. stack' = here /\ UNCHANGED handles
      BY <1>1, <1>5
    <2> QED BY <1>1, <1>3, <2>1, SameFiles DEF Calls, Status
  <1> QED BY <1>4, <1>5

LEMMA FailReadCalls ==
    ASSUME Calls, FailRead
    PROVE  Calls'
  <1>1. stack # <<>> /\ Return(FALSE) /\ UNCHANGED <<kind, handles, events, info>>
    BY DEF FailRead, Reading
  <1>2. Nested(stack') /\ Handled(stack', handles') /\ status' \in Status
    BY <1>1, ReturnCalls DEF Calls
  <1> QED BY <1>1, <1>2, SameFiles DEF Calls

LEMMA CloseDirCalls ==
    ASSUME Calls, CloseDir
    PROVE  Calls'
  <1> DEFINE f == [Top EXCEPT !.closed = TRUE]
             n == Len(stack)
  <1>1. /\ stack # <<>> /\ ~ Top.closed
        /\ handles' = handles - 1 /\ stack' = Here(f) /\ status' = "ok"
        /\ UNCHANGED <<kind, events, info>>
    BY DEF CloseDir, Reading
  <1>2. Top \in Frame
    BY <1>1, Innermost DEF Calls, Nested
  <1>3. /\ f \in Frame /\ f.path = Top.path /\ f.due \subseteq Top.due
        /\ f.closed /\ f.recursed = Top.recursed /\ f.before = Top.before
    BY <1>2 DEF Frame
  <1> HIDE DEF f
  <1>4. Nested(stack')
    BY <1>1, <1>3, NestedHere DEF Calls
  <1>5. /\ n \in Nat \ {0} /\ Top = stack[n]
        /\ Len(stack') = n /\ stack'[n] = f
        /\ \A k \in 1..n - 1 : stack'[k] = stack[k]
    BY <1>1, <1>3, Innermost DEF Calls, Nested
  <1>0. n = Len(stack)
    OBVIOUS
  <1> HIDE DEF n
  <1>6. stack' # <<>>
    BY <1>5, EmptySeq
  <1>7. handles \in n..MaxHandles /\ MaxHandles \in Nat
    <2>1. OpenOf(stack) = n
      BY <1>0, <1>1, <1>5 DEF OpenOf
    <2> QED BY <2>1, BoundsAreNats DEF Calls, Handled
  <1>8. handles' \in OpenOf(stack')..MaxHandles
    <2>1. OpenOf(stack') = n - 1
      BY <1>3, <1>5, <1>6 DEF OpenOf
    <2> QED BY <1>1, <1>5, <1>7, <2>1
  <1>9. ~ stack'[1].recursed =>
           handles' = stack'[1].before + IF stack'[1].closed THEN 0 ELSE 1
    <2>1. CASE n = 1
      <3>1. stack'[1] = f /\ stack[1] = Top
        BY <1>5, <2>1
      <3>2. ~ Top.recursed => handles = Top.before + 1
        BY <1>1, <3>1 DEF Calls, Handled
      <3>3. Top.before \in Nat
        BY <1>2 DEF Frame
      <3> QED BY <1>1, <1>3, <3>1, <3>2, <3>3
    <2>2. CASE n # 1
      <3>1. 1 \in 1..n - 1
        BY <1>5, <2>2
      <3>2. stack'[1].recursed
        BY <1>0, <1>5, <3>1 DEF Calls, Nested
      <3> QED BY <3>2
    <2> QED BY <2>1, <2>2
  <1>10. Handled(stack', handles')
    BY <1>8, <1>9 DEF Handled
  <1> QED BY <1>1, <1>4, <1>10, SameFiles DEF Calls, Status

LEMMA RemoveDirCalls ==
    ASSUME Calls, NEW q \in Named, RemoveDir(q)
    PROVE  Calls'
  <1> DEFINE empty == q # NULL /\ kind[q] = "dir" /\ Present(q) = {}
  <1>1. /\ stack # <<>> /\ UNCHANGED <<handles, events, info>>
        /\ kind' = IF empty THEN [kind EXCEPT ![q] = "none"] ELSE kind
        /\ Return(empty)
    BY DEF RemoveDir
  <1>2. empty \in BOOLEAN
    OBVIOUS
  <1>3. Placed'
    <2>1. CASE empty
      <3>1. kind' = [kind EXCEPT ![q] = "none"] /\ q \in Path
        BY <1>1, <2>1 DEF Named
      <3> QED BY <2>1, <3>1, MadeOrRemoved DEF Calls, Kind
    <2>2. CASE ~ empty
      <3>1. UNCHANGED kind
        BY <1>1, <2>2
      <3> QED BY <3>1, SameFiles DEF Calls
    <2> QED BY <2>1, <2>2
  <1> HIDE DEF empty
  <1>4. Nested(stack') /\ Handled(stack', handles') /\ status' \in Status
    BY <1>1, <1>2, ReturnCalls DEF Calls
  <1> QED BY <1>1, <1>3, <1>4 DEF Calls

LEMMA IdleCalls ==
    ASSUME Calls, OnlyFiles, Placed', status' \in Status
    PROVE  Calls'
  BY DEF Calls, OnlyFiles

LEMMA RmCalls ==
    ASSUME Calls, NEW p \in Path, Rm(p)
    PROVE  Calls'
  <1>1. kind' = [kind EXCEPT ![p] = "none"] /\ kind[p] = "file"
        /\ UNCHANGED status /\ OnlyFiles
    BY DEF Rm
  <1>2. Placed'
    BY <1>1, MadeOrRemoved DEF Calls, Kind
  <1> QED BY <1>1, <1>2, IdleCalls DEF Calls

LEMMA MvCalls ==
    ASSUME Calls, NEW p \in Path, NEW q \in Path, Mv(p, q)
    PROVE  Calls'
  <1>1. /\ p # q /\ kind[p] = "file" /\ kind[q] # "dir" /\ HasPlace(q)
        /\ kind' = [kind EXCEPT ![p] = "none", ![q] = "file"]
        /\ UNCHANGED status /\ OnlyFiles
    BY DEF Mv
  <1>2. Placed'
    BY <1>1, FileMoved DEF Calls
  <1> QED BY <1>1, <1>2, IdleCalls DEF Calls

LEMMA CpCalls ==
    ASSUME Calls, NEW p \in Path, NEW q \in Path, Cp(p, q)
    PROVE  Calls'
  <1> DEFINE copies == kind[p] = "file" /\ kind[q] # "dir" /\ HasPlace(q)
  <1>1. /\ kind' = IF copies THEN [kind EXCEPT ![q] = "file"] ELSE kind
        /\ status' = IF copies THEN "ok" ELSE "error"
        /\ OnlyFiles
    BY DEF Cp
  <1>2. Placed'
    <2>1. CASE copies
      <3>1. kind' = [kind EXCEPT ![q] = "file"]
        BY <1>1, <2>1
      <3> QED BY <2>1, <3>1, MadeOrRemoved DEF Calls, Kind
    <2>2. CASE ~ copies
      BY <1>1, <2>2, SameFiles DEF Calls
    <2> QED BY <2>1, <2>2
  <1> HIDE DEF copies
  <1>3. status' \in Status
    BY <1>1 DEF Status
  <1> QED BY <1>1, <1>2, <1>3, IdleCalls

LEMMA MkdirCalls ==
    ASSUME Calls, NEW p \in Path, Mkdir(p)
    PROVE  Calls'
  <1> DEFINE blocked == \E q \in Above(ParentOf[p]) : kind[q] = "file"
             made == [q \in Path |-> IF q \in Above(p) THEN "dir" ELSE kind[q]]
  <1>1. /\ kind' = IF blocked \/ Exists(p) THEN kind ELSE made
        /\ status' = IF blocked THEN "error" ELSE "ok"
        /\ OnlyFiles
    BY DEF Mkdir
  <1> HIDE DEF blocked
  <1>2. Placed'
    <2>1. CASE kind' = made
      BY <2>1, DirectoriesMade DEF Calls
    <2>2. CASE kind' = kind
      BY <2>2, SameFiles DEF Calls
    <2> QED BY <1>1, <2>1, <2>2
  <1>3. status' \in Status
    BY <1>1 DEF Status
  <1> QED BY <1>1, <1>2, <1>3, IdleCalls

LEMMA OtherCalls ==
    ASSUME Calls, Other
    PROVE  Calls'
  <1>1. /\ events < MaxEvents /\ events' = events + 1
        /\ UNCHANGED <<stack, status, handles, info>>
    BY DEF Other
  <1>2. PICK p \in Path, k \in Kind :
           /\ k # kind[p]
           /\ IF k = "none" THEN Present(p) = {} ELSE ~ Exists(p) /\ HasPlace(p)
           /\ kind' = [kind EXCEPT ![p] = k]
    BY DEF Other
  <1>3. Placed'
    <2>1. k # "none" => HasPlace(p)
      BY <1>2
    <2>2. k # "dir" => Present(p) = {} \/ kind[p] # "dir"
      BY <1>2 DEF Exists
    <2> QED BY <1>2, <2>1, <2>2, MadeOrRemoved DEF Calls
  <1>4. events' \in 0..MaxEvents
    BY <1>1, BoundsAreNats DEF Calls
  <1> QED BY <1>1, <1>3, <1>4 DEF Calls

(* A step that leaves the file system and the calls alone.                 *)
LEMMA SameCalls ==
    ASSUME Calls, UNCHANGED <<kind, stack, status, handles>>,
           events' \in 0..MaxEvents, info' \in Info \union {NULL}
    PROVE  Calls'
  BY SameFiles DEF Calls

LEMMA StatCalls ==
    ASSUME Calls, NEW p \in Path, Stat(p)
    PROVE  Calls'
  <1>1. info' = [path |-> IF Exists(p) THEN p ELSE NULL, stale |-> FALSE]
        /\ UNCHANGED <<kind, stack, status, handles, events>>
    BY DEF Stat
  <1>2. info' \in Info
    BY <1>1 DEF Info
  <1> QED BY <1>1, <1>2, SameCalls DEF Calls

LEMMA PathGoesCalls ==
    ASSUME Calls, PathGoes
    PROVE  Calls'
  <1>1. /\ info # NULL /\ events < MaxEvents /\ events' = events + 1
        /\ info' = [info EXCEPT !.stale = TRUE]
        /\ UNCHANGED <<kind, stack, status, handles>>
    BY DEF PathGoes
  <1>2. info' \in Info
    BY <1>1 DEF Calls, Info
  <1>3. events' \in 0..MaxEvents
    BY <1>1, BoundsAreNats DEF Calls
  <1> QED BY <1>1, <1>2, <1>3, SameCalls

LEMMA NewChildCalls ==
    ASSUME Calls, NewChild
    PROVE  Calls'
  <1>1. /\ stack' = <<>> /\ status' = "ok" /\ handles' = 0 /\ info' = NULL
        /\ UNCHANGED <<kind, events>>
    BY DEF NewChild
  <1>2. Nested(<<>>) /\ Handled(<<>>, 0)
    <2>1. Nested(<<>>)
      BY EmptySeq DEF Nested
    <2>2. OpenOf(<<>>) = 0
      BY EmptySeq DEF OpenOf
    <2> QED BY <2>1, <2>2, BoundsAreNats DEF Handled
  <1>3. Placed'
    BY <1>1, SameFiles DEF Calls
  <1> QED BY <1>1, <1>2, <1>3 DEF Calls, Status

---------------------------------------------------------------------------
(* Division.                                                               *)

LEMMA Division ==
    ASSUME NEW x \in Nat, NEW d \in Nat \ {0}
    PROVE  /\ x \div d \in Nat /\ x % d \in 0..d - 1
           /\ x = d * (x \div d) + (x % d)
  OBVIOUS

LEMMA DivisionIs ==
    ASSUME NEW x \in Nat, NEW d \in Nat \ {0}, NEW q \in Nat, NEW r \in 0..d - 1,
           x = d * q + r
    PROVE  x \div d = q /\ x % d = r
  OBVIOUS

LEMMA Times ==
    ASSUME NEW d \in Nat, NEW p \in Int, NEW q \in Int
    PROVE  /\ d * p \in Int /\ d * (p + q) = d * p + d * q
           /\ d * (p + 1) = d * p + d
           /\ p * d = d * p
           /\ p \in Nat => d * p \in Nat
  OBVIOUS

LEMMA DivisionFrom ==
    ASSUME NEW q \in Nat, NEW m \in Nat, NEW d \in Nat \ {0}
    PROVE  /\ (q * d + m) \div d = q + (m \div d) /\ (q * d + m) % d = m % d
           /\ q * d + m \in Nat
  <1> DEFINE b == m \div d
             r == m % d
  <1>1. b \in Nat /\ r \in 0..d - 1 /\ m = d * b + r
    BY Division
  <1> HIDE DEF b, r
  <1> DEFINE x == q * d + m
  <1>2. x = d * (q + b) + r /\ x \in Nat /\ q + b \in Nat
    <2>1. d * (q + b) = d * q + d * b /\ q * d = d * q
          /\ d * b \in Int /\ d * q \in Nat
      BY <1>1, Times
    <2> QED BY <1>1, <2>1
  <1> HIDE DEF x
  <1>3. x \div d = q + b /\ x % d = r
    BY <1>1, <1>2, DivisionIs
  <1> QED BY <1>2, <1>3 DEF x, b, r

LEMMA RemainderOfSum ==
    ASSUME NEW x \in Nat, NEW y \in Nat, NEW d \in Nat \ {0}
    PROVE  ((x % d) + y) % d = (x + y) % d
  <1> DEFINE a == x \div d
             r == x % d
             b == (r + y) \div d
             s == (r + y) % d
  <1>1. a \in Nat /\ r \in 0..d - 1 /\ x = d * a + r
    BY Division
  <1> HIDE DEF a, r
  <1>2. b \in Nat /\ s \in 0..d - 1 /\ r + y = d * b + s
    <2>1. r + y \in Nat
      BY <1>1
    <2> QED BY <2>1, Division
  <1> HIDE DEF b, s
  <1>3. x + y = d * (a + b) + s /\ a + b \in Nat /\ x + y \in Nat
    <2>1. d * (a + b) = d * a + d * b /\ d * a \in Int /\ d * b \in Int
      BY <1>1, <1>2, Times
    <2> QED BY <1>1, <1>2, <2>1
  <1>4. (x + y) % d = s
    BY <1>2, <1>3, DivisionIs
  <1> QED BY <1>4 DEF s, r

(* The carry of a sum of words: its low word is smaller than a summand's.  *)
LEMMA Carry ==
    ASSUME NEW x \in Nat, NEW y \in Nat, NEW d \in Nat \ {0}
    PROVE  /\ ((x % d) + (y % d)) % d = (x + y) % d
           /\ (x + y) \div d =
                 (x \div d) + (y \div d)
                    + (IF ((x % d) + (y % d)) % d < x % d THEN 1 ELSE 0)
  <1> DEFINE a == x \div d
             r == x % d
             b == y \div d
             s == y % d
             low == (r + s) % d
  <1>1. /\ a \in Nat /\ r \in 0..d - 1 /\ x = d * a + r
        /\ b \in Nat /\ s \in 0..d - 1 /\ y = d * b + s
    BY Division
  <1>0. low = (r + s) % d
    OBVIOUS
  <1> HIDE DEF a, r, b, s, low
  <1>2. d * (a + b) = d * a + d * b /\ d * (a + b + 1) = d * (a + b) + d
        /\ d * a \in Int /\ d * b \in Int
    <2>1. a + b \in Int
      BY <1>1
    <2> QED BY <1>1, <2>1, Times
  <1>3. CASE r + s < d
    <2>1. low = r + s /\ ~ (low < r)
      <3>1. r + s = d * 0 + (r + s) /\ r + s \in 0..d - 1 /\ r + s \in Nat
        BY <1>1, <1>3
      <3>2. (r + s) % d = r + s
        BY <3>1, DivisionIs
      <3> QED BY <1>0, <1>1, <3>2
    <2>2. x + y = d * (a + b) + (r + s) /\ r + s \in 0..d - 1
          /\ a + b \in Nat /\ x + y \in Nat
      BY <1>1, <1>2, <1>3
    <2>3. (x + y) \div d = a + b /\ (x + y) % d = r + s
      BY <2>2, DivisionIs
    <2>4. (x + y) \div d = a + b + 0
      BY <1>1, <2>3
    <2>5. low = (x + y) % d
          /\ (x + y) \div d = a + b + (IF low < r THEN 1 ELSE 0)
      BY <2>1, <2>3, <2>4
    <2> QED BY <2>5 DEF low, r, s, a, b
  <1>4. CASE r + s >= d
    <2>1. low = r + s - d /\ low < r
      <3>1. d * 1 = d
        OBVIOUS
      <3>2. r + s = d * 1 + (r + s - d) /\ r + s - d \in 0..d - 1 /\ r + s \in Nat
        BY <1>1, <1>4, <3>1
      <3>3. (r + s) % d = r + s - d
        BY <3>2, DivisionIs
      <3> QED BY <1>0, <1>1, <3>3
    <2>2. x + y = d * (a + b + 1) + (r + s - d) /\ r + s - d \in 0..d - 1
          /\ a + b + 1 \in Nat /\ x + y \in Nat
      BY <1>1, <1>2, <1>4
    <2>3. (x + y) \div d = a + b + 1 /\ (x + y) % d = r + s - d
      BY <2>2, DivisionIs
    <2>4. low = (x + y) % d
          /\ (x + y) \div d = a + b + (IF low < r THEN 1 ELSE 0)
      BY <2>1, <2>3
    <2> QED BY <2>4 DEF low, r, s, a, b
  <1> QED BY <1>1, <1>3, <1>4

---------------------------------------------------------------------------
(* The md5's count of bits.                                                *)

LEMMA Sizes ==
    /\ BLOCK \in Nat \ {0} /\ LENGTH \in Nat \ {0} /\ WORD \in Nat \ {0}
    /\ LENGTH < BLOCK
    /\ \E w \in Nat : WORD = 8 * (BLOCK * w)
  <1>1. /\ BLOCK \in Nat \ {0} /\ LENGTH \in Nat \ {0} /\ WORD \in Nat \ {0}
        /\ LENGTH < BLOCK /\ WORD % (8 * BLOCK) = 0
    BY SizesFit
  <1> DEFINE d == 8 * BLOCK
  <1>2. d \in Nat \ {0}
    BY <1>1
  <1> HIDE DEF d
  <1>3. WORD = d * (WORD \div d) + (WORD % d) /\ WORD \div d \in Nat
    BY <1>1, <1>2, Division
  <1> DEFINE w == WORD \div d
  <1>4. w \in Nat
    BY <1>3
  <1>5. WORD = d * w
    <2>1. WORD % d = 0
      BY <1>1 DEF d
    <2>2. d * w \in Nat
      BY <1>2, <1>4
    <2> QED BY <1>3, <2>1, <2>2
  <1> HIDE DEF w
  <1>6. WORD = 8 * (BLOCK * w)
    BY <1>1, <1>4, <1>5 DEF d
  <1> QED BY <1>1, <1>4, <1>6

(* The bits counted tell how many bytes the buffer holds, though the count *)
(* is that of a word.                                                      *)
LEMMA HeldIs ==
    ASSUME NEW n \in Nat, NEW c, c.low = (8 * n) % WORD
    PROVE  M!Held(c) = n % BLOCK
  <1>1. PICK w \in Nat : WORD = 8 * (BLOCK * w)
    BY Sizes
  <1>2. BLOCK \in Nat \ {0} /\ WORD \in Nat \ {0} /\ 8 * n \in Nat
    BY Sizes
  <1> DEFINE low == (8 * n) % WORD
             q == (8 * n) \div WORD
  <1>3. q \in Nat /\ low \in 0..WORD - 1 /\ 8 * n = WORD * q + low
    BY <1>2, Division
  <1> HIDE DEF low, q
  <1> DEFINE t == w * q
             m == n - BLOCK * t
  <1>4. t \in Nat /\ BLOCK * t \in Nat
    BY <1>2, <1>3
  <1>5. WORD * q = 8 * (BLOCK * t)
    <2>1. (8 * (BLOCK * w)) * q = 8 * (BLOCK * (w * q))
      BY <1>1, <1>2, <1>3
    <2> QED BY <1>1, <2>1
  <1> HIDE DEF t
  <1>6. m \in Nat /\ low = 8 * m + 0
    BY <1>3, <1>4, <1>5
  <1>7. n = BLOCK * t + m
    BY <1>4
  <1> HIDE DEF m
  <1>8. low \div 8 = m
    <2>1. low \in Nat /\ 8 \in Nat \ {0} /\ 0 \in 0..8 - 1
      BY <1>2, <1>3
    <2> QED BY <1>6, <2>1, DivisionIs
  <1> DEFINE a == m \div BLOCK
             h == m % BLOCK
  <1>9. a \in Nat /\ h \in 0..BLOCK - 1 /\ m = BLOCK * a + h
    BY <1>2, <1>6, Division
  <1> HIDE DEF a, h
  <1>10. n = BLOCK * (t + a) + h /\ t + a \in Nat
    <2>1. BLOCK * (t + a) = BLOCK * t + BLOCK * a /\ BLOCK * a \in Int
      BY <1>2, <1>4, <1>9, Times
    <2> QED BY <1>4, <1>7, <1>9, <2>1
  <1>11. n % BLOCK = h
    BY <1>2, <1>9, <1>10, DivisionIs
  <1> QED BY <1>8, <1>11 DEF M!Held, low, h

LEMMA CountedIs ==
    ASSUME NEW c \in M!Context, NEW n \in Nat, NEW m \in Nat,
           c.low = (8 * n) % WORD, c.high = ((8 * n) \div WORD) % WORD
    PROVE  LET d == M!Counted(c, m)
           IN  /\ d \in M!Context /\ d.in = c.in /\ d.blocks = c.blocks
               /\ d.low = (8 * (n + m)) % WORD
               /\ d.high = ((8 * (n + m)) \div WORD) % WORD
  <1> DEFINE x == 8 * n
             y == 8 * m
             low == (c.low + (y % WORD)) % WORD
             carry == IF low < c.low THEN 1 ELSE 0
             high == (c.high + carry + (y \div WORD)) % WORD
             d == [c EXCEPT !.low = low, !.high = high]
  <1>1. M!Counted(c, m) = d
    BY DEF M!Counted
  <1>2. x \in Nat /\ y \in Nat /\ x + y = 8 * (n + m) /\ WORD \in Nat \ {0}
        /\ c.low = x % WORD /\ c.high = (x \div WORD) % WORD
    BY Sizes
  <1> HIDE DEF x, y
  <1>3. low = (x + y) % WORD
        /\ (x + y) \div WORD = (x \div WORD) + (y \div WORD) + carry
    <2>1. low = ((x % WORD) + (y % WORD)) % WORD
          /\ carry = IF low < x % WORD THEN 1 ELSE 0
      BY <1>2
    <2> HIDE DEF low, carry
    <2>2. x \in Nat /\ y \in Nat /\ WORD \in Nat \ {0}
      BY <1>2
    <2>3. /\ low = (x + y) % WORD
          /\ (x + y) \div WORD =
                (x \div WORD) + (y \div WORD) + (IF low < x % WORD THEN 1 ELSE 0)
      <3>1. /\ ((x % WORD) + (y % WORD)) % WORD = (x + y) % WORD
            /\ (x + y) \div WORD =
                 (x \div WORD) + (y \div WORD)
                    + (IF ((x % WORD) + (y % WORD)) % WORD < x % WORD THEN 1 ELSE 0)
        BY <2>2, Carry
      <3> QED BY <2>1, <3>1
    <2> QED BY <2>1, <2>3
  <1>4. carry \in Nat
    OBVIOUS
  <1> HIDE DEF low, carry
  <1>5. high = ((x + y) \div WORD) % WORD
    <2>1. x \div WORD \in Nat /\ y \div WORD \in Nat
      BY <1>2, Division
    <2> DEFINE a == x \div WORD
               b == y \div WORD
    <2>2. a \in Nat /\ b \in Nat /\ c.high = a % WORD
          /\ (x + y) \div WORD = a + b + carry
          /\ high = (c.high + carry + b) % WORD
      BY <1>2, <1>3, <2>1
    <2> HIDE DEF a, b, high
    <2>3. a % WORD \in Nat
      BY <1>2, <2>2, Division
    <2>4. ((a % WORD) + (carry + b)) % WORD = (a + (carry + b)) % WORD
      <3>1. carry + b \in Nat
        BY <1>4, <2>2
      <3> QED BY <1>2, <2>2, <3>1, RemainderOfSum
    <2>5. (a % WORD) + (carry + b) = c.high + carry + b
          /\ a + (carry + b) = a + b + carry
      BY <1>4, <2>2, <2>3
    <2> QED BY <2>2, <2>4, <2>5
  <1>6. low \in 0..WORD - 1 /\ high \in 0..WORD - 1
    <2>1. x + y \in Nat /\ (x + y) \div WORD \in Nat
      BY <1>2, Division
    <2>2. (x + y) % WORD \in 0..WORD - 1 /\ ((x + y) \div WORD) % WORD \in 0..WORD - 1
      BY <1>2, <2>1, Division
    <2> QED BY <1>3, <1>5, <2>2
  <1> HIDE DEF high
  <1>7. d \in M!Context /\ d.low = low /\ d.high = high
        /\ d.in = c.in /\ d.blocks = c.blocks
    BY <1>6 DEF M!Context
  <1> HIDE DEF d
  <1> QED BY <1>1, <1>2, <1>3, <1>5, <1>7


---------------------------------------------------------------------------
(* Bytes and blocks of bytes.                                              *)

Bytes(n, m) == [i \in 1..m |-> n + i]
FullBlock(k) == [i \in 1..BLOCK |-> (k - 1) * BLOCK + i]
FullBlocks(q) == [k \in 1..q |-> FullBlock(k)]

LEMMA BytesSeq ==
    ASSUME NEW n \in Int, NEW m \in Nat
    PROVE  /\ Bytes(n, m) \in Seq(Int) /\ Len(Bytes(n, m)) = m
           /\ \A i \in 1..m : Bytes(n, m)[i] = n + i
  BY DEF Bytes

LEMMA BytesFrom ==
    ASSUME NEW n \in Int, NEW m \in Nat, NEW p \in Nat, NEW l \in Nat, p + l <= m
    PROVE  SubSeq(Bytes(n, m), p + 1, p + l) = Bytes(n + p, l)
  <1> DEFINE s == Bytes(n, m)
             first == p + 1
             last == p + l
             t == SubSeq(s, first, last)
             u == Bytes(n + p, l)
  <1>0. first \in Int /\ last \in Int /\ first = p + 1 /\ last = p + l
    OBVIOUS
  <1> HIDE DEF first, last
  <1>1. \A i \in first..last : s[i] = n + i
    BY <1>0, BytesSeq
  <1>2. u \in Seq(Int) /\ Len(u) = l /\ \A i \in 1..l : u[i] = n + p + i
    <2>1. n + p \in Int
      OBVIOUS
    <2> QED BY <2>1, BytesSeq
  <1> HIDE DEF s, u
  <1>3. /\ t \in Seq(Int)
        /\ Len(t) = IF first <= last THEN last - first + 1 ELSE 0
        /\ \A i \in 1..last - first + 1 : t[i] = s[first + i - 1]
    <2>1. \A i \in first..last : s[i] \in Int
      BY <1>1
    <2> QED BY <1>0, <2>1, SubSeqProperties
  <1> HIDE DEF t
  <1>4. Len(t) = l
    BY <1>0, <1>3
  <1>5. \A i \in 1..l : t[i] = n + p + i
    <2> TAKE i \in 1..l
    <2>1. t[i] = s[first + i - 1] /\ first + i - 1 \in first..last
      BY <1>0, <1>3
    <2>2. s[first + i - 1] = n + (first + i - 1)
      BY <1>1, <2>1
    <2> QED BY <1>0, <2>1, <2>2
  <1>6. t = u
    BY <1>2, <1>3, <1>4, <1>5, SeqEqual
  <1> QED BY <1>6 DEF s, t, u, first, last

LEMMA BytesSplit ==
    ASSUME NEW n \in Nat, NEW m \in Nat, NEW r \in Nat, r <= m
    PROVE  /\ SubSeq(Bytes(n, m), 1, r) = Bytes(n, r)
           /\ SubSeq(Bytes(n, m), r + 1, m) = Bytes(n + r, m - r)
  <1>1. SubSeq(Bytes(n, m), 0 + 1, 0 + r) = Bytes(n + 0, r)
    <2>1. 0 + r <= m /\ 0 \in Nat /\ n \in Int
      OBVIOUS
    <2> QED BY <2>1, BytesFrom
  <1>2. 0 + 1 = 1 /\ 0 + r = r /\ n + 0 = n
    OBVIOUS
  <1> DEFINE l == m - r
  <1>3. l \in Nat /\ r + l <= m /\ r + l = m /\ n \in Int
    OBVIOUS
  <1> HIDE DEF l
  <1>4. SubSeq(Bytes(n, m), r + 1, r + l) = Bytes(n + r, l)
    BY <1>3, BytesFrom
  <1> QED BY <1>1, <1>2, <1>3, <1>4 DEF l

LEMMA BlockFrom ==
    ASSUME NEW n \in Int, NEW m \in Nat, NEW p \in Nat, p + BLOCK <= m
    PROVE  SubSeq(Bytes(n, m), p + 1, p + BLOCK) = Bytes(n + p, BLOCK)
  <1>1. BLOCK \in Nat
    BY Sizes
  <1> QED BY <1>1, BytesFrom

LEMMA BlockIs ==
    ASSUME NEW k \in Int
    PROVE  FullBlock(k) = Bytes((k - 1) * BLOCK, BLOCK) /\ FullBlock(k) \in Seq(Int)
           /\ Len(FullBlock(k)) = BLOCK
           /\ FullBlock(k) \in [1..BLOCK -> Int]
           /\ \A i \in 1..BLOCK : FullBlock(k)[i] = (k - 1) * BLOCK + i
  <1> DEFINE n == (k - 1) * BLOCK
  <1>1. n \in Int /\ BLOCK \in Nat
    <2>1. k - 1 \in Int /\ BLOCK \in Int /\ BLOCK \in Nat
      BY Sizes
    <2> QED BY <2>1
  <1>2. FullBlock(k) = [i \in 1..BLOCK |-> n + i]
    BY DEF FullBlock
  <1> HIDE DEF n
  <1>3. FullBlock(k) = Bytes(n, BLOCK)
    BY <1>2 DEF Bytes
  <1>4. FullBlock(k) \in [1..BLOCK -> Int]
        /\ \A i \in 1..BLOCK : FullBlock(k)[i] = n + i
    BY <1>1, <1>2
  <1>5. FullBlock(k) \in Seq(Int) /\ Len(FullBlock(k)) = BLOCK
    BY <1>1, <1>3, BytesSeq
  <1> QED BY <1>3, <1>4, <1>5 DEF n

LEMMA BlocksSeq ==
    ASSUME NEW q \in Nat
    PROVE  /\ FullBlocks(q) \in Seq(Seq(Int)) /\ Len(FullBlocks(q)) = q
           /\ \A k \in 1..q : FullBlocks(q)[k] = FullBlock(k)
  <1>1. \A k \in 1..q : FullBlock(k) \in Seq(Int)
    BY BlockIs
  <1> QED BY <1>1 DEF FullBlocks

LEMMA BlocksMore ==
    ASSUME NEW q \in Nat, NEW a \in Nat
    PROVE  FullBlocks(q) \o [k \in 1..a |-> FullBlock(q + k)] = FullBlocks(q + a)
  <1> DEFINE s == FullBlocks(q)
             t == [k \in 1..a |-> FullBlock(q + k)]
             u == FullBlocks(q + a)
  <1>1. s \in Seq(Seq(Int)) /\ Len(s) = q /\ \A k \in 1..q : s[k] = FullBlock(k)
    BY BlocksSeq
  <1>2. u \in Seq(Seq(Int)) /\ Len(u) = q + a
        /\ \A k \in 1..q + a : u[k] = FullBlock(k)
    <2>1. q + a \in Nat
      OBVIOUS
    <2> QED BY <2>1, BlocksSeq
  <1>3. t \in Seq(Seq(Int)) /\ Len(t) = a
        /\ \A k \in 1..a : t[k] = FullBlock(q + k)
    <2>1. \A k \in 1..a : FullBlock(q + k) \in Seq(Int)
      BY BlockIs
    <2> QED BY <2>1
  <1> HIDE DEF s, t, u
  <1>4. /\ s \o t \in Seq(Seq(Int)) /\ Len(s \o t) = q + a
        /\ \A k \in 1..q + a : (s \o t)[k] = IF k <= q THEN s[k] ELSE t[k - q]
    BY <1>1, <1>3, ConcatProperties
  <1>5. \A k \in 1..q + a : (s \o t)[k] = FullBlock(k)
    <2> TAKE k \in 1..q + a
    <2>1. CASE k <= q
      BY <1>1, <1>4, <2>1
    <2>2. CASE ~ (k <= q)
      <3>1. k - q \in 1..a /\ q + (k - q) = k
        BY <2>2
      <3>2. t[k - q] = FullBlock(q + (k - q))
        BY <1>3, <3>1
      <3> QED BY <1>4, <2>2, <3>1, <3>2
    <2> QED BY <2>1, <2>2
  <1>6. s \o t = u
    BY <1>2, <1>4, <1>5, SeqEqual
  <1> QED BY <1>6 DEF s, t, u

LEMMA PutFirst ==
    ASSUME NEW in \in [1..BLOCK -> Int], NEW data \in Seq(Int), Len(data) <= BLOCK
    PROVE  /\ M!Put(in, 0, data) \in [1..BLOCK -> Int]
           /\ \A i \in 1..Len(data) : M!Put(in, 0, data)[i] = data[i]
  <1>1. DOMAIN data = 1..Len(data) /\ \A i \in 1..Len(data) : data[i] \in Int
    OBVIOUS
  <1>2. BLOCK \in Nat
    BY Sizes
  <1> QED BY <1>1, <1>2 DEF M!Put

---------------------------------------------------------------------------
(* md5::update.                                                            *)

LEMMA ContextIs ==
    ASSUME NEW c \in M!Context
    PROVE  c.low \in 0..WORD - 1 /\ c.high \in 0..WORD - 1
           /\ c.in \in [1..BLOCK -> Int] /\ c.blocks \in Seq(Seq(Int))
  BY DEF M!Context

LEMMA BlockAt ==
    ASSUME NEW q \in Nat, NEW n \in Nat, n = q * BLOCK, NEW m \in Nat,
           NEW a \in Nat, BLOCK * a <= m, NEW k \in 1..a
    PROVE  SubSeq(Bytes(n, m), (k - 1) * BLOCK + 1, k * BLOCK) = FullBlock(q + k)
  <1> DEFINE p == (k - 1) * BLOCK
             last == k * BLOCK
  <1>1. BLOCK \in Nat \ {0}
    BY Sizes
  <1>2. a \in Nat /\ BLOCK * a <= m
    OBVIOUS
  <1>3. p \in Nat /\ last = p + BLOCK
    <2>1. k - 1 \in Nat /\ k = (k - 1) + 1
      BY <1>1, <1>2
    <2>2. BLOCK * (k - 1) \in Nat /\ BLOCK * ((k - 1) + 1) = BLOCK * (k - 1) + BLOCK
          /\ (k - 1) * BLOCK = BLOCK * (k - 1)
      BY <1>1, <2>1, Times
    <2>3. k * BLOCK = BLOCK * k
      BY <1>1, <1>2, Times
    <2> QED BY <2>1, <2>2, <2>3
  <1>4. p + BLOCK <= m
    <2>1. a - k \in Nat /\ a = (a - k) + k
      BY <1>1, <1>2
    <2>2. BLOCK * k \in Int /\ BLOCK * (a - k) \in Nat
          /\ BLOCK * ((a - k) + k) = BLOCK * (a - k) + BLOCK * k /\ k * BLOCK = BLOCK * k
      BY <1>1, <1>2, <2>1, Times
    <2> QED BY <1>2, <1>3, <2>1, <2>2
  <1>5. (q + k - 1) * BLOCK = n + p
    <2>1. q + k - 1 = q + (k - 1) /\ k - 1 \in Int /\ q + (k - 1) \in Int
      BY <1>1, <1>2
    <2>2. BLOCK * (q + (k - 1)) = BLOCK * q + BLOCK * (k - 1)
          /\ (q + (k - 1)) * BLOCK = BLOCK * (q + (k - 1))
          /\ q * BLOCK = BLOCK * q /\ (k - 1) * BLOCK = BLOCK * (k - 1)
      BY <1>1, <2>1, Times
    <2> QED BY <2>1, <2>2
  <1>6. q + k \in Int
    BY <1>1, <1>2
  <1>7. FullBlock(q + k) = Bytes(n + p, BLOCK)
    BY <1>5, <1>6, BlockIs
  <1> HIDE DEF p, last
  <1>8. SubSeq(Bytes(n, m), p + 1, last) = Bytes(n + p, BLOCK)
    <2>1. p \in Nat /\ BLOCK \in Nat /\ n \in Int
      BY <1>1, <1>3
    <2>2. SubSeq(Bytes(n, m), p + 1, p + BLOCK) = Bytes(n + p, BLOCK)
      BY <1>4, <2>1, BlockFrom
    <2> QED BY <1>3, <2>2
  <1> QED BY <1>7, <1>8 DEF p, last

(* Of bytes that begin a block, the whole blocks and the rest.             *)
LEMMA BlocksTaken ==
    ASSUME NEW c \in M!Context, NEW q \in Nat, c.blocks = FullBlocks(q),
           NEW n \in Nat, n = q * BLOCK, NEW m \in Nat
    PROVE  LET d == M!UpdateBlocks(c, Bytes(n, m))
               a == q + (m \div BLOCK)
           IN  /\ d \in M!Context /\ d.low = c.low /\ d.high = c.high
               /\ d.blocks = FullBlocks(a)
               /\ \A i \in 1..m % BLOCK : d.in[i] = a * BLOCK + i
  <1> DEFINE whole == m \div BLOCK
             rest == m % BLOCK
             data == Bytes(n, m)
             block(k) == SubSeq(data, (k - 1) * BLOCK + 1, k * BLOCK)
             in == IF whole = 0 THEN c.in ELSE block(whole)
             left == SubSeq(data, whole * BLOCK + 1, m)
             blocks == c.blocks \o [k \in 1..whole |-> block(k)]
             d == [c EXCEPT !.blocks = blocks, !.in = M!Put(in, 0, left)]
  <1>1. BLOCK \in Nat \ {0} /\ whole \in Nat /\ rest \in 0..BLOCK - 1
        /\ m = BLOCK * whole + rest
    <2>1. BLOCK \in Nat \ {0}
      BY Sizes
    <2> QED BY <2>1, Division
  <1>2. M!UpdateBlocks(c, data) = d
    <2>1. Len(data) = m
      BY BytesSeq
    <2> QED BY <2>1 DEF M!UpdateBlocks
  <1>3. \A k \in 1..whole : block(k) = FullBlock(q + k)
    <2>1. whole \in Nat /\ BLOCK * whole <= m
      BY <1>1, Times
    <2> HIDE DEF whole
    <2> QED BY <2>1, BlockAt
  <1>4. blocks = FullBlocks(q + whole)
    <2>1. [k \in 1..whole |-> block(k)] = [k \in 1..whole |-> FullBlock(q + k)]
      BY <1>3
    <2>2. FullBlocks(q) \o [k \in 1..whole |-> FullBlock(q + k)]
             = FullBlocks(q + whole)
      BY <1>1, BlocksMore
    <2> QED BY <2>1, <2>2
  <1>5. in \in [1..BLOCK -> Int]
    <2>1. CASE whole = 0
      BY <2>1, ContextIs
    <2>2. CASE whole # 0
      <3>1. whole \in 1..whole /\ q + whole \in Int
        BY <1>1, <2>2
      <3> QED BY <1>3, <2>2, <3>1, BlockIs
    <2> QED BY <2>1, <2>2
  <1> HIDE DEF block
  <1>6. left = Bytes(n + whole * BLOCK, rest)
    <2> DEFINE p == whole * BLOCK
    <2>1. p \in Nat /\ m = p + rest
      BY <1>1, Times
    <2>2. rest \in Nat
      BY <1>1
    <2> HIDE DEF p, whole, rest
    <2>3. SubSeq(Bytes(n, m), p + 1, p + rest) = Bytes(n + p, rest)
      <3>1. p + rest <= m
        BY <2>1, <2>2
      <3> QED BY <2>1, <2>2, <3>1, BytesFrom
    <2> QED BY <2>1, <2>3 DEF p
  <1> DEFINE e == n + whole * BLOCK
  <1>7. e \in Nat /\ e = (q + whole) * BLOCK
    <2>1. BLOCK * (q + whole) = BLOCK * q + BLOCK * whole /\ BLOCK * whole \in Nat
          /\ q + whole \in Int
          /\ whole * BLOCK = BLOCK * whole /\ q * BLOCK = BLOCK * q
      BY <1>1, Times
    <2>2. (q + whole) * BLOCK = BLOCK * (q + whole)
      BY <1>1, <2>1, Times
    <2> QED BY <2>1, <2>2
  <1> HIDE DEF e
  <1>8. left \in Seq(Int) /\ Len(left) = rest
        /\ \A i \in 1..rest : left[i] = e + i
    <2>1. left = Bytes(e, rest) /\ rest \in Nat
      BY <1>1, <1>6 DEF e
    <2> HIDE DEF left, rest
    <2>2. Bytes(e, rest) \in Seq(Int) /\ Len(Bytes(e, rest)) = rest
          /\ \A i \in 1..rest : Bytes(e, rest)[i] = e + i
      <3>1. e \in Int /\ rest \in Nat
        BY <1>7, <2>1
      <3> QED BY <3>1, BytesSeq, Zenon
    <2> QED BY <2>1, <2>2
  <1> HIDE DEF left, in
  <1> DEFINE put == M!Put(in, 0, left)
  <1>9. put \in [1..BLOCK -> Int] /\ \A i \in 1..rest : put[i] = e + i
    <2>1. rest \in Nat /\ BLOCK \in Nat /\ rest <= BLOCK
      BY <1>1
    <2> HIDE DEF rest
    <2>2. put \in [1..BLOCK -> Int] /\ \A i \in 1..rest : put[i] = left[i]
      BY <1>5, <1>8, <2>1, PutFirst
    <2> HIDE DEF put
    <2> QED BY <1>8, <2>2
  <1>10. blocks \in Seq(Seq(Int))
    <2>1. q + whole \in Nat
      BY <1>1
    <2> HIDE DEF whole, blocks
    <2> QED BY <1>4, <2>1, BlocksSeq
  <1> HIDE DEF put, blocks, whole
  <1>11. d \in M!Context /\ d.low = c.low /\ d.high = c.high
         /\ d.blocks = blocks /\ d.in = put
    BY <1>9, <1>10 DEF M!Context, put
  <1> HIDE DEF d, rest
  <1> QED BY <1>2, <1>4, <1>7, <1>9, <1>11 DEF whole, rest


LEMMA TookIs ==
    ASSUME NEW c, NEW n
    PROVE  M!Took(c, n) <=>
              /\ c \in M!Context
              /\ c.low = (8 * n) % WORD /\ c.high = ((8 * n) \div WORD) % WORD
              /\ c.blocks = FullBlocks(n \div BLOCK)
              /\ \A i \in 1..n % BLOCK : c.in[i] = (n \div BLOCK) * BLOCK + i
  BY DEF M!Took, FullBlocks, FullBlock

LEMMA BlocksTook ==
    ASSUME NEW c \in M!Context, NEW q \in Nat, c.blocks = FullBlocks(q),
           NEW n \in Nat, n = q * BLOCK, NEW m \in Nat,
           c.low = (8 * (n + m)) % WORD, c.high = ((8 * (n + m)) \div WORD) % WORD
    PROVE  M!Took(M!UpdateBlocks(c, Bytes(n, m)), n + m)
  <1> DEFINE d == M!UpdateBlocks(c, Bytes(n, m))
             a == q + (m \div BLOCK)
             rest == m % BLOCK
  <1>1. /\ d \in M!Context /\ d.low = c.low /\ d.high = c.high
        /\ d.blocks = FullBlocks(a)
        /\ \A i \in 1..rest : d.in[i] = a * BLOCK + i
    BY BlocksTaken
  <1> HIDE DEF d
  <1>2. (n + m) \div BLOCK = a /\ (n + m) % BLOCK = rest
    <2>1. BLOCK \in Nat \ {0}
      BY Sizes
    <2>2. (q * BLOCK + m) \div BLOCK = a /\ (q * BLOCK + m) % BLOCK = rest
      BY <2>1, DivisionFrom
    <2> QED BY <2>2
  <1> HIDE DEF a, rest
  <1>3. /\ d.blocks = FullBlocks((n + m) \div BLOCK)
        /\ \A i \in 1..(n + m) % BLOCK :
              d.in[i] = ((n + m) \div BLOCK) * BLOCK + i
    BY <1>1, <1>2
  <1>4. d.low = (8 * (n + m)) % WORD /\ d.high = ((8 * (n + m)) \div WORD) % WORD
    BY <1>1
  <1>5. d \in M!Context
    BY <1>1
  <1>6. M!Took(d, n + m)
    <2> DEFINE l == n + m
    <2>1. /\ d \in M!Context
          /\ d.low = (8 * l) % WORD /\ d.high = ((8 * l) \div WORD) % WORD
          /\ d.blocks = FullBlocks(l \div BLOCK)
          /\ \A i \in 1..l % BLOCK : d.in[i] = (l \div BLOCK) * BLOCK + i
      BY <1>3, <1>4, <1>5
    <2> HIDE DEF l
    <2>2. M!Took(d, l)
      BY <2>1, TookIs
    <2> QED BY <2>2 DEF l
  <1> QED BY <1>6 DEF d

LEMMA BlockMore ==
    ASSUME NEW q \in Nat
    PROVE  Append(FullBlocks(q), FullBlock(q + 1)) = FullBlocks(q + 1)
  <1> DEFINE s == FullBlocks(q)
             e == FullBlock(q + 1)
             t == Append(s, e)
             u == FullBlocks(q + 1)
  <1>1. s \in Seq(Seq(Int)) /\ Len(s) = q /\ \A k \in 1..q : s[k] = FullBlock(k)
    BY BlocksSeq
  <1>2. u \in Seq(Seq(Int)) /\ Len(u) = q + 1
        /\ \A k \in 1..q + 1 : u[k] = FullBlock(k)
    <2>1. q + 1 \in Nat
      OBVIOUS
    <2> QED BY <2>1, BlocksSeq
  <1>3. e \in Seq(Int)
    <2>1. q + 1 \in Int
      OBVIOUS
    <2> QED BY <2>1, BlockIs
  <1>4. e = FullBlock(q + 1)
    OBVIOUS
  <1> HIDE DEF s, u, e
  <1>5. /\ t \in Seq(Seq(Int)) /\ Len(t) = Len(s) + 1
        /\ \A k \in 1..Len(s) : t[k] = s[k]
        /\ t[Len(s) + 1] = e
    BY <1>1, <1>3, AppendProperties
  <1> HIDE DEF t
  <1>6. \A k \in 1..q + 1 : t[k] = u[k]
    <2> TAKE k \in 1..q + 1
    <2>1. CASE k = q + 1
      BY <1>1, <1>2, <1>4, <1>5, <2>1
    <2>2. CASE ~ (k = q + 1)
      <3>1. k \in 1..q
        BY <2>2
      <3> QED BY <1>1, <1>2, <1>5, <3>1
    <2> QED BY <2>1, <2>2
  <1>7. Len(t) = Len(u) /\ Len(t) = q + 1
    BY <1>1, <1>2, <1>5
  <1>8. t = u
    BY <1>2, <1>5, <1>6, <1>7, SeqEqual
  <1> QED BY <1>8 DEF s, e, t, u


(* The buffer with bytes behind those it holds.                            *)
LEMMA PutBehind ==
    ASSUME NEW in \in [1..BLOCK -> Int], NEW b \in Int, NEW h \in Nat,
           NEW m \in Nat, h + m <= BLOCK,
           \A i \in 1..h : in[i] = b + i
    PROVE  /\ M!Put(in, h, Bytes(b + h, m)) \in [1..BLOCK -> Int]
           /\ \A i \in 1..h + m : M!Put(in, h, Bytes(b + h, m))[i] = b + i
  <1> DEFINE data == Bytes(b + h, m)
             put == M!Put(in, h, data)
  <1>1. DOMAIN data = 1..m /\ \A i \in 1..m : data[i] = b + h + i
    BY DEF Bytes
  <1> HIDE DEF data
  <1>2. put \in [1..BLOCK -> Int]
        /\ \A i \in 1..BLOCK :
              put[i] = IF i - h \in 1..m THEN data[i - h] ELSE in[i]
    BY <1>1 DEF M!Put
  <1> HIDE DEF put
  <1>3. BLOCK \in Nat
    BY Sizes
  <1>4. \A i \in 1..h + m : put[i] = b + i
    <2> TAKE i \in 1..h + m
    <2>1. i \in 1..BLOCK
      BY <1>3
    <2>2. CASE i <= h
      <3>1. i \in 1..h /\ ~ (i - h \in 1..m)
        BY <2>2
      <3> QED BY <1>2, <2>1, <3>1
    <2>3. CASE ~ (i <= h)
      <3>1. i - h \in 1..m /\ b + h + (i - h) = b + i
        BY <2>3
      <3> QED BY <1>1, <1>2, <2>1, <3>1
    <2> QED BY <2>2, <2>3
  <1> QED BY <1>2, <1>4 DEF put, data

(* A context that is given the next bytes has taken them in, wherever the  *)
(* chunk begins and ends.                                                  *)
LEMMA UpdateTook ==
    ASSUME NEW c, NEW n \in Nat, M!Took(c, n), NEW m \in Nat
    PROVE  M!Took(M!Update(c, Bytes(n, m)), n + m)
  <1> DEFINE q == n \div BLOCK
             h == n % BLOCK
             b == q * BLOCK
             k == M!Counted(c, m)
             room == BLOCK - h
             data == Bytes(n, m)
             filled == M!Put(c.in, h, SubSeq(data, 1, room))
             next == [k EXCEPT !.in = filled,
                               !.blocks = M!Transform(k, filled)]
  <1>1. /\ c \in M!Context
        /\ c.low = (8 * n) % WORD /\ c.high = ((8 * n) \div WORD) % WORD
        /\ c.blocks = FullBlocks(q)
        /\ \A i \in 1..h : c.in[i] = b + i
    BY TookIs
  <1>2. BLOCK \in Nat \ {0} /\ q \in Nat /\ h \in 0..BLOCK - 1 /\ n = b + h
        /\ b \in Nat
    <2>1. BLOCK \in Nat \ {0}
      BY Sizes
    <2>2. q \in Nat /\ h \in 0..BLOCK - 1 /\ n = BLOCK * q + h
      BY <2>1, Division
    <2>3. BLOCK * q \in Nat /\ BLOCK * q = b
      BY <2>1, <2>2, Times
    <2> QED BY <2>1, <2>2, <2>3
  <1>3. M!Held(c) = h
    BY <1>1, HeldIs
  <1>4. /\ k \in M!Context /\ k.in = c.in /\ k.blocks = c.blocks
        /\ k.low = (8 * (n + m)) % WORD
        /\ k.high = ((8 * (n + m)) \div WORD) % WORD
    BY <1>1, CountedIs
  <1>5. M!Update(c, data) =
           IF h = 0 THEN M!UpdateBlocks(k, data)
           ELSE IF m < room THEN [k EXCEPT !.in = M!Put(@, h, data)]
           ELSE M!UpdateBlocks(next, SubSeq(data, room + 1, m))
    <2>1. Len(data) = m
      BY BytesSeq
    <2> QED BY <1>3, <2>1 DEF M!Update
  <1> HIDE DEF k
  <1>6. CASE h = 0
    <2>1. n = b
      BY <1>2, <1>6
    <2> HIDE DEF q
    <2>2. k.blocks = FullBlocks(q)
      BY <1>1, <1>4
    <2>3. M!Took(M!UpdateBlocks(k, data), n + m)
      BY <1>2, <1>4, <2>1, <2>2, BlocksTook
    <2> QED BY <1>5, <1>6, <2>3
  <1>7. CASE h # 0 /\ m < room
    <2> DEFINE put == M!Put(c.in, h, data)
               d == [k EXCEPT !.in = M!Put(@, h, data)]
    <2>1. put \in [1..BLOCK -> Int] /\ \A i \in 1..h + m : put[i] = b + i
      <3>1. c.in \in [1..BLOCK -> Int]
        BY <1>1, ContextIs
      <3>2. h \in Nat /\ h + m <= BLOCK /\ b \in Int /\ n = b + h
        BY <1>2, <1>7
      <3>3. \A i \in 1..h : c.in[i] = b + i
        BY <1>1
      <3> HIDE DEF h, b
      <3> DEFINE p == M!Put(c.in, h, Bytes(b + h, m))
      <3>4. p \in [1..BLOCK -> Int] /\ \A i \in 1..h + m : p[i] = b + i
        BY <3>1, <3>2, <3>3, PutBehind
      <3> QED BY <3>2, <3>4
    <2>2. d = [k EXCEPT !.in = put]
      BY <1>4
    <2> HIDE DEF put
    <2>3. /\ d \in M!Context /\ d.low = k.low /\ d.high = k.high
          /\ d.blocks = k.blocks /\ d.in = put
      BY <1>4, <2>1, <2>2 DEF M!Context
    <2> HIDE DEF d
    <2>4. (n + m) \div BLOCK = q /\ (n + m) % BLOCK = h + m
      <3> DEFINE l == h + m
      <3>1. l \in 0..BLOCK - 1 /\ l \in Nat
        BY <1>2, <1>7
      <3>2. n + m = b + l
        BY <1>2
      <3> HIDE DEF l, h
      <3>3. b + l = BLOCK * q + l /\ b + l \in Nat
        BY <1>2, <3>1, Times
      <3> HIDE DEF b, q
      <3>4. (b + l) \div BLOCK = q /\ (b + l) % BLOCK = l
        BY <1>2, <3>1, <3>3, DivisionIs
      <3> QED BY <3>2, <3>4 DEF l
    <2>5. M!Took(d, n + m)
      <3> DEFINE l == n + m
      <3>1. /\ d \in M!Context
            /\ d.low = (8 * l) % WORD /\ d.high = ((8 * l) \div WORD) % WORD
            /\ d.blocks = FullBlocks(l \div BLOCK)
            /\ \A i \in 1..l % BLOCK : d.in[i] = (l \div BLOCK) * BLOCK + i
        <4> HIDE DEF q, h
        <4> QED BY <1>1, <1>4, <2>1, <2>3, <2>4
      <3> HIDE DEF l
      <3>2. M!Took(d, l)
        BY <3>1, TookIs
      <3> QED BY <3>2 DEF l
    <2> QED BY <1>5, <1>7, <2>5 DEF d
  <1>8. CASE h # 0 /\ ~ (m < room)
    <2> DEFINE e == n + room
               l == m - room
    <2>1. room \in Nat /\ l \in Nat /\ room <= m /\ h + room = BLOCK /\ h \in Nat
      BY <1>2, <1>8
    <2>2. e = b + BLOCK /\ e \in Nat /\ e + l = n + m /\ room + l = m
      BY <1>2, <2>1
    <2>3. SubSeq(data, 1, room) = Bytes(n, room)
          /\ SubSeq(data, room + 1, m) = Bytes(e, l)
      <3> HIDE DEF room
      <3> QED BY <2>1, BytesSplit
    <2>4. SubSeq(data, room + 1, m) = Bytes(e, l)
      BY <2>3
    <2>5. filled = FullBlock(q + 1)
      <3> HIDE DEF room, h, data
      <3>1. filled = M!Put(c.in, h, Bytes(n, room))
        BY <2>3
      <3>2. filled \in [1..BLOCK -> Int] /\ \A i \in 1..h + room : filled[i] = b + i
        <4>1. c.in \in [1..BLOCK -> Int]
          BY <1>1, ContextIs
        <4>2. h + room <= BLOCK /\ b \in Int /\ n = b + h
          BY <1>2, <2>1
        <4>3. \A i \in 1..h : c.in[i] = b + i
          BY <1>1
        <4> HIDE DEF b
        <4> DEFINE p == M!Put(c.in, h, Bytes(b + h, room))
        <4>4. p \in [1..BLOCK -> Int] /\ \A i \in 1..h + room : p[i] = b + i
          BY <2>1, <4>1, <4>2, <4>3, PutBehind
        <4> QED BY <3>1, <4>2, <4>4
      <3>3. FullBlock(q + 1) \in [1..BLOCK -> Int]
            /\ \A i \in 1..BLOCK : FullBlock(q + 1)[i] = b + i
        <4>1. q + 1 \in Int /\ (q + 1) - 1 = q
          BY <1>2
        <4>2. FullBlock(q + 1) \in [1..BLOCK -> Int]
            /\ \A i \in 1..BLOCK : FullBlock(q + 1)[i] = ((q + 1) - 1) * BLOCK + i
          BY <4>1, BlockIs
        <4> QED BY <4>1, <4>2
      <3> HIDE DEF filled, b
      <3> QED BY <2>1, <3>2, <3>3
    <2>6. next.blocks = FullBlocks(q + 1) /\ next \in M!Context
          /\ next.low = k.low /\ next.high = k.high
      <3>1. M!Transform(k, filled) = FullBlocks(q + 1)
        <4> HIDE DEF q, filled
        <4> QED BY <1>1, <1>2, <1>4, <2>5, BlockMore DEF M!Transform
      <3>2. FullBlocks(q + 1) \in Seq(Seq(Int))
        <4>1. q + 1 \in Nat
          BY <1>2
        <4> HIDE DEF q
        <4> QED BY <4>1, BlocksSeq
      <3>3. filled \in [1..BLOCK -> Int]
        <4>1. q + 1 \in Int
          BY <1>2
        <4> HIDE DEF q, filled
        <4> QED BY <2>5, <4>1, BlockIs
      <3>4. next = [k EXCEPT !.in = filled, !.blocks = FullBlocks(q + 1)]
        BY <3>1
      <3> HIDE DEF filled, q, next
      <3> QED BY <1>4, <3>2, <3>3, <3>4 DEF M!Context
    <2> HIDE DEF next
    <2>7. e = (q + 1) * BLOCK /\ q + 1 \in Nat
      <3>1. BLOCK * (q + 1) = BLOCK * q + BLOCK /\ q * BLOCK = BLOCK * q
        BY <1>2, Times
      <3>2. (q + 1) * BLOCK = BLOCK * (q + 1) /\ q + 1 \in Nat
        <4>1. q + 1 \in Nat
          BY <1>2
        <4> QED BY <1>2, <4>1, Times
      <3> HIDE DEF q, e
      <3> QED BY <2>2, <3>1, <3>2
    <2> HIDE DEF e, l
    <2>8. M!Took(M!UpdateBlocks(next, Bytes(e, l)), e + l)
      <3>1. next.low = (8 * (e + l)) % WORD
            /\ next.high = ((8 * (e + l)) \div WORD) % WORD
        BY <1>4, <2>2, <2>6
      <3> DEFINE p == q + 1
      <3>2. p \in Nat /\ e = p * BLOCK /\ next.blocks = FullBlocks(p)
        BY <2>6, <2>7
      <3> HIDE DEF p
      <3> QED BY <2>1, <2>2, <2>6, <3>1, <3>2, BlocksTook
    <2> QED BY <1>5, <1>8, <2>2, <2>4, <2>8
  <1> QED BY <1>6, <1>7, <1>8

LEMMA FreshTook == M!Took(M!Fresh, 0)
  <1> DEFINE in == [i \in 1..BLOCK |-> M!PAD]
  <1>1. BLOCK \in Nat \ {0} /\ WORD \in Nat \ {0}
    BY Sizes
  <1>2. in \in [1..BLOCK -> Int]
    BY DEF M!PAD
  <1>3. << >> \in Seq(Seq(Int)) /\ 0 \in 0..WORD - 1
    BY <1>1
  <1>4. M!Fresh = [low |-> 0, high |-> 0, in |-> in, blocks |-> << >>]
    BY DEF M!Fresh
  <1> HIDE DEF in
  <1>5. M!Fresh \in M!Context
    BY <1>2, <1>3, <1>4 DEF M!Context
  <1>6. 8 * 0 = 0 /\ 0 % WORD = 0 /\ 0 \div WORD = 0
        /\ 0 \div BLOCK = 0 /\ 0 % BLOCK = 0
    <2>1. \A d \in Nat \ {0} : 0 \div d = 0 /\ 0 % d = 0
      OBVIOUS
    <2> QED BY <1>1, <2>1
  <1>7. FullBlocks(0) = << >>
    BY DEF FullBlocks
  <1> QED BY <1>4, <1>5, <1>6, <1>7, TookIs


---------------------------------------------------------------------------
(* md5::final.                                                             *)

Byte(n, p) == IF p <= n THEN p ELSE IF p = n + 1 THEN M!PAD ELSE M!ZERO
PaddedBlock(n, k, size) == [i \in 1..size |-> Byte(n, (k - 1) * BLOCK + i)]
LengthBlock(n, k) ==
    PaddedBlock(n, k, BLOCK - LENGTH) \o <<(8 * n) % WORD, ((8 * n) \div WORD) % WORD>>

LEMMA ByteIsInt ==
    ASSUME NEW n \in Nat, NEW p \in Int
    PROVE  Byte(n, p) \in Int
  BY DEF Byte, M!PAD, M!ZERO

LEMMA PaddedBlockIs ==
    ASSUME NEW n \in Nat, NEW k \in Int, NEW size \in Nat
    PROVE  PaddedBlock(n, k, size) \in Seq(Int)
           /\ PaddedBlock(n, k, size) \in [1..size -> Int]
  <1> DEFINE p == (k - 1) * BLOCK
  <1>1. p \in Int
    <2>1. k - 1 \in Int /\ BLOCK \in Int
      BY Sizes
    <2> QED BY <2>1
  <1> HIDE DEF p
  <1>2. \A i \in 1..size : Byte(n, p + i) \in Int
    <2> TAKE i \in 1..size
    <2>1. p + i \in Int
      BY <1>1
    <2> QED BY <2>1, ByteIsInt
  <1>3. PaddedBlock(n, k, size) = [i \in 1..size |-> Byte(n, p + i)]
    BY DEF PaddedBlock, p
  <1> QED BY <1>2, <1>3

LEMMA LengthBlockIs ==
    ASSUME NEW n \in Nat, NEW k \in Int
    PROVE  LengthBlock(n, k) \in Seq(Int)
  <1> DEFINE s == PaddedBlock(n, k, BLOCK - LENGTH)
             low == (8 * n) % WORD
             high == ((8 * n) \div WORD) % WORD
             t == <<low, high>>
  <1>1. BLOCK - LENGTH \in Nat
    BY Sizes
  <1>2. s \in Seq(Int)
    BY <1>1, PaddedBlockIs
  <1>3. low \in Int /\ high \in Int
    <2>1. WORD \in Nat \ {0} /\ 8 * n \in Nat
      BY Sizes
    <2>2. (8 * n) \div WORD \in Nat /\ low \in Nat
      BY <2>1, Division
    <2> QED BY <2>1, <2>2, Division
  <1> HIDE DEF low, high
  <1>4. t \in Seq(Int)
    BY <1>3
  <1> HIDE DEF s, t
  <1>5. s \o t \in Seq(Int)
    BY <1>2, <1>4, ConcatProperties
  <1> QED BY <1>5 DEF LengthBlock, s, t, low, high

LEMMA PaddedSeq ==
    ASSUME NEW n \in Nat, NEW last \in Nat, (n + LENGTH) \div BLOCK = last
    PROVE  /\ M!Padded(n) \in Seq(Seq(Int)) /\ Len(M!Padded(n)) = last + 1
           /\ \A k \in 1..last : M!Padded(n)[k] = PaddedBlock(n, k, BLOCK)
           /\ M!Padded(n)[last + 1] = LengthBlock(n, last + 1)
  <1> DEFINE e(k) == IF k < last + 1 THEN PaddedBlock(n, k, BLOCK) ELSE LengthBlock(n, k)
             s == [k \in 1..last + 1 |-> e(k)]
  <1>1. M!Padded(n) = s
    BY DEF M!Padded, PaddedBlock, LengthBlock, Byte
  <1>2. \A k \in 1..last + 1 : e(k) \in Seq(Int)
    <2>1. BLOCK \in Nat
      BY Sizes
    <2> TAKE k \in 1..last + 1
    <2>2. k \in Int
      OBVIOUS
    <2>3. PaddedBlock(n, k, BLOCK) \in Seq(Int) /\ LengthBlock(n, k) \in Seq(Int)
      BY <2>1, <2>2, PaddedBlockIs, LengthBlockIs
    <2> QED BY <2>3
  <1>3. \A k \in 1..last : e(k) = PaddedBlock(n, k, BLOCK)
    OBVIOUS
  <1>4. e(last + 1) = LengthBlock(n, last + 1)
    OBVIOUS
  <1> HIDE DEF e
  <1>5. s \in Seq(Seq(Int)) /\ Len(s) = last + 1 /\ \A k \in 1..last + 1 : s[k] = e(k)
    BY <1>2
  <1> HIDE DEF s
  <1> QED BY <1>1, <1>3, <1>4, <1>5

(* The whole blocks of a message are those of what it is padded to.        *)
LEMMA WholeBlocks ==
    ASSUME NEW n \in Nat, NEW q \in Nat, q * BLOCK <= n, NEW k \in 1..q
    PROVE  FullBlock(k) = PaddedBlock(n, k, BLOCK)
  <1> DEFINE p == (k - 1) * BLOCK
  <1>1. BLOCK \in Nat
    BY Sizes
  <1>2. p \in Int /\ p + BLOCK <= n
    <2>1. k - 1 \in Int /\ q - k \in Nat /\ q = (k - 1) + ((q - k) + 1)
          /\ (q - k) + 1 \in Int
      OBVIOUS
    <2>2. BLOCK * ((k - 1) + ((q - k) + 1)) = BLOCK * (k - 1) + BLOCK * ((q - k) + 1)
      BY <1>1, <2>1, Times
    <2>3. BLOCK * ((q - k) + 1) = BLOCK * (q - k) + BLOCK /\ BLOCK * (q - k) \in Nat
      BY <1>1, <2>1, Times
    <2>4. q * BLOCK = BLOCK * q /\ (k - 1) * BLOCK = BLOCK * (k - 1)
          /\ BLOCK * (k - 1) \in Int
      BY <1>1, <2>1, Times
    <2> QED BY <1>1, <2>1, <2>2, <2>3, <2>4
  <1>3. FullBlock(k) = [i \in 1..BLOCK |-> p + i]
    BY DEF FullBlock
  <1>4. PaddedBlock(n, k, BLOCK) = [i \in 1..BLOCK |-> Byte(n, p + i)]
    BY DEF PaddedBlock
  <1> HIDE DEF p
  <1>5. \A i \in 1..BLOCK : Byte(n, p + i) = p + i
    <2>1. \A i \in 1..BLOCK : p + i <= n
      BY <1>1, <1>2
    <2> QED BY <2>1 DEF Byte
  <1> QED BY <1>3, <1>4, <1>5

LEMMA FirstOf ==
    ASSUME NEW in \in [1..BLOCK -> Int], NEW r \in Nat, r <= BLOCK
    PROVE  SubSeq(in, 1, r) = [i \in 1..r |-> in[i]]
  <1> DEFINE t == SubSeq(in, 1, r)
             u == [i \in 1..r |-> in[i]]
  <1>1. BLOCK \in Nat
    BY Sizes
  <1>2. \A i \in 1..r : in[i] \in Int
    BY <1>1
  <1>3. u \in Seq(Int) /\ Len(u) = r /\ \A i \in 1..r : u[i] = in[i]
    BY <1>2
  <1> HIDE DEF u
  <1>4. /\ t \in Seq(Int) /\ Len(t) = IF 1 <= r THEN r - 1 + 1 ELSE 0
        /\ \A i \in 1..r - 1 + 1 : t[i] = in[1 + i - 1]
    BY <1>2, SubSeqProperties
  <1> HIDE DEF t
  <1>5. Len(t) = r /\ \A i \in 1..r : t[i] = in[i]
    BY <1>4
  <1>6. t = u
    BY <1>3, <1>4, <1>5, SeqEqual
  <1> QED BY <1>6 DEF t, u

(* The buffer with the padding byte and zeros behind the bytes it holds.   *)
LEMMA PadBehind ==
    ASSUME NEW in \in [1..BLOCK -> Int], NEW q \in Nat, NEW h \in 0..BLOCK - 1,
           NEW n \in Nat, n = q * BLOCK + h,
           \A i \in 1..h : in[i] = q * BLOCK + i
    PROVE  M!Put(M!Put(in, h, <<M!PAD>>), h + 1, M!Zeros(BLOCK - 1 - h))
              = PaddedBlock(n, q + 1, BLOCK)
  <1> DEFINE b == q * BLOCK
             one == M!Put(in, h, <<M!PAD>>)
             zeros == M!Zeros(BLOCK - 1 - h)
             put == M!Put(one, h + 1, zeros)
  <1>1. BLOCK \in Nat /\ b \in Int
    <2>1. BLOCK \in Nat
      BY Sizes
    <2> QED BY <2>1
  <1>2. PaddedBlock(n, q + 1, BLOCK) = [i \in 1..BLOCK |-> Byte(n, b + i)]
    <2>1. (q + 1) - 1 = q
      OBVIOUS
    <2> QED BY <2>1 DEF PaddedBlock
  <1>3. n = b + h /\ \A i \in 1..h : in[i] = b + i
    OBVIOUS
  <1> HIDE DEF b
  <1>4. one = [i \in 1..BLOCK |-> IF i = h + 1 THEN M!PAD ELSE in[i]]
    <2>1. DOMAIN <<M!PAD>> = {1} /\ <<M!PAD>>[1] = M!PAD
      OBVIOUS
    <2>2. \A i \in 1..BLOCK : (i - h \in {1}) <=> i = h + 1
      BY <1>1
    <2>3. \A i \in 1..BLOCK : i = h + 1 => i - h = 1
      BY <1>1
    <2> DEFINE pad == <<M!PAD>>
    <2>4. DOMAIN pad = {1} /\ pad[1] = M!PAD
      BY <2>1
    <2> HIDE DEF pad
    <2>5. M!Put(in, h, pad) = [i \in 1..BLOCK |-> IF i = h + 1 THEN M!PAD ELSE in[i]]
      BY <2>2, <2>3, <2>4 DEF M!Put
    <2> QED BY <2>5 DEF pad
  <1> HIDE DEF one
  <1>5. put = [i \in 1..BLOCK |-> IF i > h + 1 THEN M!ZERO ELSE one[i]]
    <2>1. DOMAIN zeros = 1..BLOCK - 1 - h
          /\ \A j \in 1..BLOCK - 1 - h : zeros[j] = M!ZERO
      BY DEF M!Zeros
    <2>2. \A i \in 1..BLOCK : (i - (h + 1) \in 1..BLOCK - 1 - h) <=> i > h + 1
      BY <1>1
    <2> HIDE DEF zeros
    <2> QED BY <2>1, <2>2 DEF M!Put
  <1> HIDE DEF put
  <1>6. \A i \in 1..BLOCK : put[i] = Byte(n, b + i)
    <2> TAKE i \in 1..BLOCK
    <2>1. put[i] = IF i > h + 1 THEN M!ZERO ELSE IF i = h + 1 THEN M!PAD ELSE in[i]
      BY <1>4, <1>5
    <2>2. CASE i > h + 1
      <3>1. ~ (b + i <= n) /\ b + i # n + 1
        BY <1>1, <1>3, <2>2
      <3> QED BY <2>1, <2>2, <3>1 DEF Byte
    <2>3. CASE i = h + 1
      <3>1. ~ (b + i <= n) /\ b + i = n + 1 /\ ~ (i > h + 1)
        BY <1>1, <1>3, <2>3
      <3> QED BY <2>1, <2>3, <3>1 DEF Byte
    <2>4. CASE i < h + 1
      <3>1. b + i <= n /\ ~ (i > h + 1) /\ i # h + 1 /\ i \in 1..h
        BY <1>1, <1>3, <2>4
      <3> QED BY <1>3, <2>1, <3>1 DEF Byte
    <2>5. i > h + 1 \/ i = h + 1 \/ i < h + 1
      BY <1>1
    <2> QED BY <2>2, <2>3, <2>4, <2>5
  <1>7. put = [i \in 1..BLOCK |-> put[i]]
    BY <1>5
  <1> QED BY <1>2, <1>6, <1>7 DEF put, one, zeros


LEMMA SeqIntIs ==
    ASSUME NEW in \in [1..BLOCK -> Int]
    PROVE  in \in Seq(Int)
  <1>1. BLOCK \in Nat
    BY Sizes
  <1> QED BY <1>1

(* The last block has the length behind the bytes that are left in it.     *)
LEMMA LastIs ==
    ASSUME NEW c, NEW n \in Nat, M!Took(c, n), NEW k \in Int,
           NEW in \in [1..BLOCK -> Int],
           \A i \in 1..BLOCK - LENGTH : in[i] = Byte(n, (k - 1) * BLOCK + i)
    PROVE  M!LastBlock(c, in) = LengthBlock(n, k)
  <1> DEFINE r == BLOCK - LENGTH
  <1>1. r \in Nat /\ r <= BLOCK
    BY Sizes
  <1>2. SubSeq(in, 1, r) = [i \in 1..r |-> in[i]]
    <2> HIDE DEF r
    <2> QED BY <1>1, FirstOf
  <1>3. [i \in 1..r |-> in[i]] = PaddedBlock(n, k, r)
    BY DEF PaddedBlock
  <1>4. c.low = (8 * n) % WORD /\ c.high = ((8 * n) \div WORD) % WORD
    BY TookIs
  <1> QED BY <1>2, <1>3, <1>4 DEF M!LastBlock, LengthBlock

(* With room for the length behind the padding byte, one block is added.   *)
LEMMA FinalShort ==
    ASSUME NEW c, NEW n \in Nat, M!Took(c, n), (n % BLOCK) + LENGTH < BLOCK
    PROVE  M!Final(c) = M!Padded(n)
  <1> DEFINE q == n \div BLOCK
             h == n % BLOCK
             b == q * BLOCK
             left == BLOCK - 1 - h
             padded == M!Put(M!Put(c.in, h, <<M!PAD>>), h + 1, M!Zeros(left))
             blocks == FullBlocks(q)
             last == M!LastBlock(c, padded)
             s == Append(blocks, last)
             t == M!Padded(n)
  <1>1. BLOCK \in Nat \ {0} /\ LENGTH \in Nat /\ q \in Nat /\ h \in 0..BLOCK - 1
        /\ n = b + h /\ b \in Nat /\ h + LENGTH < BLOCK
    <2>1. BLOCK \in Nat \ {0} /\ LENGTH \in Nat
      BY Sizes
    <2>2. q \in Nat /\ h \in 0..BLOCK - 1 /\ n = BLOCK * q + h
      BY <2>1, Division
    <2>3. BLOCK * q \in Nat /\ BLOCK * q = b
      BY <2>1, <2>2, Times
    <2> QED BY <2>1, <2>2, <2>3
  <1>2. /\ c \in M!Context /\ c.blocks = blocks
        /\ \A i \in 1..h : c.in[i] = b + i
    BY TookIs
  <1>3. M!Final(c) = s
    <2>1. M!Held(c) = h
      BY <1>2, TookIs, HeldIs
    <2>2. ~ (left < LENGTH)
      BY <1>1
    <2> HIDE DEF h
    <2> QED BY <1>2, <2>1, <2>2 DEF M!Final
  <1>4. padded = PaddedBlock(n, q + 1, BLOCK) /\ padded \in [1..BLOCK -> Int]
    <2>1. c.in \in [1..BLOCK -> Int]
      BY <1>2, ContextIs
    <2> HIDE DEF q, h
    <2>2. padded = PaddedBlock(n, q + 1, BLOCK)
      BY <1>1, <1>2, <2>1, PadBehind
    <2>3. q + 1 \in Int /\ BLOCK \in Nat
      BY <1>1
    <2>4. PaddedBlock(n, q + 1, BLOCK) \in [1..BLOCK -> Int]
      BY <2>3, PaddedBlockIs
    <2> HIDE DEF padded
    <2> QED BY <2>2, <2>4
  <1> HIDE DEF padded
  <1>5. last = LengthBlock(n, q + 1) /\ last \in Seq(Int)
    <2> DEFINE k == q + 1
    <2>1. k \in Int /\ padded = PaddedBlock(n, k, BLOCK)
      BY <1>1, <1>4
    <2> HIDE DEF k
    <2>2. \A i \in 1..BLOCK - LENGTH : i \in 1..BLOCK
      BY <1>1
    <2>3. \A i \in 1..BLOCK - LENGTH : padded[i] = Byte(n, (k - 1) * BLOCK + i)
      BY <2>1, <2>2 DEF PaddedBlock
    <2>4. last = LengthBlock(n, k) /\ LengthBlock(n, k) \in Seq(Int)
      BY <1>4, <2>1, <2>3, LastIs, LengthBlockIs
    <2> QED BY <2>4 DEF k
  <1>6. (n + LENGTH) \div BLOCK = q
    <2> DEFINE x == n + LENGTH
               r == h + LENGTH
    <2>1. r \in 0..BLOCK - 1 /\ x = b + r /\ x \in Nat
      BY <1>1
    <2> HIDE DEF x, r, h
    <2>2. x = BLOCK * q + r
      BY <1>1, <2>1, Times
    <2> HIDE DEF q, b
    <2>3. x \div BLOCK = q
      BY <1>1, <2>1, <2>2, DivisionIs
    <2> QED BY <2>3 DEF x
  <1>7. /\ blocks \in Seq(Seq(Int)) /\ Len(blocks) = q
        /\ \A k \in 1..q : blocks[k] = PaddedBlock(n, k, BLOCK)
    <2>1. /\ blocks \in Seq(Seq(Int)) /\ Len(blocks) = q
          /\ \A k \in 1..q : blocks[k] = FullBlock(k)
      BY <1>1, BlocksSeq
    <2>2. \A k \in 1..q : FullBlock(k) = PaddedBlock(n, k, BLOCK)
      <3>1. q * BLOCK <= n
        BY <1>1
      <3> HIDE DEF q
      <3> QED BY <1>1, <3>1, WholeBlocks
    <2> QED BY <2>1, <2>2
  <1> HIDE DEF q, blocks, last
  <1>8. /\ t \in Seq(Seq(Int)) /\ Len(t) = q + 1
        /\ \A k \in 1..q : t[k] = PaddedBlock(n, k, BLOCK)
        /\ t[q + 1] = LengthBlock(n, q + 1)
    BY <1>1, <1>6, PaddedSeq
  <1>9. /\ s \in Seq(Seq(Int)) /\ Len(s) = Len(blocks) + 1
        /\ \A k \in 1..Len(blocks) : s[k] = blocks[k]
        /\ s[Len(blocks) + 1] = last
    BY <1>5, <1>7, AppendProperties
  <1> HIDE DEF s, t
  <1>10. \A k \in 1..q + 1 : s[k] = t[k]
    <2> TAKE k \in 1..q + 1
    <2>1. CASE k = q + 1
      BY <1>5, <1>7, <1>8, <1>9, <2>1
    <2>2. CASE ~ (k = q + 1)
      <3>1. k \in 1..q
        BY <1>1, <2>2
      <3> QED BY <1>7, <1>8, <1>9, <3>1
    <2> QED BY <2>1, <2>2
  <1>11. Len(s) = q + 1
    BY <1>7, <1>9
  <1>12. s = t
    BY <1>8, <1>9, <1>10, <1>11, SeqEqual
  <1> QED BY <1>3, <1>12 DEF t


(* Without, the padding fills one block and the length another.            *)
LEMMA FinalLong ==
    ASSUME NEW c, NEW n \in Nat, M!Took(c, n), ~ ((n % BLOCK) + LENGTH < BLOCK)
    PROVE  M!Final(c) = M!Padded(n)
  <1> DEFINE q == n \div BLOCK
             h == n % BLOCK
             b == q * BLOCK
             left == BLOCK - 1 - h
             padded == M!Put(M!Put(c.in, h, <<M!PAD>>), h + 1, M!Zeros(left))
             blocks == FullBlocks(q)
             last == M!LastBlock(c, M!Zeros(BLOCK))
             r == Append(blocks, padded)
             s == Append(r, last)
             t == M!Padded(n)
  <1>1. BLOCK \in Nat \ {0} /\ LENGTH \in Nat /\ LENGTH < BLOCK /\ q \in Nat
        /\ h \in 0..BLOCK - 1 /\ n = b + h /\ b \in Nat /\ ~ (h + LENGTH < BLOCK)
    <2>1. BLOCK \in Nat \ {0} /\ LENGTH \in Nat /\ LENGTH < BLOCK
      BY Sizes
    <2>2. q \in Nat /\ h \in 0..BLOCK - 1 /\ n = BLOCK * q + h
      BY <2>1, Division
    <2>3. BLOCK * q \in Nat /\ BLOCK * q = b
      BY <2>1, <2>2, Times
    <2> QED BY <2>1, <2>2, <2>3
  <1>2. /\ c \in M!Context /\ c.blocks = blocks
        /\ \A i \in 1..h : c.in[i] = b + i
    BY TookIs
  <1>3. M!Final(c) = s
    <2>1. M!Held(c) = h
      BY <1>2, TookIs, HeldIs
    <2>2. left < LENGTH
      BY <1>1
    <2> HIDE DEF h
    <2> QED BY <1>2, <2>1, <2>2 DEF M!Final, M!Transform
  <1>4. padded = PaddedBlock(n, q + 1, BLOCK) /\ padded \in Seq(Int)
    <2>1. c.in \in [1..BLOCK -> Int]
      BY <1>2, ContextIs
    <2> HIDE DEF q, h
    <2>2. padded = PaddedBlock(n, q + 1, BLOCK)
      BY <1>1, <1>2, <2>1, PadBehind
    <2>3. q + 1 \in Int /\ BLOCK \in Nat
      BY <1>1
    <2>4. PaddedBlock(n, q + 1, BLOCK) \in Seq(Int)
      BY <2>3, PaddedBlockIs
    <2> HIDE DEF padded
    <2> QED BY <2>2, <2>4
  <1> HIDE DEF padded
  <1>5. last = LengthBlock(n, q + 2) /\ last \in Seq(Int)
    <2> DEFINE k == q + 2
               p == (k - 1) * BLOCK
               zeros == M!Zeros(BLOCK)
    <2>1. k \in Int /\ p = b + BLOCK
      <3>1. k \in Int /\ k - 1 = q + 1 /\ q + 1 \in Int
        BY <1>1
      <3>2. BLOCK * (q + 1) = BLOCK * q + BLOCK /\ BLOCK * q = b
            /\ (q + 1) * BLOCK = BLOCK * (q + 1)
        BY <1>1, <3>1, Times
      <3> HIDE DEF k, q
      <3> QED BY <3>1, <3>2
    <2>2. zeros \in [1..BLOCK -> Int] /\ \A i \in 1..BLOCK : zeros[i] = M!ZERO
      BY DEF M!Zeros, M!ZERO
    <2>3. \A i \in 1..BLOCK - LENGTH : zeros[i] = Byte(n, p + i)
      <3> TAKE i \in 1..BLOCK - LENGTH
      <3>1. i \in 1..BLOCK /\ ~ (p + i <= n) /\ p + i # n + 1
        <4> HIDE DEF p, h, q, b, k
        <4> QED BY <1>1, <2>1
      <3> QED BY <2>2, <3>1 DEF Byte
    <2> HIDE DEF k, zeros
    <2>4. M!LastBlock(c, zeros) = LengthBlock(n, k) /\ LengthBlock(n, k) \in Seq(Int)
      BY <2>1, <2>2, <2>3, LastIs, LengthBlockIs
    <2> QED BY <2>4 DEF k, zeros
  <1> DEFINE top == q + 1
  <1>6. (n + LENGTH) \div BLOCK = top
    <2> DEFINE x == n + LENGTH
               y == h + LENGTH - BLOCK
    <2>1. y \in 0..BLOCK - 1 /\ x = b + BLOCK + y /\ x \in Nat
      BY <1>1
    <2> HIDE DEF x, y, h
    <2>2. x = BLOCK * top + y
      <3>1. BLOCK * (q + 1) = BLOCK * q + BLOCK /\ BLOCK * q = b
        BY <1>1, Times
      <3> HIDE DEF b, q
      <3> QED BY <2>1, <3>1
    <2>3. top \in Nat
      BY <1>1
    <2> HIDE DEF q, b, top
    <2>4. x \div BLOCK = top
      BY <1>1, <2>1, <2>2, <2>3, DivisionIs
    <2> QED BY <2>4 DEF x
  <1>7. /\ blocks \in Seq(Seq(Int)) /\ Len(blocks) = q
        /\ \A k \in 1..q : blocks[k] = PaddedBlock(n, k, BLOCK)
    <2>1. /\ blocks \in Seq(Seq(Int)) /\ Len(blocks) = q
          /\ \A k \in 1..q : blocks[k] = FullBlock(k)
      BY <1>1, BlocksSeq
    <2>2. \A k \in 1..q : FullBlock(k) = PaddedBlock(n, k, BLOCK)
      <3>1. q * BLOCK <= n
        BY <1>1
      <3> HIDE DEF q
      <3> QED BY <1>1, <3>1, WholeBlocks
    <2> QED BY <2>1, <2>2
  <1>8. top \in Nat /\ top = q + 1 /\ q + 2 = top + 1 /\ q \in Nat
    BY <1>1
  <1> HIDE DEF q, blocks, last, top
  <1>9. /\ t \in Seq(Seq(Int)) /\ Len(t) = top + 1
        /\ \A k \in 1..top : t[k] = PaddedBlock(n, k, BLOCK)
        /\ t[top + 1] = LengthBlock(n, top + 1)
    BY <1>6, <1>8, PaddedSeq
  <1>10. /\ r \in Seq(Seq(Int)) /\ Len(r) = Len(blocks) + 1
         /\ \A k \in 1..Len(blocks) : r[k] = blocks[k]
         /\ r[Len(blocks) + 1] = padded
    BY <1>4, <1>7, AppendProperties
  <1> HIDE DEF r
  <1>11. Len(r) = top /\ \A k \in 1..top : r[k] = PaddedBlock(n, k, BLOCK)
    <2>1. Len(r) = top
      BY <1>7, <1>8, <1>10
    <2> SUFFICES ASSUME NEW k \in 1..top
                 PROVE  r[k] = PaddedBlock(n, k, BLOCK)
      BY <2>1
    <2>2. CASE k = top
      BY <1>4, <1>7, <1>8, <1>10, <2>2
    <2>3. CASE ~ (k = top)
      <3>1. k \in 1..q
        BY <1>8, <2>3
      <3> QED BY <1>7, <1>10, <3>1
    <2> QED BY <2>2, <2>3
  <1>12. /\ s \in Seq(Seq(Int)) /\ Len(s) = Len(r) + 1
         /\ \A k \in 1..Len(r) : s[k] = r[k]
         /\ s[Len(r) + 1] = last
    BY <1>5, <1>10, AppendProperties
  <1> HIDE DEF s, t
  <1>13. \A k \in 1..top + 1 : s[k] = t[k]
    <2> TAKE k \in 1..top + 1
    <2>1. CASE k = top + 1
      BY <1>5, <1>8, <1>9, <1>11, <1>12, <2>1
    <2>2. CASE ~ (k = top + 1)
      <3>1. k \in 1..top
        BY <1>8, <2>2
      <3> QED BY <1>9, <1>11, <1>12, <3>1
    <2> QED BY <2>1, <2>2
  <1>14. Len(s) = top + 1
    BY <1>11, <1>12
  <1>15. s = t
    BY <1>9, <1>12, <1>13, <1>14, SeqEqual
  <1> QED BY <1>3, <1>15 DEF t

(* What md5::final transforms is the padded message.                       *)
LEMMA FinalIs ==
    ASSUME NEW c, NEW n \in Nat, M!Took(c, n)
    PROVE  M!Final(c) = M!Padded(n)
  BY FinalShort, FinalLong


---------------------------------------------------------------------------
(* The md5 under way and its digest.                                       *)

Hashes == HashInv /\ DigestIsOfBytes

Hashing == [context : M!Context, total : 0..MaxBytes, limit : 0..MaxBytes]

LEMMA SameHashes ==
    ASSUME Hashes, UNCHANGED hashing, digest' \in {digest, NULL, Garbage}
    PROVE  Hashes'
  BY DEF Hashes, HashInv, DigestIsOfBytes, Garbage

LEMMA HashingIs ==
    ASSUME Hashes, hashing # NULL
    PROVE  /\ hashing \in Hashing /\ hashing.context \in M!Context
           /\ hashing.total \in 0..MaxBytes /\ hashing.limit \in 0..MaxBytes
           /\ hashing.total <= hashing.limit /\ hashing.total \in Nat
           /\ M!Took(hashing.context, hashing.total)
  BY DEF Hashes, HashInv, Hashing

LEMMA BeginMd5Hashes ==
    ASSUME Hashes, BeginMd5
    PROVE  Hashes'
  <1>1. PICK p \in Pointed \ {NULL} :
           IF kind[p] = "none"
           THEN digest' = Garbage /\ UNCHANGED hashing
           ELSE /\ hashing' = [context |-> M!Fresh, total |-> 0,
                               limit |-> IF kind[p] = "file" THEN MaxBytes ELSE 0]
                /\ digest' = NULL
    BY DEF BeginMd5
  <1>2. CASE kind[p] = "none"
    BY <1>1, <1>2, SameHashes
  <1>3. CASE kind[p] # "none"
    <2> DEFINE limit == IF kind[p] = "file" THEN MaxBytes ELSE 0
    <2>1. hashing' = [context |-> M!Fresh, total |-> 0, limit |-> limit]
          /\ digest' = NULL
      BY <1>1, <1>3
    <2>2. 0 \in 0..MaxBytes /\ limit \in 0..MaxBytes /\ 0 <= limit
      BY BoundsAreNats
    <2> HIDE DEF limit
    <2>3. M!Took(M!Fresh, 0) /\ M!Fresh \in M!Context
      BY FreshTook, TookIs
    <2>4. HashInv'
      BY <2>1, <2>2, <2>3 DEF HashInv
    <2> QED BY <2>1, <2>4 DEF Hashes, DigestIsOfBytes
  <1> QED BY <1>2, <1>3

LEMMA HashChunkHashes ==
    ASSUME Hashes, HashChunk
    PROVE  Hashes'
  <1> DEFINE total == hashing.total
             context == hashing.context
  <1>1. hashing # NULL /\ UNCHANGED digest
    BY DEF HashChunk
  <1>2. PICK n \in 1..hashing.limit - total :
           hashing' = [hashing EXCEPT
                          !.context = M!Update(@, [i \in 1..n |-> total + i]),
                          !.total = @ + n]
    BY DEF HashChunk
  <1>3. /\ hashing \in Hashing /\ M!Took(context, total)
        /\ total \in 0..MaxBytes /\ hashing.limit \in 0..MaxBytes
    BY <1>1, HashingIs
  <1>4. n \in Nat /\ total \in Nat /\ total + n \in 0..MaxBytes
        /\ total + n <= hashing.limit
    BY <1>3, BoundsAreNats
  <1> DEFINE next == M!Update(context, Bytes(total, n))
             sum == total + n
  <1>5. M!Took(next, sum)
    <2> HIDE DEF total, context
    <2> QED BY <1>3, <1>4, UpdateTook
  <1>6. next \in M!Context
    <2> HIDE DEF next, sum
    <2> QED BY <1>5, TookIs
  <1>7. hashing' = [hashing EXCEPT !.context = next, !.total = sum]
    BY <1>2 DEF Bytes
  <1>8. sum \in 0..MaxBytes /\ sum <= hashing.limit
    BY <1>4
  <1> HIDE DEF next, sum
  <1>9. /\ hashing' \in Hashing /\ hashing'.context = next /\ hashing'.total = sum
        /\ hashing'.limit = hashing.limit
    BY <1>3, <1>6, <1>7, <1>8 DEF Hashing
  <1>10. HashInv'
    BY <1>5, <1>8, <1>9 DEF HashInv, Hashing
  <1> QED BY <1>1, <1>10 DEF Hashes, DigestIsOfBytes

LEMMA EndMd5Hashes ==
    ASSUME Hashes, EndMd5
    PROVE  Hashes'
  <1>1. /\ hashing # NULL /\ hashing' = NULL
        /\ digest' = [total |-> hashing.total, blocks |-> M!Final(hashing.context)]
    BY DEF EndMd5
  <1>2. M!Final(hashing.context) = M!Padded(hashing.total)
    BY <1>1, HashingIs, FinalIs
  <1>3. DigestIsOfBytes'
    BY <1>1, <1>2 DEF DigestIsOfBytes
  <1> QED BY <1>1, <1>3 DEF Hashes, HashInv


---------------------------------------------------------------------------
(* The invariant.                                                          *)

LEMMA Initial == Init => FilesInv
  <1> SUFFICES ASSUME Init PROVE FilesInv
    OBVIOUS
  <1>1. Nested(<<>>) /\ Handled(<<>>, 0)
    <2>1. Nested(<<>>)
      BY EmptySeq DEF Nested
    <2>2. OpenOf(<<>>) = 0
      BY EmptySeq DEF OpenOf
    <2> QED BY <2>1, <2>2, BoundsAreNats DEF Handled
  <1>2. 0 \in 0..MaxHandles /\ 0 \in 0..MaxEvents
    BY BoundsAreNats
  <1>3. Calls
    BY <1>1, <1>2 DEF Init, Calls, Placed, Status
  <1>4. HashInv /\ DigestIsOfBytes
    BY DEF Init, HashInv, DigestIsOfBytes
  <1> QED BY <1>3, <1>4, FilesInvIs

LEMMA RmdirStep ==
    ASSUME Calls, Hashes, StepRmdir
    PROVE  Calls' /\ Hashes'
  <1>1. UNCHANGED <<hashing, digest>>
    BY DEF StepRmdir, RemoveEntry, EnterEntry, FailRead, CloseDir, RemoveDir
  <1>2. Hashes'
    BY <1>1, SameHashes
  <1>3. Calls'
    BY RemoveEntryCalls, EnterEntryCalls, FailReadCalls, CloseDirCalls,
       RemoveDirCalls DEF StepRmdir
  <1> QED BY <1>2, <1>3

(* A step that takes a path, or two.                                       *)
LEMMA PathStep ==
    ASSUME Calls, Hashes, NEW p \in Path,
           \/ CallRmdir(p) \/ Rm(p) \/ Mkdir(p) \/ Stat(p)
           \/ \E q \in Path : Mv(p, q) \/ Cp(p, q)
    PROVE  Calls' /\ Hashes'
  <1>1. CASE CallRmdir(p)
    BY <1>1, CallRmdirCalls, SameHashes DEF CallRmdir
  <1>2. CASE Rm(p)
    BY <1>2, RmCalls, SameHashes DEF Rm, OnlyFiles
  <1>3. CASE Mkdir(p)
    BY <1>3, MkdirCalls, SameHashes DEF Mkdir, OnlyFiles
  <1>4. CASE Stat(p)
    BY <1>4, StatCalls, SameHashes DEF Stat
  <1>5. ASSUME NEW q \in Path, Mv(p, q) PROVE Calls' /\ Hashes'
    BY <1>5, MvCalls, SameHashes DEF Mv, OnlyFiles
  <1>6. ASSUME NEW q \in Path, Cp(p, q) PROVE Calls' /\ Hashes'
    BY <1>6, CpCalls, SameHashes DEF Cp, OnlyFiles
  <1> QED BY <1>1, <1>2, <1>3, <1>4, <1>5, <1>6

LEMMA OtherStep ==
    ASSUME Calls, Hashes,
           Other \/ PathGoes \/ BeginMd5 \/ HashChunk \/ EndMd5 \/ NewChild
    PROVE  Calls' /\ Hashes'
  <1>1. CASE Other
    BY <1>1, OtherCalls, SameHashes DEF Other
  <1>2. CASE PathGoes
    BY <1>2, PathGoesCalls, SameHashes DEF PathGoes
  <1>3. CASE BeginMd5
    <2>1. UNCHANGED <<kind, stack, status, handles, events, info>>
      BY <1>3 DEF BeginMd5
    <2> QED BY <1>3, <2>1, SameCalls, BeginMd5Hashes DEF Calls
  <1>4. CASE HashChunk
    <2>1. UNCHANGED <<kind, stack, status, handles, events, info>>
      BY <1>4 DEF HashChunk
    <2> QED BY <1>4, <2>1, SameCalls, HashChunkHashes DEF Calls
  <1>5. CASE EndMd5
    <2>1. UNCHANGED <<kind, stack, status, handles, events, info>>
      BY <1>5 DEF EndMd5
    <2> QED BY <1>5, <2>1, SameCalls, EndMd5Hashes DEF Calls
  <1>6. CASE NewChild
    <2>1. hashing' = NULL /\ digest' = NULL
      BY <1>6 DEF NewChild
    <2>2. Hashes'
      BY <2>1 DEF Hashes, HashInv, DigestIsOfBytes
    <2> QED BY <1>6, <2>2, NewChildCalls
  <1> QED BY <1>1, <1>2, <1>3, <1>4, <1>5, <1>6

LEMMA Preserved == Calls /\ Hashes /\ [Next]_vars => Calls' /\ Hashes'
  <1> SUFFICES ASSUME Calls, Hashes, [Next]_vars PROVE Calls' /\ Hashes'
    OBVIOUS
  <1>1. CASE UNCHANGED vars
    BY <1>1, SameCalls, SameHashes DEF vars, Calls
  <1>2. CASE Next
    <2>1. \/ \E p \in Path :
                \/ CallRmdir(p) \/ Rm(p) \/ Mkdir(p) \/ Stat(p)
                \/ \E q \in Path : Mv(p, q) \/ Cp(p, q)
          \/ StepRmdir
          \/ Other \/ PathGoes \/ BeginMd5 \/ HashChunk \/ EndMd5 \/ NewChild
      BY <1>2 DEF Next
    <2> QED BY <2>1, RmdirStep, PathStep, OtherStep
  <1> QED BY <1>1, <1>2

LEMMA Always == Spec => [](Calls /\ Hashes)
  <1>1. Init => Calls /\ Hashes
    BY Initial, FilesInvIs DEF Hashes
  <1> QED BY <1>1, Preserved, PTL DEF Spec

---------------------------------------------------------------------------
(* Paths are in directories, the calls of rmdir that have not closed their *)
(* directories have a handle each, and the bits the md5 counts fit their   *)
(* words.                                                                  *)
THEOREM FilesTyped == Spec => []TypeOK
  <1>1. Calls /\ Hashes => TypeOK
    BY FilesInvIs DEF Hashes, FilesInv
  <1> QED BY <1>1, Always, PTL

(* The digest of a file is that of its padded bytes, however long it is    *)
(* and wherever the reads cut it.                                          *)
THEOREM DigestsAreOfBytes == Spec => []DigestIsOfBytes
  <1>1. Calls /\ Hashes => DigestIsOfBytes
    BY DEF Hashes
  <1> QED BY <1>1, Always, PTL

(* The step in which a call that has not recursed returns success.         *)
LEMMA OnlyCall ==
    ASSUME Calls, stack # <<>>, ~ stack[1].recursed
    PROVE  /\ Len(stack) = 1 /\ Top = stack[1] /\ Top \in Frame
           /\ handles = Top.before + IF Top.closed THEN 0 ELSE 1
  <1> DEFINE m == Len(stack)
  <1>1. m \in Nat \ {0} /\ Top = stack[m] /\ Top \in Frame
    BY Innermost DEF Calls, Nested
  <1>2. \A n \in 1..m - 1 : stack[n].recursed
    BY DEF Calls, Nested
  <1>3. m = Len(stack)
    OBVIOUS
  <1> HIDE DEF m
  <1>4. m = 1
    <2>1. CASE m # 1
      <3>1. 1 \in 1..m - 1
        BY <1>1, <2>1
      <3> QED BY <1>2, <3>1
    <2> QED BY <2>1
  <1>5. handles = stack[1].before + IF stack[1].closed THEN 0 ELSE 1
    BY DEF Calls, Handled
  <1> QED BY <1>1, <1>3, <1>4, <1>5

LEMMA SuccessStep ==
    ASSUME Calls, StepRmdir, stack' = <<>>, status' = "ok", ~ stack[1].recursed
    PROVE  /\ stack[1].path \in Path /\ kind'[stack[1].path] = "none"
           /\ handles' = stack[1].before
  <1>1. ASSUME NEW c \in Path, NEW q \in Named, RemoveEntry(c, q) PROVE FALSE
    <2>1. stack # <<>>
      BY <1>1 DEF RemoveEntry, Reading
    <2>2. \/ stack' = Here(Read(c))
          \/ Return(FALSE)
      BY <1>1 DEF RemoveEntry
    <2>3. Here(Read(c)) # <<>>
      <3>1. Read(c) \in Frame
        BY <2>1, ReadTyped DEF Calls
      <3>2. Len(Here(Read(c))) \in Nat \ {0}
        BY <2>1, <3>1, Innermost DEF Calls, Nested
      <3> QED BY <3>2, EmptySeq
    <2>4. ~ Return(FALSE)
      BY DEF Return
    <2> QED BY <2>2, <2>3, <2>4
  <1>2. ASSUME NEW c \in Path, NEW q \in Named, EnterEntry(c, q) PROVE FALSE
    <2> DEFINE f == [Read(c) EXCEPT !.recursed = TRUE]
    <2>1. stack # <<>>
      BY <1>2 DEF EnterEntry, Reading
    <2>2. \/ stack' = Here(f)
          \/ q \in Path /\ stack' = Append(Here(f), Opened(q))
      BY <1>2 DEF EnterEntry, Named
    <2>3. f \in Frame
      <3>1. Read(c) \in Frame
        BY <2>1, ReadTyped DEF Calls
      <3> QED BY <3>1 DEF Frame
    <2> HIDE DEF f
    <2>4. Here(f) \in Seq(Frame) /\ Len(Here(f)) \in Nat \ {0}
      BY <2>1, <2>3, Innermost DEF Calls, Nested
    <2>5. ASSUME q \in Path PROVE Append(Here(f), Opened(q)) # <<>>
      <3>1. handles \in 0..MaxHandles
        BY HandledIs DEF Calls, Nested
      <3>2. Opened(q) \in Frame
        BY <2>5, <3>1, OpenedTyped
      <3> QED BY <2>4, <3>2, AppendProperties
    <2>6. Here(f) # <<>>
      BY <2>4, EmptySeq
    <2> QED BY <2>2, <2>5, <2>6
  <1>3. ~ FailRead
    BY DEF FailRead, Return
  <1>4. ASSUME CloseDir PROVE FALSE
    <2> DEFINE f == [Top EXCEPT !.closed = TRUE]
    <2>1. stack # <<>> /\ stack' = Here(f)
      BY <1>4 DEF CloseDir, Reading
    <2>2. f \in Frame
      <3>1. Top \in Frame
        BY <2>1, Innermost DEF Calls, Nested
      <3> QED BY <3>1 DEF Frame
    <2> HIDE DEF f
    <2>3. Len(Here(f)) \in Nat \ {0}
      BY <2>1, <2>2, Innermost DEF Calls, Nested
    <2> QED BY <2>1, <2>3, EmptySeq
  <1>5. ASSUME NEW q \in Named, RemoveDir(q)
        PROVE  /\ stack[1].path \in Path /\ kind'[stack[1].path] = "none"
               /\ handles' = stack[1].before
    <2> DEFINE empty == q # NULL /\ kind[q] = "dir" /\ Present(q) = {}
    <2>1. /\ stack # <<>> /\ Top.closed /\ q \in Removable /\ UNCHANGED handles
          /\ kind' = IF empty THEN [kind EXCEPT ![q] = "none"] ELSE kind
          /\ Return(empty)
      BY <1>5 DEF RemoveDir
    <2>2. /\ Len(stack) = 1 /\ Top = stack[1] /\ Top \in Frame
          /\ handles = Top.before + 0
      BY <2>1, OnlyCall
    <2>3. empty
      <3> HIDE DEF empty
      <3>1. status' = IF empty THEN "ok" ELSE "error"
        BY <2>1 DEF Return
      <3> QED BY <3>1
    <2>4. q = stack[1].path /\ q \in Path
      BY <2>1, <2>2 DEF Removable, Frame
    <2>5. kind' = [kind EXCEPT ![q] = "none"]
      BY <2>1, <2>3
    <2>6. Top.before \in Nat
      BY <2>2 DEF Frame
    <2> QED BY <2>1, <2>2, <2>4, <2>5, <2>6 DEF Calls, Placed
  <1> QED BY <1>1, <1>2, <1>3, <1>4, <1>5 DEF StepRmdir

LEMMA NothingIsBelow ==
    Placed => \A d \in Path : kind[d] = "none" =>
                 \A p \in Path : d \in Above(p) => kind[p] = "none"
  BY NothingBelow DEF Placed

(* A call of rmdir that met no directory among the entries and returns     *)
(* success has removed the directory and all below it, and holds no handle *)
(* any more, whatever other processes did meanwhile and whatever the freed *)
(* paths of the files named.                                               *)
THEOREM SuccessMeansRemoved == Spec => SuccessRemoves
  <1> DEFINE Below == \A d \in Path : kind[d] = "none" =>
                         \A p \in Path : d \in Above(p) => kind[p] = "none"
             Step == StepRmdir /\ stack' = <<>> /\ status' = "ok" /\ ~ stack[1].recursed
                       => /\ \A p \in Path : stack[1].path \in Above(p) => kind'[p] = "none"
                          /\ handles' = stack[1].before
  <1>1. Calls => Below
    BY NothingIsBelow DEF Calls
  <1>2. Calls /\ Below' => Step
    BY SuccessStep
  <1>3. Spec => [][Step]_vars
    <2>1. Calls /\ Calls' /\ [Next]_vars => [Step]_vars
      <3>1. Calls' => Below'
        BY <1>1, PTL
      <3> QED BY <1>2, <3>1
    <2>2. Spec => []Calls
      BY Always, PTL
    <2> QED BY <2>1, <2>2, PTL DEF Spec
  <1> QED BY <1>3 DEF SuccessRemoves

===========================================================================
