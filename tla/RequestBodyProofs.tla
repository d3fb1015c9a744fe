------------------------- MODULE RequestBodyProofs -------------------------
(***************************************************************************)
(* Theorems of RequestBody, for bodies of any length and any number of     *)
(* objects, blocks and calls.                                              *)
(***************************************************************************)
EXTENDS RequestBody, SequenceTheorems, NaturalsInduction, WellFoundedInduction, TLAPS

---------------------------------------------------------------------------
(* The copies and the forms.                                               *)

LEMMA SpanProperties ==
    ASSUME NEW a \in Nat, NEW b \in Nat, a <= b, b <= MaxBody
    PROVE  /\ Span(a, b) \in Seq(0..MaxBody)
           /\ Len(Span(a, b)) = b - a
           /\ \A k \in 1..b - a : Span(a, b)[k] = a + k
           /\ a = b => Span(a, b) = <<>>
  <1>1. b - a \in Nat /\ MaxBody \in Nat
    BY BoundsAreNats
  <1>2. \A k \in 1..b - a : a + k \in 0..MaxBody
    BY <1>1
  <1> DEFINE s == [k \in 1..b - a |-> a + k]
  <1>3. Span(a, b) = s
    BY DEF Span
  <1>4. s \in [1..b - a -> 0..MaxBody]
    BY <1>2
  <1>5. s \in Seq(0..MaxBody)
    BY <1>1, <1>4, SeqDef
  <1>6. DOMAIN s = 1..b - a
    BY <1>4
  <1>7. \A k \in 1..b - a : s[k] = a + k
    OBVIOUS
  <1> HIDE DEF s
  <1>8. Len(s) = b - a
    BY <1>1, <1>5, <1>6, LenProperties
  <1>9. a = b => s = <<>>
    BY <1>5, <1>8, EmptySeq
  <1> QED BY <1>3, <1>5, <1>7, <1>8, <1>9

(* A copy that grows holds what it held and the span, in this order.       *)
LEMMA Grown ==
    ASSUME NEW content \in Seq(0..MaxBody),
           NEW a \in Nat, NEW b \in Nat, a <= b, b <= MaxBody
    PROVE  /\ content \o Span(a, b) \in Seq(0..MaxBody)
           /\ ToSet(content \o Span(a, b)) = ToSet(content) \union (a + 1 .. b)
           /\ \A k \in DOMAIN (content \o Span(a, b)) :
                 (content \o Span(a, b))[k] = 0
                    => k \in DOMAIN content /\ content[k] = 0
           /\ a = b => content \o Span(a, b) = content
  <1> DEFINE s == Span(a, b)
             t == content \o s
  <1>1. /\ s \in Seq(0..MaxBody) /\ Len(s) = b - a
        /\ \A k \in 1..b - a : s[k] = a + k
        /\ a = b => s = <<>>
    BY SpanProperties
  <1> HIDE DEF s
  <1>2. Len(content) \in Nat /\ DOMAIN content = 1..Len(content)
    BY LenProperties
  <1>3. /\ t \in Seq(0..MaxBody)
        /\ Len(t) = Len(content) + (b - a)
        /\ \A k \in 1..Len(content) + (b - a) :
              t[k] = IF k <= Len(content) THEN content[k] ELSE s[k - Len(content)]
    <2>1. /\ content \o s \in Seq(0..MaxBody)
          /\ Len(content \o s) = Len(content) + Len(s)
          /\ \A k \in 1..Len(content) + Len(s) :
                (content \o s)[k] = IF k <= Len(content) THEN content[k]
                                    ELSE s[k - Len(content)]
      BY <1>1, ConcatProperties
    <2> QED BY <1>1, <2>1
  <1>4. a = b => t = content
    BY <1>1, ConcatEmptySeq
  <1> HIDE DEF t
  <1>5. DOMAIN t = 1..Len(content) + (b - a)
    BY <1>3, LenProperties
  <1>6. \A k \in 1..Len(content) : k \in DOMAIN t /\ t[k] = content[k]
    BY <1>2, <1>3, <1>5
  <1>7. \A k \in 1..b - a :
           Len(content) + k \in DOMAIN t /\ t[Len(content) + k] = a + k
    BY <1>1, <1>2, <1>3, <1>5
  <1>8. \A k \in DOMAIN t :
           \/ k \in 1..Len(content) /\ t[k] = content[k]
           \/ k - Len(content) \in 1..b - a /\ t[k] = a + (k - Len(content))
    <2> SUFFICES ASSUME NEW k \in DOMAIN t
                 PROVE  \/ k \in 1..Len(content) /\ t[k] = content[k]
                        \/ /\ k - Len(content) \in 1..b - a
                           /\ t[k] = a + (k - Len(content))
      OBVIOUS
    <2>1. k \in 1..Len(content) + (b - a)
      BY <1>5
    <2>2. CASE k <= Len(content)
      BY <1>2, <1>6, <2>1, <2>2
    <2>3. CASE ~ (k <= Len(content))
      <3> DEFINE l == k - Len(content)
      <3>1. l \in 1..b - a /\ k = Len(content) + l
        BY <1>2, <2>1, <2>3
      <3> HIDE DEF l
      <3>2. t[k] = a + l
        BY <1>7, <3>1
      <3> QED BY <3>1, <3>2 DEF l
    <2> QED BY <2>2, <2>3
  <1>9. ToSet(t) = ToSet(content) \union (a + 1 .. b)
    <2>1. ASSUME NEW p \in ToSet(t) PROVE p \in ToSet(content) \union (a + 1 .. b)
      BY <1>2, <1>8 DEF ToSet
    <2>2. ASSUME NEW p \in ToSet(content) PROVE p \in ToSet(t)
      BY <1>2, <1>6 DEF ToSet
    <2>3. ASSUME NEW p \in a + 1 .. b PROVE p \in ToSet(t)
      <3>1. p - a \in 1..b - a /\ a + (p - a) = p
        OBVIOUS
      <3>2. Len(content) + (p - a) \in DOMAIN t /\ t[Len(content) + (p - a)] = p
        BY <1>7, <3>1
      <3> QED BY <3>2 DEF ToSet
    <2> QED BY <2>1, <2>2, <2>3
  <1>10. \A k \in DOMAIN t : t[k] = 0 => k \in DOMAIN content /\ content[k] = 0
    BY <1>2, <1>8
  <1> QED BY <1>3, <1>4, <1>9, <1>10 DEF t, s

LEMMA SmallestOf ==
    ASSUME NEW S \in SUBSET Nat, S # {}
    PROVE  \E k \in S : \A l \in S : k <= l
  <1>1. PICK k \in S : \A l \in S : ~ (<<l, k>> \in OpToRel(<, Nat))
    BY NatLessThanWellFounded, WFMin
  <1>2. \A l \in S : ~ (l < k)
    BY <1>1 DEF OpToRel
  <1> QED BY <1>2

LEMMA CStringTyped ==
    ASSUME NEW content \in Seq(0..MaxBody)
    PROVE  CString(content) \in Seq(0..MaxBody)
  <1> DEFINE nul == {k \in DOMAIN content : content[k] = 0 \/ Is(content[k], "nul")}
             first == CHOOSE k \in nul : \A l \in nul : k <= l
  <1>1. CASE nul = {}
    BY <1>1 DEF CString
  <1>2. CASE nul # {}
    <2>1. DOMAIN content = 1..Len(content) /\ Len(content) \in Nat
      BY LenProperties
    <2>2. nul \in SUBSET Nat
      BY <2>1
    <2>3. \E k \in nul : \A l \in nul : k <= l
      BY <1>2, <2>2, SmallestOf
    <2>4. first \in nul
      BY <2>3
    <2>5. first \in 1..Len(content)
      BY <2>1, <2>4
    <2>6. CString(content) = SubSeq(content, 1, first - 1)
      BY <1>2 DEF CString
    <2> HIDE DEF first, nul
    <2>7. \A k \in 1..first - 1 : content[k] \in 0..MaxBody
      <3>1. \A k \in 1..Len(content) : content[k] \in 0..MaxBody
        BY ElementOfSeq
      <3>2. \A k \in 1..first - 1 : k \in 1..Len(content)
        BY <2>1, <2>5
      <3> QED BY <3>1, <3>2
    <2> QED BY <2>1, <2>5, <2>6, <2>7, SubSeqProperties
  <1> QED BY <1>1, <1>2

---------------------------------------------------------------------------
(* The shape of a step: the stream goes on, and the bytes it passes are    *)
(* handed over, discarded or copied by one object.                         *)

LEMMA BodyTyped ==
    ASSUME TypeOK
    PROVE  /\ Len(body) \in Nat /\ MaxBody \in Nat /\ Len(body) <= MaxBody
           /\ pos \in Nat /\ pos <= Len(body) /\ failed \in BOOLEAN
           /\ Len(requests) \in Nat /\ DOMAIN requests = 1..Len(requests)
           /\ \A i \in DOMAIN requests : requests[i] \in Request
           /\ Position \subseteq Nat /\ 0 \notin Position
  <1>1. Len(body) \in Nat /\ MaxBody \in Nat /\ Len(body) <= MaxBody
    BY BoundsAreNats, LenProperties DEF TypeOK
  <1>2. pos \in Nat /\ pos <= Len(body) /\ failed \in BOOLEAN
    BY <1>1 DEF TypeOK
  <1>3. Len(requests) \in Nat /\ DOMAIN requests = 1..Len(requests)
    BY LenProperties DEF TypeOK
  <1>4. \A i \in DOMAIN requests : requests[i] \in Request
    BY <1>3, ElementOfSeq DEF TypeOK
  <1> QED BY <1>1, <1>2, <1>3, <1>4 DEF Position

Passed == pos + 1 .. pos'

Advances ==
    /\ UNCHANGED <<body, type>>
    /\ pos' \in pos..Len(body)
    /\ failed' \in BOOLEAN /\ (failed => failed')

SameHolders == \A p \in Position : Holders(p)' = Holders(p)

HandedOver ==
    \E bytes \in SUBSET Passed :
        /\ Hand(bytes)
        /\ \A p \in Passed : p \in bytes \/ Is(p, "nul") \/ type = "encoding"
        /\ SameHolders /\ UNCHANGED discarded

Dropped ==
    discarded' = discarded \union Passed /\ SameHolders /\ UNCHANGED got

CopiedTo(i) ==
    /\ \A p \in Position :
          Holders(p)' = Holders(p) \union (IF p \in Passed THEN {i} ELSE {})
    /\ UNCHANGED <<got, discarded>>

ByteStep == Advances /\ (HandedOver \/ Dropped \/ \E i \in Nat : CopiedTo(i))

InOrderStep ==
    \A p, q \in Position : Reached(p) /\ ~ Reached(q) /\ Reached(q)' => p < q

LEMMA BytesInv ==
    ASSUME BodyInv, ByteStep
    PROVE  /\ EveryByteOnce' /\ NothingLost' /\ ReadSoFar' /\ InOrderStep
           /\ got' \in [Position -> Nat] /\ discarded' \subseteq Position
           /\ Position' = Position
  <1>1. /\ Len(body) \in Nat /\ pos \in Nat /\ pos <= Len(body)
        /\ Position \subseteq Nat /\ Position = 1..Len(body)
    BY BodyTyped DEF BodyInv, Position
  <1>2. /\ pos' \in Nat /\ pos <= pos' /\ pos' <= Len(body)
        /\ Passed \subseteq Position /\ Position' = Position
        /\ UNCHANGED <<body, type>>
    BY <1>1 DEF ByteStep, Advances, Position, Passed
  <1>3. got \in [Position -> Nat] /\ discarded \subseteq Position
    BY DEF BodyInv, TypeOK
  (* What the step passes was not reached before it.                       *)
  <1>4. \A p \in Passed :
           p > pos /\ got[p] = 0 /\ Holders(p) = {} /\ p \notin discarded
    <2> SUFFICES ASSUME NEW p \in Passed
                 PROVE  /\ p > pos /\ got[p] = 0 /\ Holders(p) = {}
                        /\ p \notin discarded
      OBVIOUS
    <2>1. p > pos /\ p \in Position
      BY <1>1, <1>2 DEF Passed
    <2>2. ~ Reached(p) /\ p \notin discarded
      BY <1>1, <2>1 DEF BodyInv, ReadSoFar
    <2>3. got[p] \in Nat
      BY <1>3, <2>1
    <2> QED BY <2>1, <2>2, <2>3 DEF Reached
  <1>5. \A p \in Position :
           /\ got[p] \in Nat /\ got[p] <= 1
           /\ \A i, j \in Holders(p) : i = j
           /\ got[p] > 0 => Holders(p) = {}
           /\ p \in discarded => got[p] = 0 /\ Holders(p) = {}
           /\ got[p] > 0 \/ Holders(p) # {} \/ p \in discarded => p <= pos
    BY <1>3 DEF BodyInv, EveryByteOnce, ReadSoFar, Reached
  <1>6. \A p \in 1..pos :
           got[p] > 0 \/ Holders(p) # {} \/ p \in discarded
              \/ Is(p, "nul") \/ type = "encoding"
    BY DEF BodyInv, NothingLost, Reached
  (* A position keeps its state, or was passed and has one owner.          *)
  <1>7. /\ got' \in [Position -> Nat] /\ discarded' \subseteq Position
        /\ \A p \in Position :
              \/ /\ got'[p] = got[p] /\ Holders(p)' = Holders(p)
                 /\ (p \in discarded') = (p \in discarded)
                 /\ p \in Passed => Is(p, "nul") \/ type = "encoding"
              \/ /\ p \in Passed
                 /\ \/ got'[p] = 1 /\ Holders(p)' = {} /\ p \notin discarded'
                    \/ got'[p] = 0 /\ Holders(p)' = {} /\ p \in discarded'
                    \/ /\ got'[p] = 0 /\ p \notin discarded'
                       /\ \E i \in Nat : Holders(p)' = {i}
    <2>1. CASE HandedOver
      <3>1. PICK bytes \in SUBSET Passed :
               /\ got' = [p \in Position |-> got[p] + IF p \in bytes THEN 1 ELSE 0]
               /\ \A p \in Passed : p \in bytes \/ Is(p, "nul") \/ type = "encoding"
               /\ SameHolders /\ UNCHANGED discarded
        BY <2>1 DEF HandedOver, Hand
      <3>2. \A p \in Position :
               got'[p] = IF p \in bytes THEN got[p] + 1 ELSE got[p]
        BY <1>3, <3>1
      <3>3. got' \in [Position -> Nat]
        BY <1>3, <3>1
      <3> QED BY <1>3, <1>4, <3>1, <3>2, <3>3 DEF SameHolders
    <2>2. CASE Dropped
      BY <1>2, <1>3, <1>4, <2>2 DEF Dropped, SameHolders
    <2>3. CASE \E i \in Nat : CopiedTo(i)
      <3>1. PICK i \in Nat : CopiedTo(i)
        BY <2>3
      <3>2. ASSUME NEW p \in Position
            PROVE  \/ /\ got'[p] = got[p] /\ Holders(p)' = Holders(p)
                      /\ (p \in discarded') = (p \in discarded)
                      /\ p \notin Passed
                   \/ /\ p \in Passed /\ got'[p] = 0 /\ p \notin discarded'
                      /\ Holders(p)' = {i}
        BY <1>4, <3>1 DEF CopiedTo
      <3> QED BY <1>3, <3>1, <3>2 DEF CopiedTo
    <2> QED BY <2>1, <2>2, <2>3 DEF ByteStep
  <1>8. \A p \in Passed : p > pos /\ p <= pos'
    BY <1>1, <1>2 DEF Passed
  <1>9. EveryByteOnce'
    <2> SUFFICES ASSUME NEW p \in Position
                 PROVE  /\ got'[p] <= 1
                        /\ \A i, j \in Holders(p)' : i = j
                        /\ got'[p] > 0 => Holders(p)' = {}
                        /\ p \in discarded' => got'[p] = 0 /\ Holders(p)' = {}
      BY <1>2 DEF EveryByteOnce
    <2> QED BY <1>5, <1>7
  <1>10. ReadSoFar'
    <2> SUFFICES ASSUME NEW p \in Position,
                        got'[p] > 0 \/ Holders(p)' # {} \/ p \in discarded'
                 PROVE  p <= pos'
      BY <1>2 DEF ReadSoFar, Reached
    <2> QED BY <1>1, <1>2, <1>5, <1>7, <1>8
  <1>11. NothingLost'
    <2> SUFFICES ASSUME NEW p \in 1..pos'
                 PROVE  \/ got'[p] > 0 \/ Holders(p)' # {} \/ p \in discarded'
                        \/ Is(p, "nul") \/ type = "encoding"
      BY <1>2 DEF NothingLost, Reached, Is, Position
    <2>1. p \in Position /\ (p \in 1..pos \/ p \in Passed)
      BY <1>1, <1>2 DEF Passed
    <2> QED BY <1>6, <1>7, <2>1
  <1>12. InOrderStep
    <2> SUFFICES ASSUME NEW p \in Position, NEW q \in Position,
                        Reached(p), ~ Reached(q), Reached(q)'
                 PROVE  p < q
      BY DEF InOrderStep
    <2>1. p <= pos
      BY <1>5 DEF Reached
    <2>2. q \in Passed
      BY <1>7 DEF Reached
    <2> QED BY <1>1, <1>8, <2>1, <2>2
  <1> QED BY <1>2, <1>7, <1>9, <1>10, <1>11, <1>12

(* An object whose flag and form fit what the step left of the stream.     *)
NulOK(r) ==
    /\ \A k \in DOMAIN r.content :
          r.content[k] = 0 <=> k = Len(r.content) /\ HasForm(r)
    /\ HasForm(r) => r.read
Fits(r) == (r.read => pos' = Len(body) \/ failed') /\ NulOK(r)

LEMMA StepInv ==
    ASSUME BodyInv, ByteStep,
           requests' \in Seq(Request), blocks' \in Seq(DOMAIN requests'),
           calls' \in 0..MaxCalls,
           \A i \in DOMAIN requests' :
              (i \in DOMAIN requests /\ requests'[i] = requests[i]) \/ Fits(requests'[i])
    PROVE  BodyInv' /\ InOrderStep
  <1>1. /\ EveryByteOnce' /\ NothingLost' /\ ReadSoFar' /\ InOrderStep
        /\ got' \in [Position -> Nat] /\ discarded' \subseteq Position
        /\ Position' = Position
    BY BytesInv
  <1>2. /\ UNCHANGED <<body, type>> /\ pos' \in pos..Len(body)
        /\ failed' \in BOOLEAN /\ (failed => failed')
        /\ pos \in Nat /\ pos <= Len(body) /\ Len(body) \in Nat
    BY BodyTyped DEF ByteStep, Advances, BodyInv
  <1>3. TypeOK'
    BY <1>1, <1>2 DEF BodyInv, TypeOK
  <1>4. FlagMeansEnd'
    <2> SUFFICES ASSUME NEW i \in DOMAIN requests', requests'[i].read
                 PROVE  pos' = Len(body) \/ failed'
      BY <1>2 DEF FlagMeansEnd
    <2>1. CASE i \in DOMAIN requests /\ requests'[i] = requests[i]
      <3>1. pos = Len(body) \/ failed
        BY <2>1 DEF BodyInv, FlagMeansEnd
      <3> QED BY <1>2, <3>1
    <2>2. CASE Fits(requests'[i])
      BY <2>2 DEF Fits
    <2> QED BY <2>1, <2>2
  <1>5. \A i \in DOMAIN requests' : NulOK(requests'[i])
    <2> SUFFICES ASSUME NEW i \in DOMAIN requests'
                 PROVE  NulOK(requests'[i])
      OBVIOUS
    <2>1. CASE i \in DOMAIN requests /\ requests'[i] = requests[i]
      BY <2>1 DEF BodyInv, NulIsLast, FormMeansRead, NulOK
    <2>2. CASE Fits(requests'[i])
      BY <2>2 DEF Fits
    <2> QED BY <2>1, <2>2
  <1>6. NulIsLast' /\ FormMeansRead'
    BY <1>5 DEF NulIsLast, FormMeansRead, NulOK, HasForm
  <1> QED BY <1>1, <1>3, <1>4, <1>6 DEF BodyInv

(* One object changes.                                                     *)
LEMMA Updated ==
    ASSUME TypeOK, NEW i \in DOMAIN requests, NEW r \in Request,
           requests' = [requests EXCEPT ![i] = r]
    PROVE  /\ requests' \in Seq(Request) /\ DOMAIN requests' = DOMAIN requests
           /\ requests'[i] = r
           /\ \A j \in DOMAIN requests : j # i => requests'[j] = requests[j]
           /\ \A p \in Position :
                 ToSet(r.content) \intersect Position
                    = ToSet(requests[i].content) \intersect Position
                 => Holders(p)' = Holders(p)
  <1>1. DOMAIN requests = 1..Len(requests) /\ requests \in Seq(Request)
    BY BodyTyped DEF TypeOK
  <1>2. /\ requests' \in Seq(Request) /\ Len(requests') = Len(requests)
        /\ \A j \in 1..Len(requests) :
              requests'[j] = IF j = i THEN r ELSE requests[j]
    BY <1>1, ExceptSeq
  <1>3. DOMAIN requests' = DOMAIN requests
    BY <1>1, <1>2, LenProperties
  <1>4. ASSUME ToSet(r.content) \intersect Position
                  = ToSet(requests[i].content) \intersect Position,
               NEW p \in Position
        PROVE  Holders(p)' = Holders(p)
    BY <1>1, <1>2, <1>3, <1>4 DEF Holders
  <1> QED BY <1>1, <1>2, <1>3, <1>4

LEMMA CopiedHolders ==
    ASSUME TypeOK, NEW i \in DOMAIN requests, NEW r \in Request,
           requests' = [requests EXCEPT ![i] = r],
           ToSet(r.content) \intersect Position
              = (ToSet(requests[i].content) \union Passed) \intersect Position,
           UNCHANGED <<got, discarded>>
    PROVE  CopiedTo(i)
  <1>1. /\ DOMAIN requests' = DOMAIN requests /\ requests'[i] = r
        /\ \A j \in DOMAIN requests : j # i => requests'[j] = requests[j]
    BY Updated
  <1>2. ASSUME NEW p \in Position
        PROVE  Holders(p)' = Holders(p) \union (IF p \in Passed THEN {i} ELSE {})
    BY <1>1 DEF Holders
  <1> QED BY <1>2 DEF CopiedTo

---------------------------------------------------------------------------
(* The steps.                                                              *)

LEMMA StreamReads ==
    ASSUME BodyInv, UNCHANGED <<body, type>>
    PROVE  /\ \A stop \in pos..Len(body) :
                 ReadsUpTo(stop) =>
                    /\ Advances /\ pos' = stop
                    /\ pos' = Len(body) \/ failed'
                    /\ failed => pos' = pos
           /\ \A n \in Nat : Reads(n) => Advances /\ pos' = pos + n
           /\ AtEnd \/ Fails =>
                 Advances /\ pos' = pos /\ (pos' = Len(body) \/ failed')
  <1>1. pos \in Nat /\ Len(body) \in Nat /\ pos <= Len(body) /\ failed \in BOOLEAN
    BY BodyTyped DEF BodyInv
  <1>2. ASSUME NEW stop \in pos..Len(body), ReadsUpTo(stop)
        PROVE  /\ Advances /\ pos' = stop
               /\ pos' = Len(body) \/ failed'
               /\ failed => pos' = pos
    BY <1>1, <1>2 DEF ReadsUpTo, Advances
  <1>3. ASSUME NEW n \in Nat, Reads(n) PROVE Advances /\ pos' = pos + n
    BY <1>1, <1>3 DEF Reads, Advances
  <1>4. ASSUME AtEnd \/ Fails
        PROVE  Advances /\ pos' = pos /\ (pos' = Len(body) \/ failed')
    <2>0. pos \in pos..Len(body)
      BY <1>1
    <2>1. CASE AtEnd
      BY <1>1, <2>0, <2>1 DEF AtEnd, Advances
    <2>2. CASE Fails
      BY <1>1, <2>0, <2>2 DEF Fails, Advances
    <2> QED BY <1>4, <2>1, <2>2
  <1> QED BY <1>2, <1>3, <1>4

LEMMA NothingPassed ==
    ASSUME BodyInv, Advances, pos' = pos, SameHolders, UNCHANGED <<got, discarded>>
    PROVE  ByteStep
  <1>1. Passed = {}
    BY BodyTyped DEF Passed, BodyInv
  <1> QED BY <1>1 DEF ByteStep, Dropped

LEMMA SameRequests ==
    ASSUME UNCHANGED requests
    PROVE  SameHolders
  BY DEF SameHolders, Holders

LEMMA MakeRequestInv ==
    ASSUME BodyInv, MakeRequest
    PROVE  BodyInv' /\ InOrderStep
  <1>1. /\ requests' = Append(requests, New)
        /\ UNCHANGED <<body, type, pos, failed, blocks, calls, got, discarded>>
    BY DEF MakeRequest
  <1>2. New \in Request /\ New.content = <<>> /\ ~ New.read /\ New.form = NULL
    BY EmptySeq DEF New, Request
  <1>3. DOMAIN requests = 1..Len(requests) /\ Len(requests) \in Nat
        /\ requests \in Seq(Request)
    BY BodyTyped DEF BodyInv, TypeOK
  <1>4. /\ requests' \in Seq(Request) /\ Len(requests') = Len(requests) + 1
        /\ \A j \in 1..Len(requests) : requests'[j] = requests[j]
        /\ requests'[Len(requests) + 1] = New
    BY <1>1, <1>2, <1>3, AppendProperties
  <1>5. DOMAIN requests' = 1..Len(requests) + 1
    BY <1>4, LenProperties
  <1>6. SameHolders
    <2> SUFFICES ASSUME NEW p \in Position PROVE Holders(p)' = Holders(p)
      BY DEF SameHolders
    <2>1. p \notin ToSet(requests'[Len(requests) + 1].content)
      BY <1>2, <1>4 DEF ToSet
    <2> QED BY <1>3, <1>4, <1>5, <2>1 DEF Holders
  <1>7. ByteStep
    <2>1. Advances /\ pos' = pos
      BY <1>1, BodyTyped DEF Advances, BodyInv
    <2> QED BY <1>1, <1>6, <2>1, NothingPassed
  <1>8. Fits(New)
    <2>1. DOMAIN New.content = {}
      BY <1>2
    <2> QED BY <1>2, <2>1 DEF Fits, NulOK, HasForm
  <1>9. blocks' \in Seq(DOMAIN requests')
    <2>1. blocks \in Seq(DOMAIN requests) /\ DOMAIN requests \subseteq DOMAIN requests'
      BY <1>3, <1>5 DEF BodyInv, TypeOK
    <2> QED BY <1>1, <2>1, SeqMonotonic
  <1>10. \A i \in DOMAIN requests' :
            (i \in DOMAIN requests /\ requests'[i] = requests[i]) \/ Fits(requests'[i])
    BY <1>3, <1>4, <1>5, <1>8
  <1>11. calls' \in 0..MaxCalls
    BY <1>1 DEF BodyInv, TypeOK
  <1> QED BY <1>4, <1>7, <1>9, <1>10, <1>11, StepInv

(* The bytes go on and the objects stay.                                   *)
LEMMA ObjectsStay ==
    ASSUME BodyInv, ByteStep, UNCHANGED <<requests, calls>>,
           blocks' \in Seq(DOMAIN requests)
    PROVE  BodyInv' /\ InOrderStep
  <1>1. requests' \in Seq(Request) /\ calls' \in 0..MaxCalls
    BY DEF BodyInv, TypeOK
  <1> QED BY <1>1, StepInv

LEMMA DiscardBodyInv ==
    ASSUME BodyInv, DiscardBody
    PROVE  BodyInv' /\ InOrderStep
  <1>1. PICK stop \in pos..Len(body) :
           ReadsUpTo(stop) /\ discarded' = discarded \union (pos + 1..stop)
    BY DEF DiscardBody
  <1>2. UNCHANGED <<body, type, requests, blocks, calls, got>>
    BY DEF DiscardBody
  <1>3. Advances /\ pos' = stop
    BY <1>1, <1>2, StreamReads
  <1>4. ByteStep
    BY <1>1, <1>2, <1>3, SameRequests DEF ByteStep, Dropped, Passed
  <1>5. blocks' \in Seq(DOMAIN requests)
    BY <1>2 DEF BodyInv, TypeOK
  <1> QED BY <1>2, <1>4, <1>5, ObjectsStay

(* The innermost block ends.                                               *)
LEMMA BlocksTyped ==
    ASSUME TypeOK, blocks # <<>>
    PROVE  Last(blocks) \in DOMAIN requests /\ Front(blocks) \in Seq(DOMAIN requests)
  <1>1. blocks \in Seq(DOMAIN requests)
    BY DEF TypeOK
  <1>2. Len(blocks) \in Nat \ {0}
    BY <1>1, EmptySeq
  <1>3. \A k \in 1..Len(blocks) : blocks[k] \in DOMAIN requests
    BY <1>1, ElementOfSeq
  <1>4. \A k \in 1..Len(blocks) - 1 : blocks[k] \in DOMAIN requests
    BY <1>2, <1>3
  <1>5. Front(blocks) \in Seq(DOMAIN requests)
    BY <1>2, <1>4, SubSeqProperties DEF Front
  <1> QED BY <1>2, <1>3, <1>5 DEF Last

LEMMA BlockRaisesInv ==
    ASSUME BodyInv, BlockRaises
    PROVE  BodyInv' /\ InOrderStep
  <1>1. /\ blocks # <<>> /\ blocks' = Front(blocks)
        /\ UNCHANGED <<body, type, pos, failed, requests, calls, got, discarded>>
    BY DEF BlockRaises
  <1>2. Advances /\ pos' = pos
    BY <1>1, BodyTyped DEF Advances, BodyInv
  <1>3. ByteStep
    BY <1>1, <1>2, SameRequests, NothingPassed
  <1>4. blocks' \in Seq(DOMAIN requests)
    BY <1>1, BlocksTyped DEF BodyInv
  <1> QED BY <1>1, <1>3, <1>4, ObjectsStay

(* One object changes and the blocks stay as they are, or one more or one  *)
(* less runs.                                                              *)
LEMMA ObjectChanges ==
    ASSUME BodyInv, ByteStep, NEW i \in DOMAIN requests, NEW r \in Request,
           requests' = [requests EXCEPT ![i] = r], Fits(r),
           calls' \in 0..MaxCalls, blocks' \in Seq(DOMAIN requests)
    PROVE  BodyInv' /\ InOrderStep
  <1>1. /\ requests' \in Seq(Request) /\ DOMAIN requests' = DOMAIN requests
        /\ requests'[i] = r
        /\ \A j \in DOMAIN requests : j # i => requests'[j] = requests[j]
    BY Updated DEF BodyInv
  <1> QED BY <1>1, StepInv

(* The parts of an object that SetUp, the limit and the flag leave alone.  *)
LEMMA PreparedKeeps ==
    ASSUME NEW r \in Request, NEW sent
    PROVE  /\ SetUp(r) \in Request /\ Prepared(r, sent) \in Request
           /\ \A s \in {SetUp(r), Prepared(r, sent)} :
                 s.content = r.content /\ s.form = r.form /\ s.read = r.read
           /\ \A b \in BOOLEAN : [SetUp(r) EXCEPT !.read = b] \in Request
  <1>1. ASSUME NEW q \in Request
        PROVE  /\ SetUp(q) \in Request /\ SetUp(q).content = q.content
               /\ SetUp(q).form = q.form /\ SetUp(q).read = q.read
    BY DEF SetUp, Request
  <1>2. /\ CheckLimit(r, sent) \in Request
        /\ CheckLimit(r, sent).content = r.content
        /\ CheckLimit(r, sent).form = r.form /\ CheckLimit(r, sent).read = r.read
    BY DEF CheckLimit, Request
  <1>3. \A b \in BOOLEAN : [SetUp(r) EXCEPT !.read = b] \in Request
    BY <1>1 DEF Request
  <1> QED BY <1>1, <1>2, <1>3 DEF Prepared

LEMMA ObjectFits ==
    ASSUME BodyInv, NEW i \in DOMAIN requests
    PROVE  /\ requests[i] \in Request /\ NulOK(requests[i])
           /\ requests[i].read => pos = Len(body) \/ failed
           /\ requests[i].content \in Seq(0..MaxBody)
  <1>1. requests[i] \in Request
    BY BodyTyped DEF BodyInv
  <1>2. NulOK(requests[i])
    BY DEF BodyInv, NulIsLast, FormMeansRead, NulOK
  <1>3. requests[i].read => pos = Len(body) \/ failed
    BY DEF BodyInv, FlagMeansEnd
  <1> QED BY <1>1, <1>2, <1>3 DEF Request

(* A change of an object that keeps its copy and form.                     *)
LEMMA CopyKept ==
    ASSUME BodyInv, NEW i \in DOMAIN requests, NEW r \in Request,
           requests' = [requests EXCEPT ![i] = r],
           r.content = requests[i].content,
           HasForm(r) = HasForm(requests[i]), requests[i].read => r.read,
           Advances, r.read => pos' = Len(body) \/ failed'
    PROVE  SameHolders /\ Fits(r)
  <1>1. SameHolders
    <2>1. \A p \in Position :
             ToSet(r.content) \intersect Position
                = ToSet(requests[i].content) \intersect Position
             => Holders(p)' = Holders(p)
      BY Updated DEF BodyInv
    <2> QED BY <2>1 DEF SameHolders
  <1>2. NulOK(r)
    BY ObjectFits DEF NulOK
  <1> QED BY <1>1, <1>2 DEF Fits

LEMMA BeginBlockInv ==
    ASSUME BodyInv, NEW i \in DOMAIN requests, BeginBlock(i)
    PROVE  BodyInv' /\ InOrderStep
  <1>1. PICK sent \in Sent : requests' = [requests EXCEPT ![i] = Prepared(@, sent)]
    BY DEF BeginBlock
  <1> DEFINE r == Prepared(requests[i], sent)
  <1>2. /\ r \in Request /\ r.content = requests[i].content
        /\ r.form = requests[i].form /\ r.read = requests[i].read
    BY ObjectFits, PreparedKeeps
  <1>3. requests' = [requests EXCEPT ![i] = r]
    BY <1>1
  <1> HIDE DEF r
  <1>4. UNCHANGED <<body, type, pos, failed, got, discarded>>
    BY DEF BeginBlock
  <1>5. Advances /\ pos' = pos
    BY <1>4, BodyTyped DEF Advances, BodyInv
  <1>6. SameHolders /\ Fits(r)
    BY <1>2, <1>3, <1>4, <1>5, ObjectFits, CopyKept DEF HasForm
  <1>7. ByteStep
    BY <1>4, <1>5, <1>6, NothingPassed
  <1>8. calls' \in 0..MaxCalls
    BY BoundsAreNats DEF BeginBlock, BodyInv, TypeOK
  <1>9. blocks' \in Seq(DOMAIN requests)
    <2>1. blocks \in Seq(DOMAIN requests) /\ blocks' = Append(blocks, i)
      BY DEF BeginBlock, BodyInv, TypeOK
    <2> QED BY <2>1, AppendProperties
  <1> QED BY <1>2, <1>3, <1>6, <1>7, <1>8, <1>9, ObjectChanges

LEMMA EndBlockInv ==
    ASSUME BodyInv, EndBlock
    PROVE  BodyInv' /\ InOrderStep
  <1> DEFINE i == Last(blocks)
             r == [requests[i] EXCEPT !.read = TRUE]
  <1>1. /\ blocks # <<>> /\ (AtEnd \/ Fails) /\ blocks' = Front(blocks)
        /\ requests' = [requests EXCEPT ![i] = r]
        /\ UNCHANGED <<body, type, calls, got, discarded>>
    BY DEF EndBlock
  <1>2. i \in DOMAIN requests /\ Front(blocks) \in Seq(DOMAIN requests)
    BY <1>1, BlocksTyped DEF BodyInv
  <1>3. requests[i] \in Request
    BY <1>2, ObjectFits
  <1>4. /\ r \in Request /\ r.content = requests[i].content
        /\ r.form = requests[i].form /\ r.read
    BY <1>3 DEF Request
  <1> HIDE DEF r, i
  <1>5. Advances /\ pos' = pos /\ (pos' = Len(body) \/ failed')
    BY <1>1, StreamReads
  <1>6. SameHolders /\ Fits(r)
    BY <1>1, <1>2, <1>4, <1>5, CopyKept DEF HasForm
  <1>7. ByteStep
    BY <1>1, <1>5, <1>6, NothingPassed
  <1>8. calls' \in 0..MaxCalls
    BY <1>1 DEF BodyInv, TypeOK
  <1> QED BY <1>1, <1>2, <1>4, <1>6, <1>7, <1>8, ObjectChanges

LEMMA FeedBlockInv ==
    ASSUME BodyInv, FeedBlock
    PROVE  BodyInv' /\ InOrderStep
  <1>1. CASE EndBlock
    BY <1>1, EndBlockInv
  <1>2. CASE ~ EndBlock
    <2>1. PICK n \in 1..MaxBody : Reads(n) /\ Hand(pos + 1 .. pos + n)
      BY <1>2 DEF FeedBlock
    <2>2. UNCHANGED <<body, type, requests, blocks, calls, discarded>>
      BY <1>2 DEF FeedBlock
    <2>3. Advances /\ pos' = pos + n
      BY <2>1, <2>2, StreamReads
    <2>4. ByteStep
      BY <2>1, <2>2, <2>3, SameRequests DEF ByteStep, HandedOver, Passed
    <2>5. blocks' \in Seq(DOMAIN requests)
      BY <2>2 DEF BodyInv, TypeOK
    <2> QED BY <2>2, <2>4, <2>5, ObjectsStay
  <1> QED BY <1>1, <1>2

LEMMA ReadInv ==
    ASSUME BodyInv, NEW i \in DOMAIN requests, NEW n \in 1..MaxBody, Read(i, n)
    PROVE  BodyInv' /\ InOrderStep
  <1>1. /\ ~ requests[i].read /\ requests[i] \in Request
        /\ UNCHANGED <<body, type, blocks, calls, discarded>>
    BY ObjectFits DEF Read
  <1>2. calls' \in 0..MaxCalls /\ blocks' \in Seq(DOMAIN requests)
    BY <1>1 DEF BodyInv, TypeOK
  <1>3. CASE \E m \in 1..n : /\ Reads(m) /\ Hand(pos + 1 .. pos + m)
                            /\ requests' = [requests EXCEPT ![i] = SetUp(@)]
    <2>1. PICK m \in 1..n : /\ Reads(m) /\ Hand(pos + 1 .. pos + m)
                            /\ requests' = [requests EXCEPT ![i] = SetUp(@)]
      BY <1>3
    <2> DEFINE r == SetUp(requests[i])
    <2>2. /\ r \in Request /\ r.content = requests[i].content
          /\ r.form = requests[i].form /\ r.read = requests[i].read
      BY <1>1, PreparedKeeps
    <2>3. requests' = [requests EXCEPT ![i] = r]
      BY <2>1
    <2> HIDE DEF r
    <2>4. Advances /\ pos' = pos + m
      BY <1>1, <2>1, StreamReads
    <2>5. SameHolders /\ Fits(r)
      BY <1>1, <2>2, <2>3, <2>4, CopyKept DEF HasForm
    <2>6. ByteStep
      BY <1>1, <2>1, <2>4, <2>5 DEF ByteStep, HandedOver, Passed
    <2> QED BY <1>2, <2>2, <2>3, <2>5, <2>6, ObjectChanges
  <1>4. CASE /\ AtEnd \/ Fails
             /\ requests' = [requests EXCEPT ![i] = [SetUp(@) EXCEPT !.read = TRUE]]
             /\ UNCHANGED got
    <2> DEFINE r == [SetUp(requests[i]) EXCEPT !.read = TRUE]
    <2>1. SetUp(requests[i]) \in Request
          /\ SetUp(requests[i]).content = requests[i].content
          /\ SetUp(requests[i]).form = requests[i].form
      BY <1>1, PreparedKeeps
    <2>2. /\ r \in Request /\ r.content = requests[i].content
          /\ r.form = requests[i].form /\ r.read
      BY <2>1 DEF Request
    <2>3. requests' = [requests EXCEPT ![i] = r]
      BY <1>4
    <2> HIDE DEF r
    <2>4. Advances /\ pos' = pos /\ (pos' = Len(body) \/ failed')
      BY <1>1, <1>4, StreamReads
    <2>5. SameHolders /\ Fits(r)
      BY <2>2, <2>3, <2>4, CopyKept DEF HasForm
    <2>6. ByteStep
      BY <1>1, <1>4, <2>4, <2>5, NothingPassed
    <2> QED BY <1>2, <2>2, <2>3, <2>5, <2>6, ObjectChanges
  <1> QED BY <1>3, <1>4 DEF Read

(* What one line takes from the stream.                                    *)
LineTakes(s, t, bytes) ==
    /\ t.pos \in s.pos..Len(body)
    /\ s.failed => t.failed
    /\ s.read => t = s
    /\ ~ s.read /\ t.read => t.pos = Len(body) \/ t.failed
    /\ bytes \subseteq s.pos + 1 .. t.pos
    /\ \A p \in s.pos + 1 .. t.pos : p \in bytes \/ Is(p, "nul") \/ type = "encoding"

LEMMA LineTaken ==
    ASSUME NEW s \in Stream, NEW t \in Stream, ReadLineOf(s, t),
           Len(body) \in Nat, s.pos <= Len(body)
    PROVE  LineTakes(s, t, LineOf(s, t))
  <1>1. s.pos \in Nat /\ t.pos \in Nat
    BY DEF Stream
  <1>2. /\ LineOf(s, t) \subseteq s.pos + 1 .. t.pos
        /\ \A p \in s.pos + 1 .. t.pos : p \in LineOf(s, t) \/ Is(p, "nul")
    BY DEF LineOf, Kept
  <1>3. CASE s.read /\ t = s
    <2>1. t.pos \in s.pos..Len(body)
      BY <1>1, <1>3
    <2> QED BY <1>2, <1>3, <2>1 DEF LineTakes
  <1>4. CASE ~ (s.read /\ t = s)
    <2>1. /\ ~ s.read /\ t.pos \in s.pos..Len(body)
          /\ s.failed => t.failed
          /\ t.read => t.pos = Len(body) \/ t.failed
      BY <1>4 DEF ReadLineOf
    <2> QED BY <1>2, <2>1 DEF LineTakes
  <1> QED BY <1>3, <1>4

LEMMA LineReadInv ==
    ASSUME BodyInv, NEW i \in DOMAIN requests, NEW t \in Stream, NEW bytes,
           LineRead(i, t, bytes), LineTakes(Now(i), t, bytes)
    PROVE  BodyInv' /\ InOrderStep
  <1> DEFINE q == requests[i]
             r == IF q.read THEN q ELSE [SetUp(q) EXCEPT !.read = t.read]
  <1>1. /\ pos' = t.pos /\ failed' = t.failed /\ Hand(bytes)
        /\ requests' = [requests EXCEPT ![i] = r]
        /\ UNCHANGED <<body, type, blocks, calls, discarded>>
    BY DEF LineRead
  <1>2. Now(i).pos = pos /\ Now(i).failed = failed /\ Now(i).read = q.read
    BY DEF Now
  <1>3. t.failed \in BOOLEAN /\ t.read \in BOOLEAN
    BY DEF Stream
  <1>4. q \in Request /\ (q.read => pos = Len(body) \/ failed)
    BY ObjectFits
  <1>5. /\ r \in Request /\ r.content = q.content /\ r.form = q.form
        /\ q.read => r.read
        /\ ~ q.read => r.read = t.read
    <2>1. CASE q.read
      BY <1>4, <2>1
    <2>2. CASE ~ q.read
      <3>1. /\ SetUp(q) \in Request /\ SetUp(q).content = q.content
            /\ SetUp(q).form = q.form
        BY <1>4, PreparedKeeps
      <3> QED BY <1>3, <2>2, <3>1 DEF Request
    <2> QED BY <2>1, <2>2
  <1> HIDE DEF r, q
  <1>6. Advances
    BY <1>1, <1>2, <1>3 DEF LineTakes, Advances
  <1>7. r.read => pos' = Len(body) \/ failed'
    <2>1. CASE q.read
      BY <1>1, <1>2, <1>4, <2>1 DEF LineTakes, Now
    <2>2. CASE ~ q.read
      <3> SUFFICES ASSUME r.read PROVE pos' = Len(body) \/ failed'
        OBVIOUS
      <3>0. r.read = t.read /\ Now(i).read = q.read
        BY <1>2, <1>5, <2>2
      <3>1. t.read /\ ~ Now(i).read
        BY <2>2, <3>0
      <3>2. t.pos = Len(body) \/ t.failed
        BY <3>1 DEF LineTakes
      <3> QED BY <1>1, <3>2
    <2> QED BY <2>1, <2>2
  <1>8. SameHolders /\ Fits(r)
    BY <1>1, <1>5, <1>6, <1>7, CopyKept DEF HasForm, q
  <1>9. ByteStep
    <2>1. bytes \in SUBSET Passed
      BY <1>1, <1>2 DEF LineTakes, Passed
    <2>2. \A p \in Passed : p \in bytes \/ Is(p, "nul") \/ type = "encoding"
      BY <1>1, <1>2 DEF LineTakes, Passed
    <2> QED BY <1>1, <1>6, <1>8, <2>1, <2>2 DEF ByteStep, HandedOver
  <1>10. calls' \in 0..MaxCalls /\ blocks' \in Seq(DOMAIN requests)
    BY <1>1 DEF BodyInv, TypeOK
  <1> QED BY <1>1, <1>5, <1>8, <1>9, <1>10, ObjectChanges

LEMMA NowTyped ==
    ASSUME BodyInv, NEW i \in DOMAIN requests
    PROVE  /\ Now(i) \in Stream /\ Now(i).pos <= Len(body) /\ Len(body) \in Nat
  <1>1. requests[i].read \in BOOLEAN
    BY ObjectFits DEF Request
  <1>2. pos \in 0..MaxBody /\ failed \in BOOLEAN /\ pos <= Len(body)
        /\ Len(body) \in Nat
    BY BodyTyped DEF BodyInv
  <1> QED BY <1>1, <1>2 DEF Now, Stream

LEMMA ReadLineInv ==
    ASSUME BodyInv, NEW i \in DOMAIN requests, ReadLine(i)
    PROVE  BodyInv' /\ InOrderStep
  <1>1. PICK t \in Stream : ReadLineOf(Now(i), t) /\ LineRead(i, t, LineOf(Now(i), t))
    BY DEF ReadLine
  <1>2. LineTakes(Now(i), t, LineOf(Now(i), t))
    BY <1>1, NowTyped, LineTaken
  <1> QED BY <1>1, <1>2, LineReadInv

LEMMA ReadEncodedLineInv ==
    ASSUME BodyInv, NEW i \in DOMAIN requests, ReadEncodedLine(i)
    PROVE  BodyInv' /\ InOrderStep
  <1>1. PICK t \in Stream, u \in Stream :
           /\ ReadLineOf(Now(i), t) /\ ReadLineOf(t, u)
           /\ \/ LineRead(i, u, CutTo(LineOf(Now(i), t), LineOf(t, u)))
              \/ LineRead(i, u, CutTo(LineOf(t, u), LineOf(Now(i), t)))
    BY DEF ReadEncodedLine
  <1> DEFINE s == Now(i)
  <1>2. s \in Stream /\ s.pos <= Len(body) /\ Len(body) \in Nat
    BY NowTyped
  <1> HIDE DEF s
  <1>3. LineTakes(s, t, LineOf(s, t))
    BY <1>1, <1>2, LineTaken DEF s
  <1>4. t.pos \in Nat /\ s.pos \in Nat /\ u.pos \in Nat
    BY <1>2 DEF Stream
  <1>5. t.pos <= Len(body)
    BY <1>2, <1>3, <1>4 DEF LineTakes
  <1>6. LineTakes(t, u, LineOf(t, u))
    BY <1>1, <1>2, <1>5, LineTaken
  <1>7. type = "encoding"
    BY DEF ReadEncodedLine
  <1>8. ASSUME NEW bytes, bytes \subseteq LineOf(s, t) \/ bytes \subseteq LineOf(t, u)
        PROVE  LineTakes(s, u, bytes)
    <2>1. u.pos \in s.pos..Len(body)
      BY <1>2, <1>3, <1>4, <1>6 DEF LineTakes
    <2>2. s.failed => u.failed
      BY <1>3, <1>6 DEF LineTakes
    <2>3. s.read => u = s
      BY <1>3, <1>6 DEF LineTakes
    <2>4. ~ s.read /\ u.read => u.pos = Len(body) \/ u.failed
      BY <1>3, <1>6 DEF LineTakes
    <2>5. bytes \subseteq s.pos + 1 .. u.pos
      <3>1. s.pos + 1 .. t.pos \subseteq s.pos + 1 .. u.pos
        BY <1>2, <1>4, <1>6 DEF LineTakes
      <3>2. t.pos + 1 .. u.pos \subseteq s.pos + 1 .. u.pos
        BY <1>2, <1>3, <1>4 DEF LineTakes
      <3> QED BY <1>3, <1>6, <1>8, <3>1, <3>2 DEF LineTakes
    <2> QED BY <1>7, <2>1, <2>2, <2>3, <2>4, <2>5 DEF LineTakes
  <1>9. CutTo(LineOf(s, t), LineOf(t, u)) \subseteq LineOf(s, t)
        /\ CutTo(LineOf(t, u), LineOf(s, t)) \subseteq LineOf(t, u)
    BY DEF CutTo
  <1>10. CASE LineRead(i, u, CutTo(LineOf(s, t), LineOf(t, u)))
    BY <1>8, <1>9, <1>10, LineReadInv DEF s
  <1>11. CASE LineRead(i, u, CutTo(LineOf(t, u), LineOf(s, t)))
    BY <1>8, <1>9, <1>11, LineReadInv DEF s
  <1> QED BY <1>1, <1>10, <1>11 DEF s

(* The copy takes all that is left; a form is parsed from it but once.     *)
LEMMA CollectedObject ==
    ASSUME BodyInv, NEW i \in DOMAIN requests, NEW sent,
           NEW stop \in pos..Len(body), ReadsUpTo(stop), UNCHANGED <<body, type>>
    PROVE  LET r == Collected(requests[i], sent)
           IN  /\ r \in Request /\ r.read /\ r.form = requests[i].form
               /\ r.content = requests[i].content \o Span(pos, pos')
               /\ ToSet(r.content) = ToSet(requests[i].content) \union Passed
               /\ \A k \in DOMAIN r.content :
                     r.content[k] = 0 => /\ k \in DOMAIN requests[i].content
                                         /\ requests[i].content[k] = 0
               /\ requests[i].read => r.content = requests[i].content
               /\ Advances /\ (pos' = Len(body) \/ failed')
  <1> DEFINE q == requests[i]
             r == Collected(q, sent)
             s == Prepared(q, sent)
  <1>1. /\ q \in Request /\ q.content \in Seq(0..MaxBody)
        /\ q.read => pos = Len(body) \/ failed
    BY ObjectFits
  <1>2. s \in Request /\ s.content = q.content /\ s.form = q.form
    BY <1>1, PreparedKeeps
  <1>3. /\ Advances /\ pos' = stop /\ (pos' = Len(body) \/ failed')
        /\ failed => pos' = pos
    BY StreamReads
  <1>4. /\ pos \in Nat /\ pos' \in Nat /\ pos <= pos' /\ pos' <= MaxBody
        /\ pos' <= Len(body) /\ Len(body) \in Nat
    BY <1>3, BodyTyped DEF BodyInv
  <1> DEFINE c == q.content \o Span(pos, pos')
  <1>5. /\ c \in Seq(0..MaxBody)
        /\ ToSet(c) = ToSet(q.content) \union (pos + 1 .. pos')
        /\ \A k \in DOMAIN c : c[k] = 0 => k \in DOMAIN q.content /\ q.content[k] = 0
        /\ pos = pos' => c = q.content
    BY <1>1, <1>4, Grown
  <1>6. r = [s EXCEPT !.read = TRUE, !.content = @ \o Span(pos, pos')]
    BY DEF Collected
  <1> HIDE DEF s, q
  <1>7. /\ r \in Request /\ r.read /\ r.form = q.form /\ r.content = c
    <2>1. s.content \o Span(pos, pos') = c
      BY <1>2
    <2> HIDE DEF c
    <2> QED BY <1>2, <1>5, <1>6, <2>1 DEF Request
  <1> HIDE DEF r
  <1>8. q.read => c = q.content
    BY <1>1, <1>3, <1>4, <1>5
  <1> QED BY <1>3, <1>5, <1>7, <1>8 DEF q, r, Passed

LEMMA ContentInv ==
    ASSUME BodyInv, NEW i \in DOMAIN requests, Content(i)
    PROVE  BodyInv' /\ InOrderStep
  <1>1. PICK stop \in pos..Len(body), sent \in Sent :
           /\ ReadsUpTo(stop)
           /\ requests' = [requests EXCEPT ![i] = Collected(@, sent)]
    BY DEF Content
  <1>2. UNCHANGED <<body, type, blocks, calls, got, discarded>>
    BY DEF Content
  <1> DEFINE q == requests[i]
             r == Collected(q, sent)
  <1>3. /\ r \in Request /\ r.read /\ r.form = q.form
        /\ ToSet(r.content) = ToSet(q.content) \union Passed
        /\ \A k \in DOMAIN r.content :
              r.content[k] = 0 => k \in DOMAIN q.content /\ q.content[k] = 0
        /\ q.read => r.content = q.content
        /\ Advances /\ (pos' = Len(body) \/ failed')
    BY <1>1, <1>2, CollectedObject
  <1>4. requests' = [requests EXCEPT ![i] = r]
    BY <1>1
  <1> HIDE DEF r
  <1>5. NulOK(q)
    BY ObjectFits
  <1>6. NulOK(r)
    <2>1. CASE q.read
      BY <1>3, <1>5, <2>1 DEF NulOK, HasForm
    <2>2. CASE ~ q.read
      <3>1. ~ HasForm(q) /\ ~ HasForm(r)
        BY <1>3, <1>5, <2>2 DEF NulOK, HasForm
      <3>2. \A k \in DOMAIN r.content : r.content[k] # 0
        BY <1>3, <1>5, <3>1 DEF NulOK
      <3> QED BY <3>1, <3>2 DEF NulOK
    <2> QED BY <2>1, <2>2
  <1>7. Fits(r)
    BY <1>3, <1>6 DEF Fits
  <1>8. CopiedTo(i)
    BY <1>2, <1>3, <1>4, CopiedHolders DEF BodyInv
  <1>9. ByteStep
    BY <1>3, <1>8, BodyTyped DEF ByteStep, BodyInv
  <1>10. calls' \in 0..MaxCalls /\ blocks' \in Seq(DOMAIN requests)
    BY <1>2 DEF BodyInv, TypeOK
  <1> QED BY <1>3, <1>4, <1>7, <1>9, <1>10, ObjectChanges

LEMMA ParsedObject ==
    ASSUME NEW c \in Request
    PROVE  LET r == WithForm(c)
           IN  /\ r \in Request /\ r.read = c.read
               /\ r.content = Append(c.content, 0)
               /\ r.form = CString(r.content) /\ HasForm(r)
  <1> DEFINE text == Append(c.content, 0)
             r == WithForm(c)
  <1>1. r = [c EXCEPT !.content = text, !.form = CString(text)]
    BY DEF WithForm
  <1>2. MaxBody \in Nat /\ 0 \in 0..MaxBody /\ c.content \in Seq(0..MaxBody)
    BY BoundsAreNats DEF Request
  <1>3. text \in Seq(0..MaxBody)
    BY <1>2, AppendProperties
  <1> HIDE DEF text, r
  <1>4. CString(text) \in Seq(0..MaxBody)
    BY <1>3, CStringTyped
  <1>5. CString(text) \in Seq(Nat)
    <2>1. 0..MaxBody \subseteq Nat
      BY <1>2
    <2> QED BY <1>4, <2>1, SeqMonotonic
  <1>6. r \in Request /\ r.read = c.read /\ r.content = text /\ r.form = CString(text)
    BY <1>1, <1>3, <1>4 DEF Request
  <1>7. HasForm(r)
    BY <1>5, <1>6, NullIsNoForm DEF HasForm
  <1> QED BY <1>6, <1>7 DEF r, text

LEMMA ParseFormInv ==
    ASSUME BodyInv, NEW i \in DOMAIN requests, ParseForm(i)
    PROVE  BodyInv' /\ InOrderStep
  <1>1. PICK stop \in pos..Len(body), sent \in Sent :
           /\ ReadsUpTo(stop)
           /\ requests' = [requests EXCEPT ![i] = WithForm(Collected(@, sent))]
    BY DEF ParseForm
  <1>2. /\ requests[i].form = NULL
        /\ UNCHANGED <<body, type, blocks, calls, got, discarded>>
    BY DEF ParseForm
  <1> DEFINE q == requests[i]
             c == Collected(q, sent)
             text == Append(c.content, 0)
             r == WithForm(c)
  <1>3. /\ c \in Request /\ c.read
        /\ ToSet(c.content) = ToSet(q.content) \union Passed
        /\ \A k \in DOMAIN c.content :
              c.content[k] = 0 => k \in DOMAIN q.content /\ q.content[k] = 0
        /\ Advances /\ (pos' = Len(body) \/ failed')
    BY <1>1, <1>2, CollectedObject
  <1>4. requests' = [requests EXCEPT ![i] = r]
    BY <1>1
  <1>5. /\ r \in Request /\ r.read /\ r.content = text /\ HasForm(r)
    BY <1>3, ParsedObject
  <1> HIDE DEF r, c
  <1>6. MaxBody \in Nat /\ 0 \in 0..MaxBody /\ c.content \in Seq(0..MaxBody)
    BY <1>3, BoundsAreNats DEF Request
  <1>7. /\ text \in Seq(0..MaxBody) /\ Len(text) = Len(c.content) + 1
        /\ \A k \in 1..Len(c.content) : text[k] = c.content[k]
        /\ text[Len(c.content) + 1] = 0
    BY <1>6, AppendProperties
  <1> HIDE DEF text
  <1>8. /\ DOMAIN text = 1..Len(text) /\ Len(text) \in Nat
        /\ DOMAIN c.content = 1..Len(c.content) /\ Len(c.content) \in Nat
    BY <1>6, <1>7, LenProperties
  <1>9. \A k \in 1..Len(c.content) : text[k] # 0
    <2>1. NulOK(q) /\ ~ HasForm(q)
      BY <1>2, ObjectFits DEF HasForm
    <2> QED BY <1>3, <1>7, <1>8, <2>1 DEF NulOK
  <1>10. NulOK(r)
    <2>1. \A k \in 1..Len(text) : text[k] = 0 <=> k = Len(text)
      BY <1>7, <1>8, <1>9
    <2> QED BY <1>8, <1>5, <2>1 DEF NulOK
  <1>11. Fits(r)
    BY <1>3, <1>5, <1>10 DEF Fits
  <1>12. ToSet(text) = ToSet(c.content) \union {0}
    <2>1. \A k \in 1..Len(text) : k \in 1..Len(c.content) \/ k = Len(c.content) + 1
      BY <1>7, <1>8
    <2>2. \A k \in 1..Len(c.content) : k \in 1..Len(text)
      BY <1>7, <1>8
    <2>3. Len(c.content) + 1 \in 1..Len(text)
      BY <1>7, <1>8
    <2> QED BY <1>7, <1>8, <2>1, <2>2, <2>3 DEF ToSet
  <1>13. ToSet(r.content) \intersect Position
            = (ToSet(q.content) \union Passed) \intersect Position
    BY <1>3, <1>5, <1>12, BodyTyped DEF BodyInv
  <1>14. CopiedTo(i)
    BY <1>2, <1>4, <1>5, <1>13, CopiedHolders DEF BodyInv
  <1>15. ByteStep
    BY <1>3, <1>14, BodyTyped DEF ByteStep, BodyInv
  <1>16. calls' \in 0..MaxCalls /\ blocks' \in Seq(DOMAIN requests)
    BY <1>2 DEF BodyInv, TypeOK
  <1> QED BY <1>4, <1>5, <1>11, <1>15, <1>16, ObjectChanges

LEMMA RefuseFormInv ==
    ASSUME BodyInv, NEW i \in DOMAIN requests, RefuseForm(i)
    PROVE  BodyInv' /\ InOrderStep
  <1> DEFINE q == requests[i]
             r == [q EXCEPT !.form = REFUSED, !.error = "type"]
  <1>1. /\ q.form = NULL /\ requests' = [requests EXCEPT ![i] = r]
        /\ UNCHANGED <<body, type, pos, failed, blocks, calls, got, discarded>>
    BY ObjectFits DEF RefuseForm, Request
  <1>2. q \in Request /\ (q.read => pos = Len(body) \/ failed)
    BY ObjectFits
  <1>3. /\ r \in Request /\ r.content = q.content /\ r.form = REFUSED
        /\ r.read = q.read
    BY <1>2 DEF Request
  <1> HIDE DEF r
  <1>4. HasForm(r) = HasForm(q)
    BY <1>1, <1>3 DEF HasForm
  <1>5. Advances /\ pos' = pos
    BY <1>1, BodyTyped DEF Advances, BodyInv
  <1>6. SameHolders /\ Fits(r)
    BY <1>1, <1>2, <1>3, <1>4, <1>5, CopyKept
  <1>7. ByteStep
    BY <1>1, <1>5, <1>6, NothingPassed
  <1>8. calls' \in 0..MaxCalls /\ blocks' \in Seq(DOMAIN requests)
    BY <1>1 DEF BodyInv, TypeOK
  <1> QED BY <1>1, <1>3, <1>6, <1>7, <1>8, ObjectChanges

---------------------------------------------------------------------------

LEMMA Initial == Init => BodyInv
  <1> SUFFICES ASSUME Init PROVE BodyInv
    OBVIOUS
  <1>1. /\ pos = 0 /\ failed = FALSE /\ requests = <<New>> /\ blocks = <<>>
        /\ calls = 0 /\ got = [p \in Position |-> 0] /\ discarded = {}
        /\ type \in ContentType
    BY DEF Init
  <1>2. body \in Seq(Byte) /\ Len(body) \in 0..MaxBody
    <2>1. PICK n \in 0..MaxBody : body \in [1..n -> Byte]
      BY DEF Init
    <2>2. n \in Nat
      BY BoundsAreNats
    <2>3. body \in Seq(Byte) /\ DOMAIN body = 1..n
      BY <2>1, <2>2, SeqDef
    <2>4. Len(body) = n
      BY <2>2, <2>3, LenProperties
    <2> QED BY <2>1, <2>3, <2>4
  <1>3. /\ New \in Request /\ New.content = <<>> /\ ~ New.read
        /\ ~ HasForm(New)
    BY EmptySeq DEF New, Request, HasForm
  <1>4. requests \in Seq(Request) /\ DOMAIN requests = {1} /\ requests[1] = New
    BY <1>1, <1>3
  <1>5. TypeOK
    <2>1. blocks \in Seq(DOMAIN requests)
      BY <1>1, EmptySeq
    <2>2. Len(body) \in Nat /\ Len(body) <= MaxBody
      BY <1>2, BoundsAreNats
    <2>3. got \in [Position -> Nat]
      BY <1>1
    <2>4. pos \in 0..Len(body) /\ calls \in 0..MaxCalls
      <3>1. MaxCalls \in Nat
        BY BoundsAreNats
      <3> QED BY <1>1, <2>2, <3>1
    <2>6. failed \in BOOLEAN /\ discarded \subseteq Position
      BY <1>1
    <2>5. type \in ContentType /\ requests \in Seq(Request)
      BY <1>1, <1>4
    <2> QED BY <1>2, <2>1, <2>2, <2>3, <2>4, <2>5, <2>6 DEF TypeOK
  <1>6. \A p \in Position : Holders(p) = {} /\ got[p] = 0
    BY <1>1, <1>3, <1>4 DEF Holders, ToSet
  <1>7. EveryByteOnce /\ ReadSoFar
    BY <1>1, <1>6 DEF EveryByteOnce, ReadSoFar, Reached
  <1>8. NothingLost
    BY <1>1 DEF NothingLost
  <1>9. FlagMeansEnd /\ NulIsLast /\ FormMeansRead
    BY <1>3, <1>4 DEF FlagMeansEnd, NulIsLast, FormMeansRead
  <1> QED BY <1>5, <1>7, <1>8, <1>9 DEF BodyInv

LEMMA Step == BodyInv /\ [Next]_vars => BodyInv' /\ (InOrderStep \/ UNCHANGED vars)
  <1> SUFFICES ASSUME BodyInv, [Next]_vars
               PROVE  BodyInv' /\ (InOrderStep \/ UNCHANGED vars)
    OBVIOUS
  <1>1. CASE MakeRequest
    BY <1>1, MakeRequestInv
  <1>2. CASE DiscardBody
    BY <1>2, DiscardBodyInv
  <1>3. CASE FeedBlock
    BY <1>3, FeedBlockInv
  <1>4. CASE BlockRaises
    BY <1>4, BlockRaisesInv
  <1>5. ASSUME NEW i \in DOMAIN requests, Content(i) PROVE BodyInv' /\ InOrderStep
    BY <1>5, ContentInv
  <1>6. ASSUME NEW i \in DOMAIN requests, BeginBlock(i) PROVE BodyInv' /\ InOrderStep
    BY <1>6, BeginBlockInv
  <1>7. ASSUME NEW i \in DOMAIN requests, ReadLine(i) PROVE BodyInv' /\ InOrderStep
    BY <1>7, ReadLineInv
  <1>8. ASSUME NEW i \in DOMAIN requests, ReadEncodedLine(i)
        PROVE BodyInv' /\ InOrderStep
    BY <1>8, ReadEncodedLineInv
  <1>9. ASSUME NEW i \in DOMAIN requests, NEW n \in 1..MaxBody, Read(i, n)
        PROVE BodyInv' /\ InOrderStep
    BY <1>9, ReadInv
  <1>10. ASSUME NEW i \in DOMAIN requests, ParseForm(i) PROVE BodyInv' /\ InOrderStep
    BY <1>10, ParseFormInv
  <1>11. ASSUME NEW i \in DOMAIN requests, RefuseForm(i) PROVE BodyInv' /\ InOrderStep
    BY <1>11, RefuseFormInv
  <1>12. CASE UNCHANGED vars
    <2>1. UNCHANGED <<body, type, pos, failed, requests, blocks, calls, got, discarded>>
      BY <1>12 DEF vars
    <2>2. Advances /\ pos' = pos
      BY <2>1, BodyTyped DEF Advances, BodyInv
    <2>3. ByteStep
      BY <2>1, <2>2, SameRequests, NothingPassed
    <2>4. blocks' \in Seq(DOMAIN requests)
      BY <2>1 DEF BodyInv, TypeOK
    <2> QED BY <2>1, <2>3, <2>4, ObjectsStay
  <1> QED BY <1>1, <1>2, <1>3, <1>4, <1>5, <1>6, <1>7, <1>8, <1>9, <1>10, <1>11,
             <1>12 DEF Next

LEMMA Always == Spec => []BodyInv
  <1>1. BodyInv /\ [Next]_vars => BodyInv'
    BY Step
  <1> QED BY Initial, <1>1, PTL DEF Spec

---------------------------------------------------------------------------
(* What a step does to the copy and the form of an object: nothing, or it  *)
(* makes the object, or it copies what it reads, or parses it as well.     *)

Same(j) ==
    /\ j \in DOMAIN requests
    /\ requests'[j].content = requests[j].content
    /\ HasForm(requests'[j]) = HasForm(requests[j])
    /\ HasForm(requests[j]) => requests'[j].form = requests[j].form

Made(j) ==
    j \notin DOMAIN requests /\ requests'[j].content = <<>> /\ ~ HasForm(requests'[j])

Longer(j) ==
    /\ j \in DOMAIN requests
    /\ requests'[j].content = requests[j].content \o Span(pos, pos')
    /\ ~ HasForm(requests[j]) /\ ~ HasForm(requests'[j])

Formed(j) ==
    /\ j \in DOMAIN requests
    /\ requests'[j].content = Append(requests[j].content \o Span(pos, pos'), 0)
    /\ ~ HasForm(requests[j]) /\ HasForm(requests'[j])
    /\ requests'[j].form = CString(requests'[j].content)

CopyStep ==
    /\ body' = body /\ pos' >= pos
    /\ DOMAIN requests \subseteq DOMAIN requests'
    /\ \A j \in DOMAIN requests' : Same(j) \/ Made(j) \/ Longer(j) \/ Formed(j)

LEMMA CopiesStay ==
    ASSUME BodyInv, UNCHANGED <<body, requests>>, pos' >= pos
    PROVE  CopyStep
  BY DEF CopyStep, Same

(* One object changes, whatever it does.                                   *)
LEMMA CopyChanges ==
    ASSUME BodyInv, NEW i \in DOMAIN requests, NEW r \in Request,
           requests' = [requests EXCEPT ![i] = r], body' = body, pos' >= pos,
           requests'[i] = r => Same(i) \/ Longer(i) \/ Formed(i)
    PROVE  CopyStep
  <1>1. /\ DOMAIN requests' = DOMAIN requests /\ requests'[i] = r
        /\ \A j \in DOMAIN requests : j # i => requests'[j] = requests[j]
    BY Updated DEF BodyInv
  <1>2. \A j \in DOMAIN requests : j # i => Same(j)
    BY <1>1 DEF Same
  <1> QED BY <1>1, <1>2 DEF CopyStep

LEMMA PosIsNat == BodyInv => pos \in Nat
  BY BodyTyped DEF BodyInv

LEMMA MakeRequestCopies ==
    ASSUME BodyInv, MakeRequest
    PROVE  CopyStep
  <1>1. requests' = Append(requests, New) /\ body' = body /\ pos' = pos
    BY DEF MakeRequest
  <1>2. New \in Request /\ New.content = <<>> /\ ~ HasForm(New)
    BY EmptySeq DEF New, Request, HasForm
  <1>3. DOMAIN requests = 1..Len(requests) /\ Len(requests) \in Nat
        /\ requests \in Seq(Request)
    BY BodyTyped DEF BodyInv, TypeOK
  <1>4. /\ requests' \in Seq(Request) /\ Len(requests') = Len(requests) + 1
        /\ \A j \in 1..Len(requests) : requests'[j] = requests[j]
        /\ requests'[Len(requests) + 1] = New
    BY <1>1, <1>2, <1>3, AppendProperties
  <1>5. DOMAIN requests' = 1..Len(requests) + 1
    BY <1>4, LenProperties
  <1>6. \A j \in 1..Len(requests) : Same(j)
    BY <1>3, <1>4 DEF Same
  <1>7. Made(Len(requests) + 1)
    BY <1>2, <1>3, <1>4 DEF Made
  <1>8. \A j \in DOMAIN requests' : j \in 1..Len(requests) \/ j = Len(requests) + 1
    BY <1>3, <1>5
  <1>9. DOMAIN requests \subseteq DOMAIN requests'
    BY <1>3, <1>5
  <1>10. pos' >= pos
    BY <1>1, PosIsNat
  <1> QED BY <1>1, <1>6, <1>7, <1>8, <1>9, <1>10 DEF CopyStep

LEMMA EndBlockCopies ==
    ASSUME BodyInv, EndBlock
    PROVE  CopyStep
  <1> DEFINE i == Last(blocks)
             r == [requests[i] EXCEPT !.read = TRUE]
  <1>1. /\ blocks # <<>> /\ (AtEnd \/ Fails) /\ UNCHANGED <<body, type>>
        /\ requests' = [requests EXCEPT ![i] = r]
    BY DEF EndBlock
  <1>2. i \in DOMAIN requests
    BY <1>1, BlocksTyped DEF BodyInv
  <1>3. requests[i] \in Request
    BY <1>2, ObjectFits
  <1>4. /\ r \in Request /\ r.content = requests[i].content
        /\ r.form = requests[i].form
    BY <1>3 DEF Request
  <1> HIDE DEF r, i
  <1>5. pos' >= pos
    BY <1>1, StreamReads, PosIsNat
  <1>6. requests'[i] = r => Same(i)
    BY <1>2, <1>4 DEF Same, HasForm
  <1> QED BY <1>1, <1>2, <1>4, <1>5, <1>6, CopyChanges

LEMMA FeedBlockCopies ==
    ASSUME BodyInv, FeedBlock
    PROVE  CopyStep
  <1>1. CASE EndBlock
    BY <1>1, EndBlockCopies
  <1>2. CASE ~ EndBlock
    <2>1. PICK n \in 1..MaxBody : Reads(n)
      BY <1>2 DEF FeedBlock
    <2>2. UNCHANGED <<body, type, requests>>
      BY <1>2 DEF FeedBlock
    <2>3. pos' >= pos
      BY <2>1, PosIsNat DEF Reads
    <2> QED BY <2>2, <2>3, CopiesStay
  <1> QED BY <1>1, <1>2

LEMMA BeginBlockCopies ==
    ASSUME BodyInv, NEW i \in DOMAIN requests, BeginBlock(i)
    PROVE  CopyStep
  <1>1. PICK sent \in Sent : requests' = [requests EXCEPT ![i] = Prepared(@, sent)]
    BY DEF BeginBlock
  <1> DEFINE r == Prepared(requests[i], sent)
  <1>2. r \in Request /\ r.content = requests[i].content /\ r.form = requests[i].form
    BY ObjectFits, PreparedKeeps
  <1>3. requests' = [requests EXCEPT ![i] = r]
    BY <1>1
  <1> HIDE DEF r
  <1>4. body' = body /\ pos' >= pos
    BY PosIsNat DEF BeginBlock
  <1>5. requests'[i] = r => Same(i)
    BY <1>2 DEF Same, HasForm
  <1> QED BY <1>2, <1>3, <1>4, <1>5, CopyChanges

LEMMA ReadCopies ==
    ASSUME BodyInv, NEW i \in DOMAIN requests, NEW n \in 1..MaxBody, Read(i, n)
    PROVE  CopyStep
  <1>1. requests[i] \in Request /\ UNCHANGED <<body, type>>
    BY ObjectFits DEF Read
  <1> DEFINE s == SetUp(requests[i])
  <1>2. /\ s \in Request /\ s.content = requests[i].content
        /\ s.form = requests[i].form
    BY <1>1, PreparedKeeps
  <1>3. CASE (\E m \in 1..n : Reads(m)) /\ requests' = [requests EXCEPT ![i] = s]
    <2>1. pos' >= pos
      BY <1>3, PosIsNat DEF Reads
    <2>2. requests'[i] = s => Same(i)
      BY <1>2 DEF Same, HasForm
    <2> HIDE DEF s
    <2> QED BY <1>1, <1>2, <1>3, <2>1, <2>2, CopyChanges
  <1>4. CASE /\ AtEnd \/ Fails
             /\ requests' = [requests EXCEPT ![i] = [s EXCEPT !.read = TRUE]]
    <2> DEFINE r == [s EXCEPT !.read = TRUE]
    <2> HIDE DEF s
    <2>1. /\ r \in Request /\ r.content = requests[i].content
          /\ r.form = requests[i].form
      BY <1>2 DEF Request
    <2>2. requests' = [requests EXCEPT ![i] = r]
      BY <1>4
    <2> HIDE DEF r
    <2>3. pos' >= pos
      BY <1>1, <1>4, StreamReads, PosIsNat
    <2>4. requests'[i] = r => Same(i)
      BY <2>1 DEF Same, HasForm
    <2> QED BY <1>1, <2>1, <2>2, <2>3, <2>4, CopyChanges
  <1> QED BY <1>3, <1>4 DEF Read

LEMMA LineReadCopies ==
    ASSUME BodyInv, NEW i \in DOMAIN requests, NEW t \in Stream, NEW bytes,
           LineRead(i, t, bytes), t.pos >= pos
    PROVE  CopyStep
  <1> DEFINE q == requests[i]
             r == IF q.read THEN q ELSE [SetUp(q) EXCEPT !.read = t.read]
  <1>1. q \in Request
    BY ObjectFits
  <1>2. r \in Request /\ r.content = q.content /\ r.form = q.form
    <2>1. CASE q.read
      BY <1>1, <2>1
    <2>2. CASE ~ q.read
      <3>1. SetUp(q) \in Request /\ SetUp(q).content = q.content
            /\ SetUp(q).form = q.form
        BY <1>1, PreparedKeeps
      <3>2. t.read \in BOOLEAN
        BY DEF Stream
      <3> QED BY <2>2, <3>1, <3>2 DEF Request
    <2> QED BY <2>1, <2>2
  <1>3. requests' = [requests EXCEPT ![i] = r] /\ body' = body /\ pos' = t.pos
    BY DEF LineRead
  <1> HIDE DEF r
  <1>4. requests'[i] = r => Same(i)
    BY <1>2 DEF Same, HasForm
  <1> QED BY <1>2, <1>3, <1>4, CopyChanges

LEMMA LineGoesOn ==
    ASSUME NEW s \in Stream, NEW t \in Stream, ReadLineOf(s, t)
    PROVE  s.pos \in Nat /\ t.pos \in Nat /\ t.pos >= s.pos
  <1>1. s.pos \in Nat /\ t.pos \in Nat
    BY DEF Stream
  <1> QED BY <1>1 DEF ReadLineOf

LEMMA ReadLineCopies ==
    ASSUME BodyInv, NEW i \in DOMAIN requests, ReadLine(i) \/ ReadEncodedLine(i)
    PROVE  CopyStep
  <1>1. Now(i) \in Stream /\ Now(i).pos = pos
    BY NowTyped DEF Now
  <1>2. CASE ReadLine(i)
    <2>1. PICK t \in Stream : ReadLineOf(Now(i), t)
                              /\ LineRead(i, t, LineOf(Now(i), t))
      BY <1>2 DEF ReadLine
    <2>2. t.pos >= pos
      BY <1>1, <2>1, LineGoesOn
    <2> QED BY <2>1, <2>2, LineReadCopies
  <1>3. CASE ReadEncodedLine(i)
    <2>1. PICK t \in Stream, u \in Stream :
             /\ ReadLineOf(Now(i), t) /\ ReadLineOf(t, u)
             /\ \E bytes : LineRead(i, u, bytes)
      BY <1>3 DEF ReadEncodedLine
    <2>2. pos \in Nat /\ t.pos \in Nat /\ u.pos \in Nat
          /\ t.pos >= pos /\ u.pos >= t.pos
      BY <1>1, <2>1, LineGoesOn
    <2>3. u.pos >= pos
      BY <2>2
    <2> QED BY <2>1, <2>3, LineReadCopies
  <1> QED BY <1>2, <1>3

LEMMA ContentCopies ==
    ASSUME BodyInv, NEW i \in DOMAIN requests, Content(i)
    PROVE  CopyStep
  <1>1. PICK stop \in pos..Len(body), sent \in Sent :
           /\ ReadsUpTo(stop)
           /\ requests' = [requests EXCEPT ![i] = Collected(@, sent)]
    BY DEF Content
  <1>2. UNCHANGED <<body, type>>
    BY DEF Content
  <1> DEFINE q == requests[i]
             r == Collected(q, sent)
  <1>3. /\ r \in Request /\ r.form = q.form
        /\ r.content = q.content \o Span(pos, pos')
        /\ q.read => r.content = q.content
        /\ Advances
    BY <1>1, <1>2, CollectedObject
  <1>4. requests' = [requests EXCEPT ![i] = r]
    BY <1>1
  <1>5. pos' >= pos
    BY <1>3, PosIsNat, BodyTyped DEF Advances, BodyInv
  <1> HIDE DEF r
  <1>6. HasForm(q) => q.read
    BY ObjectFits DEF NulOK
  <1>7. requests'[i] = r => Same(i) \/ Longer(i)
    BY <1>3, <1>6 DEF Same, Longer, HasForm
  <1> QED BY <1>2, <1>3, <1>4, <1>5, <1>7, CopyChanges


LEMMA ParseFormCopies ==
    ASSUME BodyInv, NEW i \in DOMAIN requests, ParseForm(i)
    PROVE  CopyStep
  <1>1. PICK stop \in pos..Len(body), sent \in Sent :
           /\ ReadsUpTo(stop)
           /\ requests' = [requests EXCEPT ![i] = WithForm(Collected(@, sent))]
    BY DEF ParseForm
  <1>2. requests[i].form = NULL /\ UNCHANGED <<body, type>>
    BY DEF ParseForm
  <1> DEFINE q == requests[i]
             c == Collected(q, sent)
             r == WithForm(c)
  <1>3. c \in Request /\ c.content = q.content \o Span(pos, pos') /\ Advances
    BY <1>1, <1>2, CollectedObject
  <1>4. requests' = [requests EXCEPT ![i] = r]
    BY <1>1
  <1> HIDE DEF c
  <1>5. /\ r \in Request /\ r.content = Append(c.content, 0)
        /\ r.form = CString(r.content) /\ HasForm(r)
    BY <1>3, ParsedObject
  <1> HIDE DEF r
  <1>6. pos' >= pos
    BY <1>3, PosIsNat, BodyTyped DEF Advances, BodyInv
  <1>7. requests'[i] = r => Formed(i)
    BY <1>2, <1>3, <1>5 DEF Formed, HasForm
  <1> QED BY <1>2, <1>4, <1>5, <1>6, <1>7, CopyChanges

LEMMA RefuseFormCopies ==
    ASSUME BodyInv, NEW i \in DOMAIN requests, RefuseForm(i)
    PROVE  CopyStep
  <1> DEFINE q == requests[i]
             r == [q EXCEPT !.form = REFUSED, !.error = "type"]
  <1>1. q.form = NULL /\ requests' = [requests EXCEPT ![i] = r]
        /\ body' = body /\ pos' = pos
    BY ObjectFits DEF RefuseForm, Request
  <1>2. q \in Request
    BY ObjectFits
  <1>3. r \in Request /\ r.content = q.content /\ r.form = REFUSED
    BY <1>2 DEF Request
  <1> HIDE DEF r
  <1>4. requests'[i] = r => Same(i)
    BY <1>1, <1>3 DEF Same, HasForm
  <1>5. pos' >= pos
    BY <1>1, PosIsNat
  <1> QED BY <1>1, <1>3, <1>4, <1>5, CopyChanges

LEMMA EveryStepCopies == BodyInv /\ [Next]_vars => CopyStep
  <1> SUFFICES ASSUME BodyInv, [Next]_vars PROVE CopyStep
    OBVIOUS
  <1>1. CASE MakeRequest
    BY <1>1, MakeRequestCopies
  <1>2. CASE DiscardBody
    <2>1. UNCHANGED <<body, requests>> /\ \E stop \in pos..Len(body) : pos' = stop
      BY <1>2 DEF DiscardBody, ReadsUpTo
    <2>2. pos' >= pos
      BY <2>1, PosIsNat, BodyTyped DEF BodyInv
    <2> QED BY <2>1, <2>2, CopiesStay
  <1>3. CASE FeedBlock
    BY <1>3, FeedBlockCopies
  <1>4. CASE BlockRaises \/ UNCHANGED vars
    <2>1. UNCHANGED <<body, requests, pos>>
      BY <1>4 DEF BlockRaises, vars
    <2>2. pos' >= pos
      BY <2>1, PosIsNat
    <2> QED BY <2>1, <2>2, CopiesStay
  <1>5. ASSUME NEW i \in DOMAIN requests,
               \/ Content(i) \/ BeginBlock(i) \/ ReadLine(i) \/ ReadEncodedLine(i)
               \/ \E n \in 1..MaxBody : Read(i, n)
               \/ ParseForm(i) \/ RefuseForm(i)
        PROVE  CopyStep
    BY <1>5, ContentCopies, BeginBlockCopies, ReadLineCopies, ReadCopies,
       ParseFormCopies, RefuseFormCopies
  <1> QED BY <1>1, <1>2, <1>3, <1>4, <1>5 DEF Next

---------------------------------------------------------------------------
(* An object alone with all that was read holds it as it was read.         *)

LEMMA SpanFromZero ==
    ASSUME NEW n \in Nat, n <= MaxBody
    PROVE  /\ Span(0, n) \in Seq(0..MaxBody) /\ Len(Span(0, n)) = n
           /\ \A k \in 1..n : Span(0, n)[k] = k
  <1>1. 0 \in Nat /\ 0 <= n
    OBVIOUS
  <1> DEFINE s == Span(0, n)
  <1>2. /\ s \in Seq(0..MaxBody) /\ Len(s) = n - 0
        /\ \A k \in 1..n - 0 : s[k] = 0 + k
    BY <1>1, SpanProperties
  <1> HIDE DEF s
  <1>3. \A k \in 1..n : k \in 1..n - 0 /\ 0 + k = k
    OBVIOUS
  <1>4. Len(s) = n /\ \A k \in 1..n : s[k] = k
    BY <1>2, <1>3
  <1> QED BY <1>2, <1>4 DEF s

(* Two spans, one behind the other.                                        *)
LEMMA SpansJoin ==
    ASSUME NEW a \in Nat, NEW b \in Nat, a <= b, b <= MaxBody
    PROVE  Span(0, a) \o Span(a, b) = Span(0, b)
  <1>1. 0 \in Nat /\ 0 <= a /\ a <= MaxBody /\ 0 <= b /\ MaxBody \in Nat
    BY BoundsAreNats
  <1> DEFINE s == Span(0, a)
             t == Span(a, b)
             u == Span(0, b)
  <1>2. /\ s \in Seq(0..MaxBody) /\ Len(s) = a
        /\ \A k \in 1..a : s[k] = k
    BY <1>1, SpanFromZero
  <1>3. /\ t \in Seq(0..MaxBody) /\ Len(t) = b - a
        /\ \A k \in 1..b - a : t[k] = a + k
    BY <1>1, SpanProperties
  <1>4. /\ u \in Seq(0..MaxBody) /\ Len(u) = b
        /\ \A k \in 1..b : u[k] = k
    BY <1>1, SpanFromZero
  <1> HIDE DEF s, t, u
  <1>5. /\ s \o t \in Seq(0..MaxBody) /\ Len(s \o t) = Len(s) + Len(t)
        /\ \A k \in 1..Len(s) + Len(t) :
              (s \o t)[k] = IF k <= Len(s) THEN s[k] ELSE t[k - Len(s)]
    BY <1>2, <1>3, ConcatProperties
  <1>6. Len(s \o t) = Len(u)
    BY <1>2, <1>3, <1>4, <1>5
  <1>7. ASSUME NEW k \in 1..Len(u) PROVE (s \o t)[k] = u[k]
    <2>1. k \in 1..b /\ k \in 1..Len(s) + Len(t)
      BY <1>2, <1>3, <1>4
    <2>2. CASE k <= a
      BY <1>2, <1>4, <1>5, <2>1, <2>2
    <2>3. CASE ~ (k <= a)
      <3> DEFINE l == k - a
      <3>1. l \in 1..b - a /\ a + l = k
        BY <2>1, <2>3
      <3>2. (s \o t)[k] = t[l]
        BY <1>2, <1>5, <2>1, <2>3
      <3> HIDE DEF l
      <3>3. t[l] = k
        BY <1>3, <3>1
      <3> QED BY <1>4, <2>1, <3>2, <3>3
    <2> QED BY <2>2, <2>3
  <1>8. s \o t = u
    BY <1>4, <1>5, <1>6, <1>7, SeqEqual
  <1> QED BY <1>8 DEF s, t, u

LEMMA AppendedZero ==
    ASSUME NEW s \in Seq(0..MaxBody), NEW p, p # 0
    PROVE  p \in ToSet(Append(s, 0)) <=> p \in ToSet(s)
  <1>1. MaxBody \in Nat /\ 0 \in 0..MaxBody
    BY BoundsAreNats
  <1> DEFINE t == Append(s, 0)
  <1>2. /\ t \in Seq(0..MaxBody) /\ Len(t) = Len(s) + 1
        /\ \A k \in 1..Len(s) : t[k] = s[k]
        /\ t[Len(s) + 1] = 0
    BY <1>1, AppendProperties
  <1> HIDE DEF t
  <1>3. /\ DOMAIN t = 1..Len(t) /\ DOMAIN s = 1..Len(s) /\ Len(s) \in Nat
    BY <1>2, LenProperties
  <1>4. \A k \in DOMAIN t : k \in 1..Len(s) \/ k = Len(s) + 1
    BY <1>2, <1>3
  <1>5. \A k \in DOMAIN s : k \in DOMAIN t
    BY <1>2, <1>3
  <1> QED BY <1>2, <1>3, <1>4, <1>5 DEF ToSet, t

(* What a step copies was not held before, so that what was read before it *)
(* keeps its holders.                                                      *)
LEMMA HoldersKept ==
    ASSUME BodyInv, CopyStep, pos' \in 0..Len(body), NEW p \in 1..pos
    PROVE  Holders(p)' = Holders(p)
  <1>1. /\ pos \in Nat /\ pos' \in Nat /\ pos <= pos' /\ pos' <= MaxBody
        /\ MaxBody \in Nat
    <2>1. pos \in Nat /\ Len(body) \in Nat /\ MaxBody \in Nat /\ Len(body) <= MaxBody
      BY BodyTyped DEF BodyInv
    <2>2. pos' \in Nat
      BY <2>1
    <2> QED BY <2>1, <2>2 DEF CopyStep
  <1>2. ASSUME NEW j \in DOMAIN requests
        PROVE  p \in ToSet(requests'[j].content) <=> p \in ToSet(requests[j].content)
    <2> DEFINE c == requests[j].content
               s == c \o Span(pos, pos')
    <2>1. c \in Seq(0..MaxBody)
      BY ObjectFits
    <2>2. s \in Seq(0..MaxBody) /\ (p \in ToSet(s) <=> p \in ToSet(c))
      <3>1. s \in Seq(0..MaxBody) /\ ToSet(s) = ToSet(c) \union (pos + 1 .. pos')
        BY <1>1, <2>1, Grown
      <3> QED BY <1>1, <3>1
    <2> HIDE DEF c, s
    <2>3. p \in ToSet(Append(s, 0)) <=> p \in ToSet(s)
      BY <1>1, <2>2, AppendedZero
    <2>4. requests'[j].content \in {c, s, Append(s, 0)}
      BY DEF CopyStep, Same, Made, Longer, Formed, c, s
    <2> QED BY <2>2, <2>3, <2>4 DEF c
  <1>3. ASSUME NEW j \in DOMAIN requests' \ DOMAIN requests
        PROVE  p \notin ToSet(requests'[j].content)
    BY <1>3 DEF CopyStep, Same, Made, Longer, Formed, ToSet
  <1> QED BY <1>2, <1>3 DEF Holders, CopyStep

LEMMA WholeStep ==
    ASSUME WholeInv, CopyStep, BodyInv'
    PROVE  WholeSoFar' /\ FormOfCopy'
  <1>1. /\ pos \in Nat /\ pos' \in Nat /\ pos <= pos' /\ pos' <= Len(body)
        /\ pos' <= MaxBody /\ MaxBody \in Nat /\ Len(body) \in Nat
    <2>1. pos \in Nat /\ Len(body) \in Nat /\ MaxBody \in Nat /\ Len(body) <= MaxBody
      BY BodyTyped DEF WholeInv, BodyInv
    <2>2. pos' \in 0..Len(body)
      BY DEF BodyInv, TypeOK, CopyStep
    <2> QED BY <2>1, <2>2 DEF CopyStep
  <1>2. \A p \in 1..pos : Holders(p)' = Holders(p)
    <2>1. pos' \in 0..Len(body)
      BY <1>1
    <2> QED BY <2>1, HoldersKept DEF WholeInv
  <1>3. ASSUME NEW j \in DOMAIN requests', \A p \in 1..pos' : Holders(p)' = {j}
        PROVE  requests'[j].content = IF HasForm(requests'[j])
                                      THEN Append(Span(0, pos'), 0)
                                      ELSE Span(0, pos')
    <2>1. pos' \in 1..pos' => pos' \in ToSet(requests'[j].content)
      BY <1>3 DEF Holders
    <2>2. j \in DOMAIN requests => requests[j].content = Whole(requests[j])
      <3>1. \A p \in 1..pos : Holders(p) = {j}
        BY <1>1, <1>2, <1>3
      <3> QED BY <3>1 DEF WholeInv, WholeSoFar
    <2>3. CASE Same(j)
      <3>1. pos' = pos
        <4> SUFFICES ASSUME pos' # pos PROVE FALSE
          OBVIOUS
        <4>1. pos' \in 1..pos' /\ pos' \in Position /\ ~ (pos' <= pos)
          BY <1>1 DEF Position
        <4>2. j \in Holders(pos')
          BY <2>1, <2>3, <4>1 DEF Same, Holders
        <4> QED BY <4>1, <4>2 DEF WholeInv, BodyInv, ReadSoFar, Reached
      <3> QED BY <2>2, <2>3, <3>1 DEF Same, Whole
    <2>4. CASE Made(j)
      <3>1. pos' = 0
        <4> SUFFICES ASSUME pos' # 0 PROVE FALSE
          OBVIOUS
        <4>1. pos' \in 1..pos'
          BY <1>1
        <4> QED BY <2>1, <2>4, <4>1 DEF Made, ToSet
      <3>2. Span(0, pos') = <<>>
        BY <1>1, <3>1, SpanProperties
      <3> QED BY <2>4, <3>2 DEF Made
    <2>5. requests[j].content = Span(0, pos)
             => requests[j].content \o Span(pos, pos') = Span(0, pos')
      BY <1>1, SpansJoin
    <2>6. CASE Longer(j)
      BY <2>2, <2>5, <2>6 DEF Longer, Whole
    <2>7. CASE Formed(j)
      BY <2>2, <2>5, <2>7 DEF Formed, Whole
    <2> QED BY <2>3, <2>4, <2>6, <2>7 DEF CopyStep
  <1>4. WholeSoFar'
    BY <1>3 DEF WholeSoFar, Whole, HasForm
  <1>5. ASSUME NEW j \in DOMAIN requests', HasForm(requests'[j])
        PROVE  requests'[j].form = CString(requests'[j].content)
    <2>1. CASE Same(j)
      BY <1>5, <2>1 DEF Same, WholeInv, FormOfCopy
    <2>2. CASE Formed(j)
      BY <2>2 DEF Formed
    <2> QED BY <1>5, <2>1, <2>2 DEF CopyStep, Made, Longer
  <1>6. \A content : CString(content)' = CString(content)
    BY DEF CopyStep, CString, Is, Position
  <1>7. FormOfCopy'
    BY <1>5, <1>6 DEF FormOfCopy, HasForm
  <1> QED BY <1>4, <1>7

(* A copy of the whole body, cut at its first NUL.                         *)
LEMMA CStringOfWhole ==
    ASSUME TypeOK
    PROVE  LET cut == {p \in Position : Is(p, "nul")}
           IN  CString(Append(Span(0, Len(body)), 0))
                  = Span(0, IF cut = {} THEN Len(body)
                            ELSE (CHOOSE p \in cut : \A q \in cut : p <= q) - 1)
  <1> DEFINE L == Len(body)
             s == Span(0, L)
             text == Append(s, 0)
             cut == {p \in Position : Is(p, "nul")}
             nul == {k \in DOMAIN text : text[k] = 0 \/ Is(text[k], "nul")}
             first == CHOOSE k \in nul : \A l \in nul : k <= l
             least == CHOOSE p \in cut : \A q \in cut : p <= q
  <1>1. L \in Nat /\ MaxBody \in Nat /\ L <= MaxBody /\ Position = 1..L
    BY BodyTyped DEF Position
  <1> HIDE DEF L
  <1>2. s \in Seq(0..MaxBody) /\ Len(s) = L /\ \A k \in 1..L : s[k] = k
    BY <1>1, SpanFromZero
  <1> HIDE DEF s
  <1>3. /\ text \in Seq(0..MaxBody) /\ Len(text) = L + 1
        /\ \A k \in 1..L : text[k] = k
        /\ text[L + 1] = 0
    <2>1. 0 \in 0..MaxBody
      BY <1>1
    <2> QED BY <1>1, <1>2, <2>1, AppendProperties
  <1> HIDE DEF text
  <1>4. DOMAIN text = 1..L + 1
    BY <1>3, LenProperties
  <1>5. nul = cut \union {L + 1}
    <2>1. \A k \in 1..L : k \in nul <=> k \in cut
      BY <1>1, <1>3, <1>4
    <2>2. L + 1 \in nul
      BY <1>1, <1>3, <1>4
    <2>3. \A k \in nul : k \in 1..L \/ k = L + 1
      BY <1>1, <1>4
    <2>4. cut \subseteq 1..L
      BY <1>1
    <2> QED BY <2>1, <2>2, <2>3, <2>4
  <1>6. CString(text) = SubSeq(text, 1, first - 1)
    BY <1>5 DEF CString
  <1>7. cut \subseteq 1..L
    BY <1>1
  <1> HIDE DEF cut, nul
  <1>8. first = IF cut = {} THEN L + 1 ELSE least
    <2>1. CASE cut = {}
      BY <1>1, <1>5, <2>1
    <2>2. CASE cut # {}
      <3>1. PICK m \in cut : \A q \in cut : m <= q
        BY <1>1, <1>7, <2>2, SmallestOf
      <3>2. least \in cut /\ \A q \in cut : least <= q
        BY <3>1
      <3> HIDE DEF least
      <3>3. least \in nul /\ \A l \in nul : least <= l
        BY <1>1, <1>5, <1>7, <3>2
      <3>4. first \in nul /\ \A l \in nul : first <= l
        BY <3>3
      <3> HIDE DEF first
      <3>5. first <= least /\ least <= first /\ least \in Nat /\ first \in Nat
        BY <1>1, <1>5, <1>7, <3>2, <3>3, <3>4
      <3> QED BY <2>2, <3>5
    <2> QED BY <2>1, <2>2
  <1>9. first \in 1..L + 1
    <2>1. CASE cut = {}
      <3>1. L + 1 \in 1..L + 1
        BY <1>1
      <3> QED BY <1>8, <2>1, <3>1
    <2>2. CASE cut # {}
      <3>1. PICK m \in cut : \A q \in cut : m <= q
        BY <1>1, <1>7, <2>2, SmallestOf
      <3>2. least \in cut
        BY <3>1
      <3> HIDE DEF least, first
      <3> QED BY <1>1, <1>7, <1>8, <2>2, <3>2
    <2> QED BY <2>1, <2>2
  <1> DEFINE n == first - 1
  <1>10. n \in 0..L /\ n \in Nat /\ n <= MaxBody
    <2> HIDE DEF first
    <2> QED BY <1>1, <1>9
  <1>11. n = IF cut = {} THEN L ELSE least - 1
    <2> HIDE DEF first, least
    <2> QED BY <1>1, <1>8
  <1>12. CString(text) = SubSeq(text, 1, n)
    BY <1>6
  <1> HIDE DEF n, first
  <1>13. SubSeq(text, 1, n) = Span(0, n)
    <2>1. /\ Span(0, n) \in Seq(0..MaxBody) /\ Len(Span(0, n)) = n
          /\ \A k \in 1..n : Span(0, n)[k] = k
      BY <1>10, SpanFromZero
    <2>2. \A k \in 1..n : text[k] = k /\ k \in 0..MaxBody
      BY <1>1, <1>3, <1>10
    <2>3. \A k \in 1..n : text[k] \in 0..MaxBody
      BY <2>2
    <2>4. /\ SubSeq(text, 1, n) \in Seq(0..MaxBody)
          /\ Len(SubSeq(text, 1, n)) = n
          /\ \A k \in 1..n : SubSeq(text, 1, n)[k] = text[k]
      <3>1. /\ SubSeq(text, 1, n) \in Seq(0..MaxBody)
            /\ Len(SubSeq(text, 1, n)) = IF 1 <= n THEN n - 1 + 1 ELSE 0
            /\ \A k \in 1..n - 1 + 1 : SubSeq(text, 1, n)[k] = text[1 + k - 1]
        BY <1>10, <2>3, SubSeqProperties
      <3> QED BY <1>10, <3>1
    <2> QED BY <2>1, <2>2, <2>4, SeqEqual
  <1> QED BY <1>11, <1>12, <1>13 DEF cut, text, s, L

LEMMA WholeIsForm == WholeInv => FormIsWhole
  <1> SUFFICES ASSUME WholeInv, NEW i \in DOMAIN requests,
                      HasForm(requests[i]), ~ failed,
                      \A p \in Position : Holders(p) = {i}
               PROVE  LET cut == {p \in Position : Is(p, "nul")}
                      IN  requests[i].form
                             = Span(0, IF cut = {} THEN Len(body)
                                       ELSE (CHOOSE p \in cut :
                                               \A q \in cut : p <= q) - 1)
    BY DEF FormIsWhole
  <1>1. pos = Len(body)
    BY DEF WholeInv, BodyInv, FormMeansRead, FlagMeansEnd
  <1>2. requests[i].content = Append(Span(0, Len(body)), 0)
    BY <1>1 DEF WholeInv, WholeSoFar, Whole, Position
  <1>3. requests[i].form = CString(Append(Span(0, Len(body)), 0))
    BY <1>2 DEF WholeInv, FormOfCopy
  <1> QED BY <1>3, CStringOfWhole DEF WholeInv, BodyInv

LEMMA AlwaysWhole == Spec => []WholeInv
  <1>1. Init => WholeInv
    <2> SUFFICES ASSUME Init PROVE WholeInv
      OBVIOUS
    <2>1. /\ DOMAIN requests = {1} /\ requests[1].content = <<>>
          /\ ~ HasForm(requests[1]) /\ pos = 0
      <3>1. requests = <<New>> /\ pos = 0
        BY DEF Init
      <3>2. New.content = <<>> /\ ~ HasForm(New)
        BY DEF New, HasForm
      <3> QED BY <3>1, <3>2
    <2>2. Span(0, 0) = <<>>
      <3>1. 0 \in Nat /\ 0 <= 0 /\ 0 <= MaxBody
        BY BoundsAreNats
      <3> QED BY <3>1, SpanProperties
    <2>3. WholeSoFar
      BY <2>1, <2>2 DEF WholeSoFar, Whole
    <2>4. FormOfCopy
      BY <2>1 DEF FormOfCopy
    <2> QED BY <2>3, <2>4, Initial DEF WholeInv
  <1>2. WholeInv /\ [Next]_vars => WholeInv'
    <2> SUFFICES ASSUME WholeInv, [Next]_vars PROVE WholeInv'
      OBVIOUS
    <2>1. BodyInv' /\ CopyStep
      BY Step, EveryStepCopies DEF WholeInv
    <2>2. WholeSoFar' /\ FormOfCopy'
      BY <2>1, WholeStep
    <2> QED BY <2>1, <2>2 DEF WholeInv
  <1> QED BY <1>1, <1>2, PTL DEF Spec

---------------------------------------------------------------------------

(* The stream, the objects and the histories have their types, however     *)
(* the calls of the hooks and of their blocks are mixed                    *)
(* (request.cpp:169-435).                                                  *)
THEOREM BodyTypes == Spec => []TypeOK
  <1>1. BodyInv => TypeOK
    BY DEF BodyInv
  <1> QED BY <1>1, Always, PTL

(* A byte of the body reaches Ruby one way only (request.cpp:226-350).     *)
THEOREM BytesReachOnce == Spec => []EveryByteOnce
  <1>1. BodyInv => EveryByteOnce
    BY DEF BodyInv
  <1> QED BY <1>1, Always, PTL

(* Of what was read nothing is lost but NULs and encoded lines             *)
(* (request.cpp:279-327, ruby_request.cpp:964-994).                        *)
THEOREM BytesAreKept == Spec => []NothingLost
  <1>1. BodyInv => NothingLost
    BY DEF BodyInv
  <1> QED BY <1>1, Always, PTL

(* An object that refuses to read hides nothing (request.cpp:273, 281,     *)
(* 331).                                                                   *)
THEOREM FlagsAreRight == Spec => []FlagMeansEnd
  <1>1. BodyInv => FlagMeansEnd
    BY DEF BodyInv
  <1> QED BY <1>1, Always, PTL

(* Nothing is copied behind the NUL of a form (request.cpp:268, 424-427).  *)
THEOREM FormsStayLast == Spec => []NulIsLast
  <1>1. BodyInv => NulIsLast
    BY DEF BodyInv
  <1> QED BY <1>1, Always, PTL

(* The parameters are parsed from the whole body, up to a NUL, when no     *)
(* other object and no other call took some of it and the connection did   *)
(* not fail (request.cpp:379-435).                                         *)
THEOREM FormsAreWhole == Spec => []FormIsWhole
  BY AlwaysWhole, WholeIsForm, PTL

(* Bytes reach Ruby in the order of the body (request.cpp:250-268).        *)
THEOREM BytesReachInOrder == Spec => InOrder
  <1>1. BodyInv /\ [Next]_vars =>
           [\A p, q \in Position :
               Reached(p) /\ ~ Reached(q) /\ Reached(q)' => p < q]_vars
    BY Step DEF InOrderStep
  <1> QED BY <1>1, Always, PTL DEF Spec, InOrder

===========================================================================
