--------------------------- MODULE OutputProofs ---------------------------
(***************************************************************************)
(* Theorems of Output, for any number of runs, of nested runs and of texts. *)
(***************************************************************************)
EXTENDS Output, SequenceTheorems, TLAPS

---------------------------------------------------------------------------
(* The shape of a step: what it does to the stack and to what was sent.    *)

LEMMA FrontLast ==
    ASSUME NEW S, NEW s \in Seq(S), s # <<>>
    PROVE  /\ Len(s) \in Nat \ {0} /\ DOMAIN s = 1..Len(s)
           /\ \A k \in 1..Len(s) : s[k] \in S
           /\ Last(s) = s[Len(s)] /\ Last(s) \in S
           /\ Front(s) \in Seq(S)
           /\ Len(Front(s)) = Len(s) - 1
           /\ \A k \in 1..Len(s) - 1 : Front(s)[k] = s[k]
  <1>1. Len(s) \in Nat \ {0} /\ DOMAIN s = 1..Len(s)
    BY EmptySeq, LenProperties
  <1>2. \A k \in 1..Len(s) : s[k] \in S
    BY ElementOfSeq
  <1>3. \A k \in 1..Len(s) - 1 : s[k] \in S
    BY <1>1, <1>2
  <1>4. /\ Front(s) \in Seq(S) /\ Len(Front(s)) = Len(s) - 1
        /\ \A k \in 1..Len(s) - 1 : Front(s)[k] = s[k]
    BY <1>1, <1>3, SubSeqProperties DEF Front
  <1> QED BY <1>1, <1>2, <1>4 DEF Last

LEMMA Replaced ==
    ASSUME stack \in Seq(Frame), stack # <<>>, NEW f \in Frame, Replace(f)
    PROVE  /\ stack' \in Seq(Frame)
           /\ Len(stack') = Len(stack)
           /\ DOMAIN stack' = 1..Len(stack)
           /\ stack'[Len(stack)] = f
           /\ \A k \in 1..Len(stack) - 1 : stack'[k] = stack[k]
  <1>1. stack' = Append(Front(stack), f)
    BY DEF Replace
  <1>2. /\ Len(stack) \in Nat \ {0}
        /\ Front(stack) \in Seq(Frame) /\ Len(Front(stack)) = Len(stack) - 1
        /\ \A k \in 1..Len(stack) - 1 : Front(stack)[k] = stack[k]
    BY FrontLast
  <1>3. /\ stack' \in Seq(Frame) /\ Len(stack') = Len(stack)
        /\ \A k \in 1..Len(stack) - 1 : stack'[k] = Front(stack)[k]
        /\ stack'[Len(stack)] = f
    BY <1>1, <1>2, AppendProperties
  <1> QED BY <1>2, <1>3, LenProperties

(* Two frames that differ in their histories at most.                      *)
SameRun(f, g) ==
    /\ f.kind = g.kind /\ f.step = g.step /\ f.out = g.out
    /\ f.previous = g.previous /\ f.response = g.response /\ f.real = g.real
    /\ f.diverted = g.diverted

LEMMA DisturbedTyped ==
    ASSUME NEW f \in Frame, NEW disturbs \in BOOLEAN
    PROVE  Disturbed(f, disturbs) \in Frame /\ SameRun(Disturbed(f, disturbs), f)
  <1>1. (f.disturbed \/ disturbs) \in BOOLEAN
    OBVIOUS
  <1> QED BY <1>1 DEF Disturbed, Frame, SameRun

LEMMA Ended ==
    ASSUME stack \in Seq(Frame), stack # <<>>,
           NEW left, NEW disturbs \in BOOLEAN, EndRun(left, disturbs)
    PROVE  /\ stack' \in Seq(Frame)
           /\ Len(stack') = Len(stack) - 1
           /\ DOMAIN stack' = 1..Len(stack) - 1
           /\ \A k \in 1..Len(stack) - 1 : SameRun(stack'[k], stack[k])
  <1> DEFINE outer == Front(stack)
             f == Disturbed(Last(outer), disturbs)
  <1>1. /\ Len(stack) \in Nat \ {0}
        /\ outer \in Seq(Frame) /\ Len(outer) = Len(stack) - 1
        /\ \A k \in 1..Len(stack) - 1 : outer[k] = stack[k]
    BY FrontLast
  <1>2. CASE outer = <<>>
    <2>1. stack' = <<>> /\ Len(outer) = 0
      BY <1>2, EmptySeq DEF EndRun
    <2>2. Len(stack) = 1
      BY <1>1, <2>1
    <2>3. stack' \in Seq(Frame) /\ Len(stack') = 0 /\ DOMAIN stack' = 1..0
      BY <2>1, EmptySeq, LenProperties
    <2> QED BY <2>2, <2>3
  <1>3. CASE outer # <<>>
    <2> HIDE DEF outer, f
    <2>1. stack' = Append(Front(outer), f)
      BY <1>3 DEF EndRun, outer, f
    <2>2. /\ Len(outer) \in Nat \ {0} /\ Last(outer) = outer[Len(outer)]
          /\ Last(outer) \in Frame
          /\ Front(outer) \in Seq(Frame) /\ Len(Front(outer)) = Len(outer) - 1
          /\ \A k \in 1..Len(outer) - 1 : Front(outer)[k] = outer[k]
      BY <1>1, <1>3, FrontLast
    <2>3. f \in Frame /\ SameRun(f, outer[Len(outer)])
      BY <2>2, DisturbedTyped DEF f
    <2>4. /\ stack' \in Seq(Frame) /\ Len(stack') = Len(outer)
          /\ \A k \in 1..Len(outer) - 1 : stack'[k] = outer[k]
          /\ stack'[Len(outer)] = f
      BY <2>1, <2>2, <2>3, AppendProperties
    <2>5. \A k \in 1..Len(outer) : SameRun(stack'[k], outer[k])
      <3>1. \A g : SameRun(g, g)
        BY DEF SameRun
      <3>2. \A k \in 1..Len(outer) : k # Len(outer) => k \in 1..Len(outer) - 1
        BY <2>2
      <3> QED BY <2>3, <2>4, <3>1, <3>2
    <2>6. \A k \in 1..Len(outer) : SameRun(stack'[k], stack[k])
      BY <1>1, <2>5
    <2> QED BY <1>1, <2>4, <2>6, LenProperties
  <1> QED BY <1>2, <1>3

LEMMA SentAfter ==
    ASSUME sent \in Seq((1..MaxRuns) \X Text), NEW texts \in Seq(Text),
           request \in 1..MaxRuns, Send(texts)
    PROVE  /\ sent' \in Seq((1..MaxRuns) \X Text)
           /\ Len(sent') = Len(sent) + Len(texts)
           /\ \A i \in 1..Len(sent) : sent'[i] = sent[i]
           /\ \A i \in DOMAIN sent' : i \notin DOMAIN sent =>
                 /\ i - Len(sent) \in DOMAIN texts
                 /\ sent'[i] = <<request, texts[i - Len(sent)]>>
  <1> DEFINE more == [i \in DOMAIN texts |-> <<request, texts[i]>>]
             S == (1..MaxRuns) \X Text
  <1>1. Len(texts) \in Nat /\ DOMAIN texts = 1..Len(texts)
        /\ \A i \in 1..Len(texts) : texts[i] \in Text
    BY LenProperties, ElementOfSeq
  <1>2. more \in Seq(S) /\ Len(more) = Len(texts)
    <2>1. \A i \in 1..Len(texts) : <<request, texts[i]>> \in S
      BY <1>1
    <2>2. more = [i \in 1..Len(texts) |-> <<request, texts[i]>>]
      BY <1>1
    <2> HIDE DEF more
    <2>3. more \in [1..Len(texts) -> S]
      BY <2>1, <2>2
    <2>4. Seq(S) = UNION {[1..n -> S] : n \in Nat}
      BY SeqDef
    <2>5. more \in Seq(S)
      BY <1>1, <2>3, <2>4
    <2>6. DOMAIN more = 1..Len(texts) /\ DOMAIN more = 1..Len(more)
          /\ Len(more) \in Nat
      BY <2>3, <2>5, LenProperties
    <2> QED BY <1>1, <2>5, <2>6
  <1>3. sent' = sent \o more
    BY DEF Send
  <1>4. \A i \in 1..Len(texts) : more[i] = <<request, texts[i]>>
    BY <1>1
  <1> HIDE DEF more, S
  <1>5. sent \in Seq(S) /\ Len(sent) \in Nat /\ DOMAIN sent = 1..Len(sent)
    BY LenProperties DEF S
  <1>6. /\ sent' \in Seq(S) /\ Len(sent') = Len(sent) + Len(texts)
        /\ \A i \in 1..Len(sent) + Len(texts) :
              sent'[i] = IF i <= Len(sent) THEN sent[i] ELSE more[i - Len(sent)]
    <2>1. /\ sent \o more \in Seq(S)
          /\ Len(sent \o more) = Len(sent) + Len(more)
          /\ \A i \in 1..Len(sent) + Len(more) :
                (sent \o more)[i] = IF i <= Len(sent) THEN sent[i]
                                   ELSE more[i - Len(sent)]
      BY <1>2, <1>5, ConcatProperties
    <2> QED BY <1>2, <1>3, <2>1
  <1>7. DOMAIN sent' = 1..Len(sent) + Len(texts)
    <2>1. sent' \in Seq(S) /\ Len(sent') = Len(sent) + Len(texts)
      BY <1>6
    <2>2. DOMAIN sent' = 1..Len(sent')
      BY <2>1, LenProperties
    <2> QED BY <2>1, <2>2
  <1>8. \A i \in 1..Len(sent) : sent'[i] = sent[i]
    BY <1>1, <1>5, <1>6
  <1>9. \A i \in DOMAIN sent' : i \notin DOMAIN sent =>
           /\ i - Len(sent) \in 1..Len(texts)
           /\ sent'[i] = <<request, texts[i - Len(sent)]>>
    BY <1>1, <1>4, <1>5, <1>6, <1>7
  <1> QED BY <1>1, <1>6, <1>8, <1>9 DEF S

---------------------------------------------------------------------------
(* The runs and their buffers.                                             *)

LEMMA Typed ==
    ASSUME TypeOK
    PROVE  /\ Len(buffers) \in Nat /\ DOMAIN buffers = Buffer
           /\ \A b \in Buffer : buffers[b] \in Seq(Text)
           /\ Len(stack) \in Nat /\ DOMAIN stack = 1..Len(stack)
           /\ \A k \in 1..Len(stack) : stack[k] \in Frame
           /\ Len(sent) \in Nat /\ DOMAIN sent = 1..Len(sent)
           /\ \A i \in 1..Len(sent) : sent[i] \in (1..MaxRuns) \X Text
           /\ stack # <<>> =>
                 /\ Len(stack) >= 1
                 /\ Top = stack[Len(stack)] /\ Top \in Frame
  <1>1. /\ Len(buffers) \in Nat /\ DOMAIN buffers = Buffer
        /\ \A b \in Buffer : buffers[b] \in Seq(Text)
    BY LenProperties, ElementOfSeq DEF TypeOK, Buffer
  <1>2. /\ Len(stack) \in Nat /\ DOMAIN stack = 1..Len(stack)
        /\ \A k \in 1..Len(stack) : stack[k] \in Frame
    BY LenProperties, ElementOfSeq DEF TypeOK
  <1>3. /\ Len(sent) \in Nat /\ DOMAIN sent = 1..Len(sent)
        /\ \A i \in 1..Len(sent) : sent[i] \in (1..MaxRuns) \X Text
    BY LenProperties, ElementOfSeq DEF TypeOK
  <1>4. ASSUME stack # <<>>
        PROVE  /\ Len(stack) >= 1
               /\ Top = stack[Len(stack)] /\ Top \in Frame
    <2>1. /\ Len(stack) \in Nat \ {0} /\ Last(stack) = stack[Len(stack)]
          /\ Last(stack) \in Frame
      BY <1>4, FrontLast DEF TypeOK
    <2> QED BY <2>1 DEF Top
  <1> QED BY <1>1, <1>2, <1>3, <1>4

(* A buffer that may be sent belongs to a run.                             *)
LEMMA LiveAt ==
    ASSUME TypeOK, FramesInv
    PROVE  /\ \A b \in Live : \E k \in 1..Len(stack) : b \in Owned(stack[k])
           /\ \A k \in 1..Len(stack) : Owned(stack[k]) \subseteq Live
           /\ Live \subseteq Buffer /\ 1 \notin Live
  BY Typed DEF Live, FramesInv, FrameOK, Buffer

Apartness == TypeOK /\ FramesInv /\ Apart /\ StdoutInside

LEMMA EndedInv ==
    ASSUME Apartness, stack # <<>>, UNCHANGED buffers,
           NEW left \in Buffer, Inside(left, Len(stack) - 1, stack),
           NEW disturbs \in BOOLEAN, EndRun(left, disturbs)
    PROVE  /\ stack' \in Seq(Frame) /\ stdout' \in Buffer'
           /\ FramesInv' /\ Apart' /\ StdoutInside'
           /\ Live' \subseteq Live /\ Top.out \notin Live'
  <1> DEFINE n == Len(stack)
  <1>1. /\ n \in Nat /\ n >= 1 /\ DOMAIN stack = 1..n /\ Top = stack[n]
        /\ \A k \in 1..n : stack[k] \in Frame
    BY Typed DEF Apartness
  <1>0. n = Len(stack)
    OBVIOUS
  <1>2. /\ stack' \in Seq(Frame) /\ Len(stack') = n - 1
        /\ DOMAIN stack' = 1..n - 1
        /\ \A k \in 1..n - 1 : SameRun(stack'[k], stack[k])
    BY Ended DEF Apartness, TypeOK
  <1> HIDE DEF n
  <1>3. stdout' = left /\ UNCHANGED request
    BY DEF EndRun
  <1>4. \A k \in 1..n - 1 :
           /\ Owned(stack'[k]) = Owned(stack[k])
           /\ IsScript(stack'[k]) = IsScript(stack[k])
    BY <1>2 DEF SameRun, Owned, IsScript
  <1>5. \A b, m : m \in 0..n - 1 /\ Inside(b, m, stack) => Inside(b, m, stack')
    BY <1>1, <1>4 DEF Inside
  <1>6. FramesInv'
    <2> SUFFICES ASSUME NEW k \in 1..n - 1
                 PROVE  /\ FrameOK(stack'[k], Len(buffers))
                        /\ stack'[k].step = "setup" => k = n - 1
                        /\ request >= 1
      BY <1>2, <1>3 DEF FramesInv
    <2>1. k \in 1..n /\ k # n
      BY <1>1
    <2>2. FrameOK(stack[k], Len(buffers)) /\ stack[k].step # "setup" /\ request >= 1
      BY <1>1, <2>1 DEF Apartness, FramesInv
    <2> QED BY <1>2, <2>2 DEF SameRun, FrameOK, Owned
  <1>7. Apart'
    <2> SUFFICES ASSUME NEW i \in 1..n - 1, NEW j \in 1..n - 1, i # j
                 PROVE  Owned(stack'[i]) \intersect Owned(stack'[j]) = {}
      BY <1>2 DEF Apart
    <2>1. Owned(stack[i]) \intersect Owned(stack[j]) = {}
      BY <1>1 DEF Apartness, Apart
    <2> QED BY <1>4, <2>1
  <1>8. StdoutInside'
    <2>1. Inside(stdout', n - 1, stack')
      BY <1>0, <1>1, <1>3, <1>5
    <2>2. ASSUME NEW m \in 1..n - 1
          PROVE  /\ Inside(stack'[m].previous, m - 1, stack')
                 /\ Inside(stack'[m].real, m, stack')
      <3>1. /\ Inside(stack[m].previous, m - 1, stack)
            /\ Inside(stack[m].real, m, stack)
        BY <1>1 DEF Apartness, StdoutInside
      <3>2. stack'[m].previous = stack[m].previous /\ stack'[m].real = stack[m].real
        BY <1>2 DEF SameRun
      <3>3. m - 1 \in 0..n - 1 /\ m \in 0..n - 1
        BY <1>1
      <3> QED BY <1>5, <3>1, <3>2, <3>3
    <2> QED BY <1>2, <2>1, <2>2 DEF StdoutInside
  <1>9. Live' \subseteq Live /\ Top.out \notin Live'
    <2>1. \A b \in Live' : \E k \in 1..n - 1 : b \in Owned(stack[k])
      BY <1>2, <1>4 DEF Live
    <2>2. \A k \in 1..n - 1 : Owned(stack[k]) \subseteq Live
      BY <1>1, LiveAt DEF Apartness
    <2>3. \A k \in 1..n - 1 : Top.out \notin Owned(stack[k])
      <3>1. \A k \in 1..n - 1 : Owned(stack[k]) \intersect Owned(stack[n]) = {}
        BY <1>1 DEF Apartness, Apart
      <3>2. stack[n].out # NULL => stack[n].out \in Owned(stack[n])
        BY DEF Owned
      <3>3. \A k \in 1..n - 1 : NULL \notin Owned(stack[k])
        BY DEF Owned
      <3> QED BY <1>1, <3>1, <3>2, <3>3
    <2> QED BY <2>1, <2>2, <2>3
  <1> QED BY <1>2, <1>3, <1>6, <1>7, <1>8, <1>9 DEF Buffer

(* Run n, the innermost, becomes f: what it makes is new.                  *)
LEMMA ReplacedInv ==
    ASSUME Apartness, stack # <<>>, UNCHANGED request,
           NEW f \in Frame, Replace(f),
           buffers' \in Seq(Seq(Text)), Len(buffers) <= Len(buffers'),
           stdout' \in Buffer', request >= 1,
           FrameOK(f, Len(buffers')), f.step = "running",
           \A b \in Owned(f) : b \in Owned(Top) \/ b > Len(buffers),
           \A b \in {stdout', f.real} :
               /\ Inside(b, Len(stack) - 1, stack)
               /\ IsScript(f) => \A k \in 1..Len(stack) - 1 : b \notin Owned(stack[k]),
           Inside(f.previous, Len(stack) - 1, stack)
    PROVE  /\ stack' \in Seq(Frame)
           /\ FramesInv' /\ Apart' /\ StdoutInside'
           /\ \A b \in Live' : b \in Live \/ b > Len(buffers)
  <1> DEFINE n == Len(stack)
  <1>1. /\ n \in Nat /\ n >= 1 /\ DOMAIN stack = 1..n /\ Top = stack[n]
        /\ \A k \in 1..n : stack[k] \in Frame
    BY Typed DEF Apartness
  <1>2. /\ stack' \in Seq(Frame) /\ Len(stack') = n
        /\ DOMAIN stack' = 1..n /\ stack'[n] = f
        /\ \A k \in 1..n - 1 : stack'[k] = stack[k]
    BY Replaced DEF Apartness, TypeOK
  <1>0. n = Len(stack)
    OBVIOUS
  <1> HIDE DEF n
  <1>3. Len(buffers) \in Nat /\ Len(buffers') \in Nat
    <2>1. Len(buffers) \in Nat
      BY Typed DEF Apartness
    <2>2. buffers' \in Seq(Seq(Text))
      OBVIOUS
    <2>3. Len(buffers') \in Nat
      BY <2>2, LenProperties
    <2> QED BY <2>1, <2>3
  <1>4. \A b, m : m \in 0..n - 1 /\ Inside(b, m, stack) => Inside(b, m, stack')
    <2> SUFFICES ASSUME NEW b, NEW m \in 0..n - 1, Inside(b, m, stack),
                        NEW i \in 1..m, NEW j \in 1..m, i < j, IsScript(stack'[j])
                 PROVE  b \notin Owned(stack'[i])
      BY DEF Inside
    <2>1. i \in 1..n - 1 /\ j \in 1..n - 1
      BY <1>1
    <2>2. stack'[i] = stack[i] /\ stack'[j] = stack[j]
      BY <1>2, <2>1
    <2> QED BY <2>2 DEF Inside
  <1>5. \A b \in {stdout', f.real} : Inside(b, n, stack')
    <2> SUFFICES ASSUME NEW b \in {stdout', f.real}, NEW i \in 1..n, NEW j \in 1..n,
                        i < j, IsScript(stack'[j])
                 PROVE  b \notin Owned(stack'[i])
      BY DEF Inside
    <2>1. i \in 1..n - 1 /\ stack'[i] = stack[i]
      BY <1>1, <1>2
    <2>2. CASE j = n
      <3>1. IsScript(f)
        BY <1>2, <2>2
      <3>2. b \notin Owned(stack[i])
        BY <1>0, <2>1, <3>1
      <3> QED BY <2>1, <3>2
    <2>3. CASE j # n
      <3>1. j \in 1..n - 1 /\ stack'[j] = stack[j]
        BY <1>1, <1>2, <2>3
      <3> QED BY <1>0, <2>1, <3>1 DEF Inside
    <2> QED BY <2>2, <2>3
  <1>6. FramesInv'
    <2> SUFFICES ASSUME NEW k \in 1..n
                 PROVE  /\ FrameOK(stack'[k], Len(buffers'))
                        /\ stack'[k].step = "setup" => k = n
      BY <1>2 DEF FramesInv
    <2>1. CASE k = n
      BY <1>2, <2>1
    <2>2. CASE k # n
      <3>1. stack'[k] = stack[k]
        BY <1>1, <1>2, <2>2
      <3>2. FramesInv /\ k \in DOMAIN stack
        BY <1>1 DEF Apartness
      <3>3. /\ FrameOK(stack[k], Len(buffers))
            /\ stack[k].step = "setup" => k = n
        BY <1>0, <3>2 DEF FramesInv
      <3> QED BY <1>3, <3>1, <3>3 DEF FrameOK
    <2> QED BY <2>1, <2>2
  <1>7. \A k \in 1..n - 1 :
           /\ Owned(stack[k]) \subseteq 2..Len(buffers)
           /\ Owned(stack[k]) \intersect Owned(f) = {}
    <2> SUFFICES ASSUME NEW k \in 1..n - 1
                 PROVE  /\ Owned(stack[k]) \subseteq 2..Len(buffers)
                        /\ Owned(stack[k]) \intersect Owned(f) = {}
      OBVIOUS
    <2>0. k \in DOMAIN stack /\ n \in DOMAIN stack /\ k # n
      BY <1>1
    <2>1. Owned(stack[k]) \subseteq 2..Len(buffers)
      BY <2>0 DEF Apartness, FramesInv, FrameOK
    <2>2. Owned(stack[k]) \intersect Owned(stack[n]) = {}
      BY <2>0 DEF Apartness, Apart
    <2> QED BY <1>1, <1>3, <2>1, <2>2
  <1>8. Apart'
    <2> SUFFICES ASSUME NEW i \in 1..n, NEW j \in 1..n, i # j
                 PROVE  Owned(stack'[i]) \intersect Owned(stack'[j]) = {}
      BY <1>2 DEF Apart
    <2>1. CASE i # n /\ j # n
      <3>1. i \in 1..n - 1 /\ j \in 1..n - 1 /\ i \in DOMAIN stack /\ j \in DOMAIN stack
        BY <1>1, <2>1
      <3>2. stack'[i] = stack[i] /\ stack'[j] = stack[j]
        BY <1>2, <3>1
      <3>3. Owned(stack[i]) \intersect Owned(stack[j]) = {}
        BY <3>1 DEF Apartness, Apart
      <3> QED BY <3>2, <3>3
    <2>2. CASE i = n
      BY <1>1, <1>2, <1>7, <2>2
    <2>3. CASE j = n
      BY <1>1, <1>2, <1>7, <2>3
    <2> QED BY <2>1, <2>2, <2>3
  <1>9. StdoutInside'
    <2>1. ASSUME NEW m \in 1..n
          PROVE  /\ Inside(stack'[m].previous, m - 1, stack')
                 /\ Inside(stack'[m].real, m, stack')
      <3>1. CASE m = n
        <4>1. Inside(stack'[m].real, m, stack')
          BY <1>2, <1>5, <3>1
        <4>2. m - 1 \in 0..n - 1 /\ Inside(f.previous, m - 1, stack)
          BY <1>0, <1>1, <3>1
        <4>3. Inside(f.previous, m - 1, stack')
          BY <1>4, <4>2
        <4> QED BY <1>2, <3>1, <4>1, <4>3
      <3>2. CASE m # n
        <4>1. m \in 1..n - 1 /\ m \in 0..n - 1 /\ m - 1 \in 0..n - 1 /\ m \in DOMAIN stack
          BY <1>1, <3>2
        <4>2. /\ Inside(stack[m].previous, m - 1, stack)
              /\ Inside(stack[m].real, m, stack)
          BY <4>1 DEF Apartness, StdoutInside
        <4>3. stack'[m] = stack[m]
          BY <1>2, <4>1
        <4> QED BY <1>4, <4>1, <4>2, <4>3
      <3> QED BY <3>1, <3>2
    <2> QED BY <1>2, <1>5, <2>1 DEF StdoutInside
  <1>10. \A b \in Live' : b \in Live \/ b > Len(buffers)
    <2>1. \A k \in 1..n : \A b \in Owned(stack'[k]) :
             (\E l \in 1..n : b \in Owned(stack[l])) \/ b > Len(buffers)
      BY <1>1, <1>2
    <2>2. \A l \in 1..n : Owned(stack[l]) \subseteq Live
      BY <1>0, LiveAt DEF Apartness
    <2>3. \A b \in Live' : \E k \in 1..n : b \in Owned(stack'[k])
      BY <1>2 DEF Live
    <2> QED BY <2>1, <2>2, <2>3
  <1> QED BY <1>2, <1>6, <1>8, <1>9, <1>10

---------------------------------------------------------------------------
(* The texts: a step sends traces and one buffer that may be sent, prints  *)
(* a text, or does neither.                                                *)

(* A buffer keeps its texts or loses them all.                             *)
KeptOrEmptied(b) == buffers'[b] = <<>> \/ (b \in Buffer /\ buffers'[b] = buffers[b])

LEMMA TextsKept ==
    ASSUME TextsInv, UNCHANGED <<sent, request, prints>>,
           \A b \in Buffer' : KeptOrEmptied(b),
           Live' \subseteq Buffer',
           \A b \in Live' : b \in Live \/ buffers'[b] = <<>>
    PROVE  TextsInv'
  <1>1. \A b \in Buffer' : \A k \in DOMAIN buffers'[b] :
           b \in Buffer /\ buffers'[b] = buffers[b]
    BY EmptySeq DEF KeptOrEmptied
  <1>2. \A b \in Live' : \A k \in DOMAIN buffers'[b] :
           b \in Live /\ buffers'[b] = buffers[b]
    BY <1>1, EmptySeq
  <1>3. PrintedTexts'
    BY <1>1 DEF TextsInv, PrintedTexts
  <1>4. Unsent'
    BY <1>2 DEF TextsInv, Unsent
  <1>5. Unrepeated'
    BY <1>2 DEF TextsInv, Unrepeated
  <1>6. SentOnce' /\ SentToItsRequest'
    BY DEF TextsInv, SentOnce, SentToItsRequest
  <1> QED BY <1>3, <1>4, <1>5, <1>6 DEF TextsInv

(* The first c texts sent are traces, those after them a buffer's.         *)
Sendable(texts, c, b) ==
    \A i \in DOMAIN texts :
        /\ texts[i].from = request
        /\ i <= c => texts[i].trace # NULL /\ texts[i].n = 0
        /\ i > c => /\ b \in Live /\ i - c \in DOMAIN buffers[b]
                    /\ texts[i] = buffers[b][i - c]

LEMMA TextsSent ==
    ASSUME TypeOK, FramesInv, TextsInv, request \in 1..MaxRuns,
           NEW texts \in Seq(Text), Send(texts),
           NEW c \in Nat, NEW b0, Sendable(texts, c, b0),
           UNCHANGED <<request, prints>>,
           Live' \subseteq Live, Buffer' = Buffer,
           \A b \in Buffer : KeptOrEmptied(b),
           b0 \in Live' => buffers'[b0] = <<>>
    PROVE  TextsInv'
  <1> DEFINE n == Len(sent)
             text(i) == texts[i - n]
  <1>1. /\ n \in Nat /\ DOMAIN sent = 1..n /\ prints \in Nat
        /\ \A i \in 1..n : sent[i] \in (1..MaxRuns) \X Text
    BY Typed DEF TypeOK
  <1>2. /\ \A i \in 1..n : sent'[i] = sent[i]
        /\ \A i \in DOMAIN sent' : i \notin DOMAIN sent =>
              i - n \in DOMAIN texts /\ sent'[i] = <<request, text(i)>>
    BY SentAfter DEF TypeOK
  <1>3. \A i \in DOMAIN sent' : i \in Nat
    BY SentAfter, LenProperties DEF TypeOK
  <1>4. \A i \in DOMAIN texts : i \in Nat
    BY LenProperties
  <1>5. \A i \in DOMAIN sent' : i \notin DOMAIN sent =>
           /\ text(i).from = request
           /\ text(i).trace = NULL =>
                 /\ i - n > c /\ b0 \in Live /\ i - n - c \in DOMAIN buffers[b0]
                 /\ text(i) = buffers[b0][i - n - c]
           /\ text(i).trace # NULL =>
                 text(i).n = 0 \/
                 /\ b0 \in Live /\ i - n - c \in DOMAIN buffers[b0]
                 /\ text(i) = buffers[b0][i - n - c]
    <2> SUFFICES ASSUME NEW i \in DOMAIN sent', i \notin DOMAIN sent
                 PROVE  /\ text(i).from = request
                        /\ text(i).trace = NULL =>
                              /\ i - n > c /\ b0 \in Live
                              /\ i - n - c \in DOMAIN buffers[b0]
                              /\ text(i) = buffers[b0][i - n - c]
                        /\ text(i).trace # NULL =>
                              text(i).n = 0 \/
                              /\ b0 \in Live /\ i - n - c \in DOMAIN buffers[b0]
                              /\ text(i) = buffers[b0][i - n - c]
      OBVIOUS
    <2>1. i - n \in DOMAIN texts /\ i - n \in Nat
      BY <1>2, <1>4
    <2> DEFINE d == i - n
    <2>2. d \in DOMAIN texts /\ d \in Nat /\ (d <= c \/ d > c)
      BY <2>1
    <2> HIDE DEF d
    <2>3. /\ texts[d].from = request
          /\ d <= c => texts[d].trace # NULL /\ texts[d].n = 0
          /\ d > c => /\ b0 \in Live /\ d - c \in DOMAIN buffers[b0]
                      /\ texts[d] = buffers[b0][d - c]
      BY <2>2 DEF Sendable
    <2>4. /\ texts[d].from = request
          /\ texts[d].trace = NULL =>
                /\ d > c /\ b0 \in Live /\ d - c \in DOMAIN buffers[b0]
                /\ texts[d] = buffers[b0][d - c]
          /\ texts[d].trace # NULL =>
                texts[d].n = 0 \/
                /\ b0 \in Live /\ d - c \in DOMAIN buffers[b0]
                /\ texts[d] = buffers[b0][d - c]
      BY <2>2, <2>3
    <2> QED BY <2>4 DEF d
  <1> HIDE DEF n, text
  <1>6. Live \subseteq Buffer
    BY LiveAt
  <1>7. \A b \in Live' : \A k \in DOMAIN buffers'[b] :
           b \in Live /\ buffers'[b] = buffers[b] /\ b # b0
    BY <1>6, EmptySeq DEF KeptOrEmptied
  <1>8. PrintedTexts'
    <2>1. \A b \in Buffer' : \A k \in DOMAIN buffers'[b] :
             buffers'[b][k].trace = NULL /\ buffers'[b][k].n <= prints
      BY EmptySeq DEF KeptOrEmptied, TextsInv, PrintedTexts
    <2>2. \A i \in DOMAIN sent' : sent'[i][2].n <= prints
      <3> SUFFICES ASSUME NEW i \in DOMAIN sent' PROVE sent'[i][2].n <= prints
        OBVIOUS
      <3>1. CASE i \in DOMAIN sent
        BY <1>1, <1>2, <3>1 DEF TextsInv, PrintedTexts
      <3>2. CASE i \notin DOMAIN sent
        <4>1. sent'[i][2] = text(i)
          BY <1>2, <3>2
        <4>2. text(i).n = 0 \/ text(i).n <= prints
          BY <1>5, <1>6, <3>2 DEF TextsInv, PrintedTexts
        <4> QED BY <1>1, <4>1, <4>2
      <3> QED BY <3>1, <3>2
    <2> QED BY <2>1, <2>2 DEF PrintedTexts
  <1>9. Unsent'
    <2> SUFFICES ASSUME NEW b \in Live', NEW k \in DOMAIN buffers'[b]
                 PROVE  /\ buffers'[b][k].from = request
                        /\ \A i \in DOMAIN sent' : sent'[i][2] # buffers'[b][k]
      BY DEF Unsent
    <2>1. b \in Live /\ buffers'[b] = buffers[b] /\ b # b0 /\ b \in Buffer
      BY <1>6, <1>7
    <2>2. ASSUME NEW i \in DOMAIN sent' PROVE sent'[i][2] # buffers[b][k]
      <3>1. CASE i \in DOMAIN sent
        BY <1>1, <1>2, <2>1, <3>1 DEF TextsInv, Unsent
      <3>2. CASE i \notin DOMAIN sent
        <4>1. sent'[i][2] = text(i)
          BY <1>2, <3>2
        <4>2. buffers[b][k].trace = NULL
          BY <2>1 DEF TextsInv, PrintedTexts
        <4>3. text(i).trace = NULL =>
                 /\ b0 \in Live /\ i - n - c \in DOMAIN buffers[b0]
                 /\ text(i) = buffers[b0][i - n - c]
          BY <1>5, <3>2
        <4> QED BY <2>1, <4>1, <4>2, <4>3 DEF TextsInv, Unrepeated
      <3> QED BY <3>1, <3>2
    <2> QED BY <2>1, <2>2 DEF TextsInv, Unsent
  <1>10. Unrepeated'
    BY <1>7 DEF TextsInv, Unrepeated
  <1>11. SentOnce'
    <2> SUFFICES ASSUME NEW i \in DOMAIN sent', NEW j \in DOMAIN sent',
                        sent'[i] = sent'[j], sent'[i][2].trace = NULL
                 PROVE  i = j
      BY DEF SentOnce
    <2>1. \A k \in DOMAIN sent' : k \notin DOMAIN sent /\ sent'[k][2].trace = NULL =>
             /\ sent'[k][2] = buffers[b0][k - n - c]
             /\ b0 \in Live /\ k - n - c \in DOMAIN buffers[b0]
      <3> SUFFICES ASSUME NEW k \in DOMAIN sent', k \notin DOMAIN sent,
                          sent'[k][2].trace = NULL
                   PROVE  /\ sent'[k][2] = buffers[b0][k - n - c]
                          /\ b0 \in Live /\ k - n - c \in DOMAIN buffers[b0]
        OBVIOUS
      <3>1. sent'[k][2] = text(k)
        BY <1>2
      <3> QED BY <1>5, <3>1
    <2>2. CASE i \in DOMAIN sent /\ j \in DOMAIN sent
      BY <1>1, <1>2, <2>2 DEF TextsInv, SentOnce
    <2>3. CASE i \in DOMAIN sent /\ j \notin DOMAIN sent
      <3>1. sent'[j][2] = buffers[b0][j - n - c]
            /\ b0 \in Live /\ j - n - c \in DOMAIN buffers[b0]
        BY <2>1, <2>3
      <3>2. sent[i] = sent'[i]
        BY <1>1, <1>2, <2>3
      <3> QED BY <2>3, <3>1, <3>2 DEF TextsInv, Unsent
    <2>4. CASE i \notin DOMAIN sent /\ j \in DOMAIN sent
      <3>1. sent'[i][2] = buffers[b0][i - n - c]
            /\ b0 \in Live /\ i - n - c \in DOMAIN buffers[b0]
        BY <2>1, <2>4
      <3>2. sent[j] = sent'[j]
        BY <1>1, <1>2, <2>4
      <3> QED BY <2>4, <3>1, <3>2 DEF TextsInv, Unsent
    <2>5. CASE i \notin DOMAIN sent /\ j \notin DOMAIN sent
      <3>1. i - n - c = j - n - c
        BY <2>1, <2>5 DEF TextsInv, Unrepeated
      <3> QED BY <1>1, <1>3, <3>1
    <2> QED BY <2>2, <2>3, <2>4, <2>5
  <1>12. SentToItsRequest'
    <2> SUFFICES ASSUME NEW i \in DOMAIN sent'
                 PROVE  sent'[i][2].from = sent'[i][1]
      BY DEF SentToItsRequest
    <2>1. CASE i \in DOMAIN sent
      BY <1>1, <1>2, <2>1 DEF TextsInv, SentToItsRequest
    <2>2. CASE i \notin DOMAIN sent
      BY <1>2, <1>5, <2>2
    <2> QED BY <2>1, <2>2
  <1> QED BY <1>8, <1>9, <1>10, <1>11, <1>12 DEF TextsInv

---------------------------------------------------------------------------
(* The steps.                                                              *)

LEMMA Serving ==
    ASSUME OutputInv, stack # <<>>
    PROVE  /\ request \in 1..MaxRuns
           /\ FrameOK(Top, Len(buffers))
           /\ Inside(stdout, Len(stack) - 1, stack)
           /\ Inside(Top.previous, Len(stack) - 1, stack)
           /\ Inside(Top.real, Len(stack), stack)
           /\ Inside(Top.real, Len(stack) - 1, stack)
           /\ \A e \in Exception : TraceOf(e) \in Text
  <1>1. Len(stack) \in DOMAIN stack /\ Top = stack[Len(stack)] /\ Len(stack) \in Nat
    BY Typed DEF OutputInv
  <1>2. request \in 1..MaxRuns
    BY <1>1, BoundsAreNats DEF OutputInv, TypeOK, FramesInv
  <1>3. FrameOK(Top, Len(buffers))
    BY <1>1 DEF OutputInv, FramesInv
  <1>4. /\ Inside(stdout, Len(stack), stack)
        /\ Inside(Top.previous, Len(stack) - 1, stack)
        /\ Inside(Top.real, Len(stack), stack)
    BY <1>1 DEF OutputInv, StdoutInside
  <1>5. Inside(stdout, Len(stack) - 1, stack)
    BY <1>1, <1>4 DEF Inside
  <1>6. Inside(Top.real, Len(stack) - 1, stack)
    BY <1>1, <1>4 DEF Inside
  <1>7. \A e \in Exception : TraceOf(e) \in Text
    BY <1>2, BoundsAreNats DEF TraceOf, Text
  <1> QED BY <1>2, <1>3, <1>4, <1>5, <1>6, <1>7

LEMMA RunEnds ==
    ASSUME OutputInv, stack # <<>>, UNCHANGED buffers,
           NEW left \in Buffer, Inside(left, Len(stack) - 1, stack),
           NEW disturbs \in BOOLEAN, EndRun(left, disturbs),
           NEW texts \in Seq(Text), Send(texts),
           NEW c \in Nat, Sendable(texts, c, Top.out)
    PROVE  OutputInv'
  <1>1. request \in 1..MaxRuns
    BY Serving
  <1>2. /\ stack' \in Seq(Frame) /\ stdout' \in Buffer'
        /\ FramesInv' /\ Apart' /\ StdoutInside'
        /\ Live' \subseteq Live /\ Top.out \notin Live'
    BY EndedInv DEF OutputInv, Apartness
  <1>3. sent' \in Seq((1..MaxRuns) \X Text)
    BY <1>1, SentAfter DEF OutputInv, TypeOK
  <1>4. UNCHANGED <<request, prints, runs>>
    BY DEF EndRun
  <1>5. TypeOK'
    BY <1>2, <1>3, <1>4 DEF OutputInv, TypeOK
  <1>6. TextsInv'
    <2>1. Buffer' = Buffer /\ \A b \in Buffer : KeptOrEmptied(b)
      BY DEF Buffer, KeptOrEmptied
    <2> QED BY <1>1, <1>2, <1>4, <2>1, TextsSent DEF OutputInv
  <1> QED BY <1>2, <1>5, <1>6 DEF OutputInv

LEMMA SetupFailsInv ==
    ASSUME OutputInv, SetupFails
    PROVE  OutputInv'
  <1>1. stack # <<>>
    BY DEF SetupFails, Setup
  <1> DEFINE t == TraceOf("error")
             texts == <<t, t>>
  <1>2. t \in Text /\ t.from = request /\ t.trace # NULL /\ t.n = 0
    BY <1>1, Serving, NullIsNothing DEF Exception, TraceOf
  <1> HIDE DEF t
  <1>3. texts \in Seq(Text) /\ DOMAIN texts = 1..2
        /\ texts[1] = t /\ texts[2] = t
    BY <1>2
  <1> HIDE DEF texts
  <1>4. Sendable(texts, 2, Top.out)
    BY <1>2, <1>3 DEF Sendable
  <1>5. stdout \in Buffer /\ Inside(stdout, Len(stack) - 1, stack)
    BY <1>1, Serving DEF OutputInv, TypeOK
  <1>6. UNCHANGED buffers /\ EndRun(stdout, FALSE) /\ Send(texts)
    BY DEF SetupFails, t, texts
  <1> QED BY <1>1, <1>3, <1>4, <1>5, <1>6, RunEnds

LEMMA ScriptReturnsInv ==
    ASSUME OutputInv, ScriptReturns
    PROVE  OutputInv'
  <1>1. stack # <<>> /\ Top.kind = "script" /\ Top.step = "running"
    BY DEF ScriptReturns, Running
  <1> DEFINE texts == buffers[Top.out]
  <1>2. Top.out \in Live /\ Top.out \in Buffer
    <2>1. Top = stack[Len(stack)] /\ Len(stack) \in 1..Len(stack)
      BY <1>1, Typed DEF OutputInv
    <2>2. Top.out \in Owned(Top)
      BY <1>1, Serving DEF FrameOK, Owned
    <2> QED BY <2>1, <2>2, LiveAt DEF OutputInv
  <1>3. texts \in Seq(Text) /\ \A i \in DOMAIN texts : i \in Nat /\ i >= 1
    <2>1. texts \in Seq(Text)
      BY <1>2, Typed DEF OutputInv
    <2> QED BY <2>1, LenProperties
  <1>4. \A i \in DOMAIN texts : texts[i].from = request
    BY <1>2 DEF OutputInv, TextsInv, Unsent
  <1>5. Sendable(texts, 0, Top.out)
    <2>1. \A i \in DOMAIN texts : i - 0 = i /\ i > 0 /\ ~ (i <= 0)
      BY <1>3
    <2> QED BY <1>2, <1>4, <2>1 DEF Sendable
  <1> HIDE DEF texts
  <1>6. stdout \in Buffer /\ Inside(stdout, Len(stack) - 1, stack)
    BY <1>1, Serving DEF OutputInv, TypeOK
  <1>7. UNCHANGED buffers /\ EndRun(stdout, TRUE) /\ Send(texts)
    BY DEF ScriptReturns, texts
  <1> QED BY <1>1, <1>3, <1>5, <1>6, <1>7, RunEnds

LEMMA ScriptRaisesInv ==
    ASSUME OutputInv, NEW exception \in Exception, ScriptRaises(exception)
    PROVE  OutputInv'
  <1>1. stack # <<>> /\ Top.kind = "script" /\ Top.step = "running"
    BY DEF ScriptRaises, Running
  <1> DEFINE t == TraceOf(exception)
             out == buffers[Top.out]
             texts == <<t>> \o out
  <1>2. t \in Text /\ t.from = request /\ t.trace # NULL /\ t.n = 0
    BY <1>1, Serving, NullIsNothing DEF TraceOf
  <1>3. Top.out \in Live /\ Top.out \in Buffer
    <2>1. Top = stack[Len(stack)] /\ Len(stack) \in 1..Len(stack)
      BY <1>1, Typed DEF OutputInv
    <2>2. Top.out \in Owned(Top)
      BY <1>1, Serving DEF FrameOK, Owned
    <2> QED BY <2>1, <2>2, LiveAt DEF OutputInv
  <1>4. \A i \in DOMAIN out : out[i].from = request
    BY <1>3 DEF OutputInv, TextsInv, Unsent
  <1> HIDE DEF t
  <1>5. out \in Seq(Text) /\ Len(out) \in Nat /\ DOMAIN out = 1..Len(out)
    <2>1. out \in Seq(Text)
      BY <1>3, Typed DEF OutputInv
    <2> QED BY <2>1, LenProperties
  <1> HIDE DEF out
  <1>6. <<t>> \in Seq(Text) /\ Len(<<t>>) = 1 /\ <<t>>[1] = t
    BY <1>2
  <1>7. /\ texts \in Seq(Text) /\ Len(texts) = 1 + Len(out)
        /\ texts[1] = t
        /\ \A i \in 2..1 + Len(out) : texts[i] = out[i - 1]
    BY <1>5, <1>6, ConcatProperties
  <1> HIDE DEF texts
  <1>8. DOMAIN texts = 1..1 + Len(out)
    BY <1>7, LenProperties
  <1>9. Sendable(texts, 1, Top.out)
    <2> SUFFICES ASSUME NEW i \in 1..1 + Len(out)
                 PROVE  /\ texts[i].from = request
                        /\ i <= 1 => texts[i].trace # NULL /\ texts[i].n = 0
                        /\ i > 1 => /\ Top.out \in Live
                                    /\ i - 1 \in DOMAIN buffers[Top.out]
                                    /\ texts[i] = buffers[Top.out][i - 1]
      BY <1>8 DEF Sendable
    <2>1. CASE i = 1
      BY <1>2, <1>7, <2>1
    <2>2. CASE i # 1
      <3>1. i \in 2..1 + Len(out) /\ i - 1 \in DOMAIN out /\ i > 1 /\ ~ (i <= 1)
        BY <1>5, <2>2
      <3>2. texts[i] = out[i - 1]
        BY <1>7, <3>1
      <3> QED BY <1>3, <1>4, <3>1, <3>2 DEF out
    <2> QED BY <2>1, <2>2
  <1>10. Top.previous \in Buffer /\ Inside(Top.previous, Len(stack) - 1, stack)
    BY <1>1, Serving DEF FrameOK, Buffer
  <1>11. UNCHANGED buffers /\ EndRun(Top.previous, FALSE) /\ Send(texts)
    BY DEF ScriptRaises, texts, t, out
  <1> QED BY <1>1, <1>7, <1>9, <1>10, <1>11, RunEnds

LEMMA HandlerReturnsInv ==
    ASSUME OutputInv, HandlerReturns
    PROVE  OutputInv'
  <1>1. stack # <<>>
    BY DEF HandlerReturns, Running
  <1>2. stdout \in Buffer /\ Inside(stdout, Len(stack) - 1, stack)
    BY <1>1, Serving DEF OutputInv, TypeOK
  <1>3. UNCHANGED <<buffers, sent>> /\ EndRun(stdout, Disturbs)
    BY DEF HandlerReturns
  <1>4. Disturbs \in BOOLEAN
    BY <1>1, Typed DEF OutputInv, Disturbs, Frame
  <1>5. /\ stack' \in Seq(Frame) /\ stdout' \in Buffer'
        /\ FramesInv' /\ Apart' /\ StdoutInside' /\ Live' \subseteq Live
    BY <1>1, <1>2, <1>3, <1>4, EndedInv DEF OutputInv, Apartness
  <1>6. UNCHANGED <<request, prints, runs>>
    BY <1>3 DEF EndRun
  <1>7. TypeOK'
    BY <1>3, <1>5, <1>6 DEF OutputInv, TypeOK
  <1>8. TextsInv'
    <2>1. \A b \in Buffer' : KeptOrEmptied(b)
      BY <1>3 DEF Buffer, KeptOrEmptied
    <2>2. Live' \subseteq Buffer'
      BY <1>3, <1>5, LiveAt DEF OutputInv, Buffer
    <2> QED BY <1>3, <1>5, <1>6, <2>1, <2>2, TextsKept DEF OutputInv
  <1> QED BY <1>5, <1>7, <1>8 DEF OutputInv

LEMMA HandlerRaisesInv ==
    ASSUME OutputInv, NEW exception \in Exception, HandlerRaises(exception)
    PROVE  OutputInv'
  <1>1. stack # <<>>
    BY DEF HandlerRaises, Running
  <1> DEFINE t == TraceOf(exception)
             texts == IF exception = "termination" THEN <<>> ELSE <<t>>
  <1>2. t \in Text /\ t.from = request /\ t.trace # NULL /\ t.n = 0
    BY <1>1, Serving, NullIsNothing DEF TraceOf
  <1> HIDE DEF t
  <1>3. texts \in Seq(Text) /\ \A i \in DOMAIN texts : i = 1 /\ texts[i] = t
    <2>1. <<>> \in Seq(Text) /\ DOMAIN <<>> = {}
      BY EmptySeq
    <2>2. <<t>> \in Seq(Text) /\ DOMAIN <<t>> = {1} /\ <<t>>[1] = t
      BY <1>2
    <2>3. CASE exception = "termination"
      BY <2>1, <2>3
    <2>4. CASE exception # "termination"
      BY <2>2, <2>4
    <2> QED BY <2>3, <2>4
  <1> HIDE DEF texts
  <1>4. Sendable(texts, 1, Top.out)
    BY <1>2, <1>3 DEF Sendable
  <1>5. stdout \in Buffer /\ Inside(stdout, Len(stack) - 1, stack)
    BY <1>1, Serving DEF OutputInv, TypeOK
  <1>6. Disturbs \in BOOLEAN
    BY <1>1, Typed DEF OutputInv, Disturbs, Frame
  <1>7. UNCHANGED buffers /\ EndRun(stdout, Disturbs) /\ Send(texts)
    BY DEF HandlerRaises, t, texts
  <1> QED BY <1>1, <1>3, <1>4, <1>5, <1>6, <1>7, RunEnds

(* The buffers after one is made, or one is emptied.                       *)
LEMMA BufferMade ==
    ASSUME TypeOK, buffers' = Append(buffers, <<>>)
    PROVE  /\ buffers' \in Seq(Seq(Text)) /\ Len(buffers') = Len(buffers) + 1
           /\ \A b \in Buffer' : KeptOrEmptied(b)
           /\ \A b \in Buffer' : b \in Buffer \/ buffers'[b] = <<>>
  <1>1. <<>> \in Seq(Text) /\ buffers \in Seq(Seq(Text)) /\ Len(buffers) \in Nat
    BY EmptySeq, Typed DEF TypeOK
  <1>2. /\ buffers' \in Seq(Seq(Text)) /\ Len(buffers') = Len(buffers) + 1
        /\ \A b \in 1..Len(buffers) : buffers'[b] = buffers[b]
        /\ buffers'[Len(buffers) + 1] = <<>>
    BY <1>1, AppendProperties
  <1> QED BY <1>1, <1>2 DEF Buffer, KeptOrEmptied

LEMMA BufferEmptied ==
    ASSUME TypeOK, NEW b \in Buffer, buffers' = [buffers EXCEPT ![b] = <<>>]
    PROVE  /\ buffers' \in Seq(Seq(Text)) /\ Len(buffers') = Len(buffers)
           /\ Buffer' = Buffer /\ buffers'[b] = <<>>
           /\ \A c \in Buffer : KeptOrEmptied(c)
  <1>1. /\ <<>> \in Seq(Text) /\ buffers \in Seq(Seq(Text))
        /\ b \in 1..Len(buffers) /\ DOMAIN buffers = 1..Len(buffers)
    BY EmptySeq, Typed DEF TypeOK, Buffer
  <1>2. /\ buffers' \in Seq(Seq(Text)) /\ Len(buffers') = Len(buffers)
        /\ \A c \in 1..Len(buffers) :
              buffers'[c] = IF c = b THEN <<>> ELSE buffers[c]
    BY <1>1, ExceptSeq
  <1> QED BY <1>1, <1>2 DEF Buffer, KeptOrEmptied

(* What a run made, or makes, belongs to no run it is nested in.           *)
LEMMA InnerBuffer ==
    ASSUME OutputInv, stack # <<>>, NEW b,
           b = NULL \/ b \in Owned(Top) \/ (b \in Nat /\ b > Len(buffers))
    PROVE  /\ \A k \in 1..Len(stack) - 1 : b \notin Owned(stack[k])
           /\ Inside(b, Len(stack) - 1, stack)
  <1> DEFINE n == Len(stack)
  <1>1. /\ n \in Nat /\ n \in DOMAIN stack /\ Top = stack[n] /\ DOMAIN stack = 1..n
        /\ Len(buffers) \in Nat
    BY Typed DEF OutputInv
  <1>0. n = Len(stack)
    OBVIOUS
  <1> HIDE DEF n
  <1>2. ASSUME NEW k \in 1..n - 1 PROVE b \notin Owned(stack[k])
    <2>1. k \in DOMAIN stack /\ k # n
      BY <1>1
    <2>2. Owned(stack[k]) \subseteq 2..Len(buffers)
      BY <2>1 DEF OutputInv, FramesInv, FrameOK
    <2>3. Owned(stack[k]) \intersect Owned(stack[n]) = {}
      BY <1>1, <2>1 DEF OutputInv, Apart
    <2>4. NULL \notin Owned(stack[k])
      BY DEF Owned
    <2> QED BY <1>1, <2>2, <2>3, <2>4
  <1>3. Inside(b, n - 1, stack)
    BY <1>1, <1>2 DEF Inside
  <1> QED BY <1>0, <1>2, <1>3

LEMMA InnerStdout ==
    ASSUME OutputInv, stack # <<>>, NEW b \in {stdout, Top.real}
    PROVE  /\ Inside(b, Len(stack) - 1, stack)
           /\ IsScript(Top) => \A k \in 1..Len(stack) - 1 : b \notin Owned(stack[k])
  <1>1. /\ Len(stack) \in Nat /\ Top = stack[Len(stack)]
        /\ Len(stack) \in 1..Len(stack)
    BY Typed DEF OutputInv
  <1>2. Inside(b, Len(stack), stack)
    <2>1. Inside(stdout, Len(stack), stack)
      BY DEF OutputInv, StdoutInside
    <2> QED BY <2>1, Serving
  <1>3. IsScript(Top) => \A k \in 1..Len(stack) - 1 : b \notin Owned(stack[k])
    BY <1>1, <1>2 DEF Inside
  <1> QED BY <1>3, Serving

(* The innermost run goes on as f.                                         *)
LEMMA RunGoesOn ==
    ASSUME OutputInv, stack # <<>>, UNCHANGED <<request, runs>>,
           prints' \in 0..MaxPrints, sent' \in Seq((1..MaxRuns) \X Text),
           NEW f \in Frame, Replace(f),
           buffers' \in Seq(Seq(Text)), Len(buffers) <= Len(buffers'),
           stdout' \in Buffer',
           FrameOK(f, Len(buffers')), f.step = "running",
           \A b \in Owned(f) : b \in Owned(Top) \/ b > Len(buffers),
           \A b \in {stdout', f.real} :
               /\ Inside(b, Len(stack) - 1, stack)
               /\ IsScript(f) => \A k \in 1..Len(stack) - 1 : b \notin Owned(stack[k]),
           Inside(f.previous, Len(stack) - 1, stack)
    PROVE  /\ TypeOK' /\ FramesInv' /\ Apart' /\ StdoutInside'
           /\ Live' \subseteq Buffer'
           /\ \A b \in Live' : b \in Live \/ b > Len(buffers)
  <1>1. request >= 1 /\ request \in 1..MaxRuns
    BY Serving
  <1>2. /\ stack' \in Seq(Frame)
        /\ FramesInv' /\ Apart' /\ StdoutInside'
        /\ \A b \in Live' : b \in Live \/ b > Len(buffers)
    BY <1>1, ReplacedInv DEF OutputInv, Apartness
  <1>3. TypeOK'
    BY <1>2 DEF OutputInv, TypeOK
  <1>4. Live' \subseteq Buffer'
    <2>1. \A k \in DOMAIN stack' : Owned(stack'[k]) \subseteq 2..Len(buffers')
      BY <1>2 DEF FramesInv, FrameOK
    <2> QED BY <2>1, <1>3, LenProperties DEF Live, Buffer
  <1> QED BY <1>2, <1>3, <1>4

LEMMA SetupRunnerInv ==
    ASSUME OutputInv, SetupRunner
    PROVE  OutputInv'
  <1> DEFINE new == Len(buffers')
             f == [Top EXCEPT !.step = "running", !.out = new, !.previous = stdout]
  <1>1. /\ stack # <<>> /\ Top.step = "setup" /\ buffers' = Append(buffers, <<>>)
        /\ stdout' = new /\ Replace(f) /\ UNCHANGED <<sent, runs, request, prints>>
    BY DEF SetupRunner, Setup
  <1>2. /\ buffers' \in Seq(Seq(Text)) /\ new = Len(buffers) + 1
        /\ \A b \in Buffer' : KeptOrEmptied(b)
        /\ \A b \in Buffer' : b \in Buffer \/ buffers'[b] = <<>>
        /\ Len(buffers) \in Nat /\ stdout \in 1..Len(buffers) /\ Len(buffers) >= 1
    BY <1>1, BufferMade, Typed DEF OutputInv, TypeOK, Buffer
  <1>3. Top \in Frame
    BY <1>1, Typed DEF OutputInv
  <1>4. /\ Top.kind = "script" /\ Top.response = NULL /\ Top.real = NULL
        /\ ~ Top.diverted
    BY <1>1, Serving DEF FrameOK
  <1>5. new \in Nat /\ new # NULL /\ new > Len(buffers)
        /\ stdout \in Nat /\ stdout # NULL
    BY <1>2, NullIsNothing
  <1> HIDE DEF new
  <1>6. f \in Frame
    BY <1>3, <1>5 DEF Frame
  <1>7. /\ f.step = "running" /\ f.out = new /\ f.previous = stdout
        /\ f.kind = "script" /\ f.response = NULL /\ f.real = NULL
        /\ ~ f.diverted
    BY <1>3, <1>4 DEF Frame
  <1>8. Replace(f)
    BY <1>1
  <1> HIDE DEF f
  <1>9. Owned(f) = {new}
    BY <1>5, <1>7 DEF Owned
  <1>10. FrameOK(f, Len(buffers'))
    BY <1>2, <1>4, <1>5, <1>7, <1>9 DEF FrameOK, new
  <1>11. /\ \A k \in 1..Len(stack) - 1 : stdout' \notin Owned(stack[k])
         /\ Inside(stdout', Len(stack) - 1, stack)
    BY <1>1, <1>5, InnerBuffer
  <1>12. /\ \A k \in 1..Len(stack) - 1 : f.real \notin Owned(stack[k])
         /\ Inside(f.real, Len(stack) - 1, stack)
    BY <1>1, <1>7, InnerBuffer
  <1>13. Inside(f.previous, Len(stack) - 1, stack)
    BY <1>1, <1>7, Serving
  <1>14. /\ prints' \in 0..MaxPrints /\ sent' \in Seq((1..MaxRuns) \X Text)
         /\ stdout' \in Buffer'
    BY <1>1, <1>2, <1>5 DEF OutputInv, TypeOK, Buffer, new
  <1>15. /\ TypeOK' /\ FramesInv' /\ Apart' /\ StdoutInside'
         /\ Live' \subseteq Buffer'
         /\ \A b \in Live' : b \in Live \/ b > Len(buffers)
    <2>1. UNCHANGED <<request, runs>> /\ Len(buffers) <= Len(buffers')
      BY <1>1, <1>2 DEF new
    <2>2. \A b \in Owned(f) : b \in Owned(Top) \/ b > Len(buffers)
      BY <1>2, <1>9
    <2> QED BY <1>1, <1>2, <1>6, <1>7, <1>8, <1>10, <1>11, <1>12, <1>13, <1>14,
               <2>1, <2>2, RunGoesOn
  <1>16. TextsInv'
    <2>1. \A b \in Live' : b \in Live \/ buffers'[b] = <<>>
      BY <1>2, <1>15 DEF Buffer
    <2> QED BY <1>1, <1>2, <1>15, <2>1, TextsKept DEF OutputInv
  <1> QED BY <1>15, <1>16 DEF OutputInv

(* The two parts of StartResponse: how the run's frame and the rest end.   *)
Started(f, out) ==
    [f EXCEPT !.response = out, !.real = stdout, !.diverted = TRUE,
              !.disturbed = @ \/ f.diverted]
StartsWith(out) ==
    /\ Running
    /\ buffers' = IF out \in Buffer THEN buffers ELSE Append(buffers, <<>>)
    /\ stdout' = out
    /\ Replace(Started(Top, out))
    /\ UNCHANGED <<sent, runs, request, prints>>

LEMMA StartResponseInv ==
    ASSUME OutputInv, StartResponse
    PROVE  OutputInv'
  <1>0. PICK out \in {Top.response, Len(buffers) + 1} \ {NULL} :
           StartsWith(out)
    BY DEF StartResponse, StartsWith, Started
  <1> DEFINE f == Started(Top, out)
  <1>1. /\ stack # <<>> /\ Top.step = "running"
        /\ buffers' = IF out \in Buffer THEN buffers ELSE Append(buffers, <<>>)
        /\ stdout' = out /\ Replace(f) /\ UNCHANGED <<sent, runs, request, prints>>
    BY <1>0 DEF StartResponse, StartsWith, Started, Running
  <1>2. /\ Len(buffers) \in Nat /\ stdout \in 1..Len(buffers)
        /\ Top \in Frame /\ buffers \in Seq(Seq(Text))
    <2>1. Len(buffers) \in Nat /\ Top \in Frame
      BY <1>1, Typed DEF OutputInv
    <2> QED BY <2>1 DEF OutputInv, TypeOK, Buffer
  <1>3. FrameOK(Top, Len(buffers))
    BY <1>1, Serving
  <1>4. \/ /\ out = Top.response /\ Top.response # NULL
           /\ out \in Owned(Top) /\ out \in 2..Len(buffers)
        \/ out = Len(buffers) + 1
    BY <1>0, <1>3 DEF FrameOK, Owned
  <1>5. /\ buffers' \in Seq(Seq(Text)) /\ Len(buffers) <= Len(buffers')
        /\ Len(buffers') \in Nat /\ out \in 2..Len(buffers')
        /\ \A b \in Buffer' : KeptOrEmptied(b)
        /\ \A b \in Buffer' : b \in Buffer \/ buffers'[b] = <<>>
    <2>1. CASE out \in 2..Len(buffers)
      BY <1>1, <1>2, <1>4, <2>1 DEF Buffer, KeptOrEmptied
    <2>2. CASE out = Len(buffers) + 1
      <3>1. out = Len(buffers) + 1 /\ out \notin Buffer /\ Len(buffers) >= 1
        BY <1>2, <1>4, <2>2 DEF Buffer
      <3>2. buffers' = Append(buffers, <<>>)
        BY <1>1, <3>1
      <3>3. /\ buffers' \in Seq(Seq(Text)) /\ Len(buffers') = Len(buffers) + 1
            /\ \A b \in Buffer' : KeptOrEmptied(b)
            /\ \A b \in Buffer' : b \in Buffer \/ buffers'[b] = <<>>
        BY <3>2, BufferMade DEF OutputInv
      <3> QED BY <1>2, <3>1, <3>3
    <2> QED BY <1>4, <2>1, <2>2
  <1>6. out \in Nat /\ out # NULL /\ stdout \in Nat /\ stdout # NULL
    BY <1>2, <1>5, NullIsNothing
  <1>7. /\ out = NULL \/ out \in Owned(Top) \/ (out \in Nat /\ out > Len(buffers))
        /\ out \in Owned(Top) \/ out > Len(buffers)
        /\ Top.out # out
    <2>1. Top.out # NULL => Top.out \in 2..Len(buffers)
      BY <1>3 DEF FrameOK, Owned
    <2>2. Top.out # NULL => Top.out # Top.response
      BY <1>3 DEF FrameOK
    <2> QED BY <1>2, <1>4, <1>6, <2>1, <2>2
  <1>8. f \in Frame
    BY <1>2, <1>6 DEF Frame, Started
  <1>9. /\ f.step = "running" /\ f.kind = Top.kind /\ f.out = Top.out
        /\ f.previous = Top.previous /\ f.response = out /\ f.real = stdout
    BY <1>1, <1>2 DEF Frame, Started
  <1>10. Replace(f)
    BY <1>1
  <1> HIDE DEF f
  <1>11. /\ \A b \in Owned(f) : b \in Owned(Top) \/ b > Len(buffers)
         /\ Owned(f) \subseteq 2..Len(buffers')
    <2>1. \A b \in Owned(f) : b \in Owned(Top) \/ b = out
      BY <1>9 DEF Owned
    <2>2. Owned(Top) \subseteq 2..Len(buffers)
      BY <1>3 DEF FrameOK
    <2> QED BY <1>2, <1>5, <1>7, <2>1, <2>2
  <1>12. FrameOK(f, Len(buffers'))
    <2>1. Top.previous \in 1..Len(buffers') \union {NULL}
      BY <1>2, <1>3, <1>5 DEF FrameOK
    <2>2. stdout \in 1..Len(buffers')
      BY <1>2, <1>5
    <2>3. /\ Top.kind = "handler" => Top.out = NULL
          /\ Top.kind = "script" => Top.out # NULL /\ Top.previous # NULL
      BY <1>1, <1>3 DEF FrameOK
    <2>4. /\ f.kind = "handler" => f.out = NULL
          /\ f.kind = "script" => f.out # NULL /\ f.previous # NULL
          /\ f.out # NULL => f.out # f.response
          /\ f.real # NULL /\ f.response # NULL
      BY <1>6, <1>7, <1>9, <2>3
    <2>5. {f.previous, f.real} \subseteq 1..Len(buffers') \union {NULL}
      BY <1>9, <2>1, <2>2
    <2>6. f.step # "setup"
      BY <1>9
    <2> HIDE DEF f
    <2> QED BY <1>11, <2>4, <2>5, <2>6 DEF FrameOK
  <1>13. /\ \A k \in 1..Len(stack) - 1 : out \notin Owned(stack[k])
         /\ Inside(out, Len(stack) - 1, stack)
    BY <1>1, <1>7, InnerBuffer
  <1>14. /\ Inside(stdout, Len(stack) - 1, stack)
         /\ IsScript(f) => \A k \in 1..Len(stack) - 1 : stdout \notin Owned(stack[k])
    <2>1. IsScript(f) = IsScript(Top)
      BY <1>1, <1>9 DEF IsScript
    <2> QED BY <1>1, <2>1, InnerStdout
  <1>15. \A b \in {stdout', f.real} :
            /\ Inside(b, Len(stack) - 1, stack)
            /\ IsScript(f) => \A k \in 1..Len(stack) - 1 : b \notin Owned(stack[k])
    BY <1>1, <1>9, <1>13, <1>14
  <1>16. Inside(f.previous, Len(stack) - 1, stack)
    BY <1>1, <1>9, Serving
  <1>17. /\ prints' \in 0..MaxPrints /\ sent' \in Seq((1..MaxRuns) \X Text)
         /\ stdout' \in Buffer' /\ UNCHANGED <<request, runs>>
    BY <1>1, <1>5 DEF OutputInv, TypeOK, Buffer
  <1>18. /\ TypeOK' /\ FramesInv' /\ Apart' /\ StdoutInside'
         /\ Live' \subseteq Buffer'
         /\ \A b \in Live' : b \in Live \/ b > Len(buffers)
    BY <1>1, <1>5, <1>8, <1>9, <1>10, <1>11, <1>12, <1>15, <1>16, <1>17, RunGoesOn
  <1>19. TextsInv'
    <2>1. \A b \in Live' : b \in Live \/ buffers'[b] = <<>>
      BY <1>2, <1>5, <1>18 DEF Buffer
    <2> QED BY <1>1, <1>5, <1>18, <2>1, TextsKept DEF OutputInv
  <1> QED BY <1>18, <1>19 DEF OutputInv

(* What Flush does to the texts.                                           *)
LEMMA ResponseSent ==
    ASSUME OutputInv, stack # <<>>, Top.response # NULL, Flush,
           UNCHANGED <<request, prints>>, Live' \subseteq Live
    PROVE  /\ buffers' \in Seq(Seq(Text)) /\ Len(buffers') = Len(buffers)
           /\ Buffer' = Buffer /\ sent' \in Seq((1..MaxRuns) \X Text)
           /\ TextsInv'
  <1> DEFINE b == Top.response
             texts == buffers[b]
  <1>1. b \in Live /\ b \in Buffer
    <2>1. Top = stack[Len(stack)] /\ Len(stack) \in 1..Len(stack)
      BY Typed DEF OutputInv
    <2>2. b \in Owned(Top)
      BY DEF Owned
    <2> QED BY <2>1, <2>2, LiveAt DEF OutputInv
  <1>2. Send(texts) /\ buffers' = [buffers EXCEPT ![b] = <<>>]
    BY DEF Flush
  <1>3. texts \in Seq(Text) /\ \A i \in DOMAIN texts : i \in Nat /\ i >= 1
    <2>1. texts \in Seq(Text)
      BY <1>1, Typed DEF OutputInv
    <2> QED BY <2>1, LenProperties
  <1>4. Sendable(texts, 0, b)
    <2>1. \A i \in DOMAIN texts : i - 0 = i /\ i > 0 /\ ~ (i <= 0)
      BY <1>3
    <2>2. \A i \in DOMAIN texts : texts[i].from = request
      BY <1>1 DEF OutputInv, TextsInv, Unsent
    <2> QED BY <1>1, <2>1, <2>2 DEF Sendable
  <1> HIDE DEF b
  <1>5. /\ buffers' \in Seq(Seq(Text)) /\ Len(buffers') = Len(buffers)
        /\ Buffer' = Buffer /\ buffers'[b] = <<>>
        /\ \A c \in Buffer : KeptOrEmptied(c)
    BY <1>1, <1>2, BufferEmptied DEF OutputInv
  <1> HIDE DEF texts
  <1>6. request \in 1..MaxRuns
    BY Serving
  <1>7. sent' \in Seq((1..MaxRuns) \X Text)
    BY <1>2, <1>3, <1>6, SentAfter DEF OutputInv, TypeOK
  <1>8. TextsInv'
    BY <1>2, <1>3, <1>4, <1>5, <1>6, TextsSent DEF OutputInv
  <1> QED BY <1>5, <1>7, <1>8

(* The runs and $stdout are as they were.                                  *)
LEMMA SameStack ==
    ASSUME OutputInv, UNCHANGED <<stack, stdout, request>>,
           Len(buffers') = Len(buffers)
    PROVE  FramesInv' /\ Apart' /\ StdoutInside' /\ Live' = Live
  BY DEF OutputInv, FramesInv, Apart, StdoutInside, Live

LEMMA FlushResponseInv ==
    ASSUME OutputInv, FlushResponse
    PROVE  OutputInv'
  <1>1. /\ stack # <<>> /\ Top.response # NULL /\ Flush
        /\ UNCHANGED <<stdout, stack, runs, request, prints>>
    BY DEF FlushResponse, Running
  <1>2. Live' = Live
    BY <1>1 DEF Live
  <1>3. /\ buffers' \in Seq(Seq(Text)) /\ Len(buffers') = Len(buffers)
        /\ Buffer' = Buffer /\ sent' \in Seq((1..MaxRuns) \X Text)
        /\ TextsInv'
    BY <1>1, <1>2, ResponseSent
  <1>4. FramesInv' /\ Apart' /\ StdoutInside'
    BY <1>1, <1>3, SameStack
  <1>5. TypeOK'
    BY <1>1, <1>3 DEF OutputInv, TypeOK
  <1> QED BY <1>3, <1>4, <1>5 DEF OutputInv

LEMMA ClearResponseInv ==
    ASSUME OutputInv, ClearResponse
    PROVE  OutputInv'
  <1>1. /\ stack # <<>> /\ Top.response # NULL
        /\ buffers' = [buffers EXCEPT ![Top.response] = <<>>]
        /\ UNCHANGED <<stdout, stack, sent, runs, request, prints>>
    BY DEF ClearResponse, Running
  <1>2. Top.response \in Buffer
    <2>1. Top = stack[Len(stack)] /\ Len(stack) \in 1..Len(stack)
      BY <1>1, Typed DEF OutputInv
    <2>2. Top.response \in Owned(Top)
      BY <1>1 DEF Owned
    <2> QED BY <2>1, <2>2, LiveAt DEF OutputInv
  <1>3. /\ buffers' \in Seq(Seq(Text)) /\ Len(buffers') = Len(buffers)
        /\ Buffer' = Buffer /\ \A c \in Buffer : KeptOrEmptied(c)
    BY <1>1, <1>2, BufferEmptied DEF OutputInv
  <1>4. FramesInv' /\ Apart' /\ StdoutInside' /\ Live' = Live
    BY <1>1, <1>3, SameStack
  <1>5. TypeOK'
    BY <1>1, <1>3 DEF OutputInv, TypeOK
  <1>6. TextsInv'
    <2>1. Live' \subseteq Buffer'
      BY <1>3, <1>4, LiveAt DEF OutputInv
    <2> QED BY <1>1, <1>3, <1>4, <2>1, TextsKept DEF OutputInv
  <1> QED BY <1>4, <1>5, <1>6 DEF OutputInv

LEMMA RestoreResponseInv ==
    ASSUME OutputInv, RestoreResponse
    PROVE  OutputInv'
  <1> DEFINE f == [Top EXCEPT !.diverted = FALSE]
  <1>1. /\ stack # <<>> /\ Top.step = "running" /\ Top.response # NULL /\ Flush
        /\ stdout' = Top.real /\ Replace(f) /\ UNCHANGED <<runs, request, prints>>
    BY DEF RestoreResponse, Running
  <1>2. Top \in Frame /\ FrameOK(Top, Len(buffers))
    BY <1>1, Typed, Serving DEF OutputInv
  <1>3. f \in Frame
    BY <1>2 DEF Frame
  <1>4. /\ f.step = "running" /\ f.kind = Top.kind /\ f.out = Top.out
        /\ f.previous = Top.previous /\ f.response = Top.response /\ f.real = Top.real
        /\ ~ f.diverted
    BY <1>1, <1>2 DEF Frame
  <1>5. Replace(f)
    BY <1>1
  <1> HIDE DEF f
  <1>6. Owned(f) = Owned(Top) /\ IsScript(f) = IsScript(Top)
    BY <1>1, <1>4 DEF Owned, IsScript
  <1>7. Top.response # NULL /\ Top.real # NULL
    BY <1>1, <1>2 DEF FrameOK
  <1>8. Live' \subseteq Live
    <2>1. /\ DOMAIN stack' = 1..Len(stack) /\ stack'[Len(stack)] = f
          /\ \A k \in 1..Len(stack) - 1 : stack'[k] = stack[k]
      BY <1>1, <1>3, <1>5, Replaced DEF OutputInv, TypeOK
    <2>2. /\ Len(stack) \in Nat /\ DOMAIN stack = 1..Len(stack)
          /\ Top = stack[Len(stack)]
      BY <1>1, Typed DEF OutputInv
    <2>3. \A k \in 1..Len(stack) : Owned(stack'[k]) = Owned(stack[k])
      BY <1>6, <2>1, <2>2
    <2> QED BY <2>1, <2>2, <2>3 DEF Live
  <1>9. /\ buffers' \in Seq(Seq(Text)) /\ Len(buffers') = Len(buffers)
        /\ Buffer' = Buffer /\ sent' \in Seq((1..MaxRuns) \X Text)
        /\ TextsInv'
    BY <1>1, <1>7, <1>8, ResponseSent
  <1>10. FrameOK(f, Len(buffers')) /\ Top.real \in Buffer'
    BY <1>1, <1>2, <1>4, <1>6, <1>7, <1>9 DEF FrameOK, Buffer
  <1>11. \A b \in {stdout', f.real} :
            /\ Inside(b, Len(stack) - 1, stack)
            /\ IsScript(f) => \A k \in 1..Len(stack) - 1 : b \notin Owned(stack[k])
    <2>1. /\ \A k \in 1..Len(stack) - 1 : NULL \notin Owned(stack[k])
          /\ Inside(NULL, Len(stack) - 1, stack)
      BY <1>1, InnerBuffer
    <2>2. /\ Inside(Top.real, Len(stack) - 1, stack)
          /\ IsScript(f) =>
                \A k \in 1..Len(stack) - 1 : Top.real \notin Owned(stack[k])
      BY <1>1, <1>6, InnerStdout
    <2> QED BY <1>1, <1>4, <2>1, <2>2
  <1>12. Inside(f.previous, Len(stack) - 1, stack)
    BY <1>1, <1>4, Serving
  <1>13. /\ prints' \in 0..MaxPrints /\ stdout' \in Buffer'
         /\ UNCHANGED <<request, runs>> /\ Len(buffers) <= Len(buffers')
    <2>1. Len(buffers) \in Nat
      BY Typed DEF OutputInv
    <2> QED BY <1>1, <1>9, <1>10, <2>1 DEF OutputInv, TypeOK
  <1>14. TypeOK' /\ FramesInv' /\ Apart' /\ StdoutInside'
    BY <1>1, <1>3, <1>4, <1>5, <1>6, <1>9, <1>10, <1>11, <1>12, <1>13, RunGoesOn
  <1> QED BY <1>9, <1>14 DEF OutputInv

LEMMA RubyPrintsInv ==
    ASSUME OutputInv, RubyPrints
    PROVE  OutputInv'
  <1> DEFINE text == [from |-> request, n |-> prints', trace |-> NULL]
             f == IF Top.diverted THEN Top
                  ELSE [Top EXCEPT !.printed = @ \union {text}]
             longer == Append(buffers[stdout], text)
  <1>1. /\ stack # <<>> /\ Top.step = "running" /\ prints < MaxPrints
        /\ prints' = prints + 1 /\ Replace(f)
        /\ buffers' = [buffers EXCEPT ![stdout] = longer]
        /\ UNCHANGED <<stdout, sent, runs, request>>
    BY DEF RubyPrints, Running
  <1>2. /\ Top \in Frame /\ FrameOK(Top, Len(buffers)) /\ request \in 1..MaxRuns
        /\ prints \in Nat /\ prints' \in 0..MaxPrints /\ stdout \in Buffer
        /\ stdout \in 1..Len(buffers) /\ buffers \in Seq(Seq(Text))
    <2>1. Top \in Frame /\ FrameOK(Top, Len(buffers)) /\ request \in 1..MaxRuns
      BY <1>1, Typed, Serving DEF OutputInv
    <2>2. prints \in 0..MaxPrints /\ stdout \in Buffer /\ buffers \in Seq(Seq(Text))
      BY DEF OutputInv, TypeOK
    <2> QED BY <1>1, <2>1, <2>2, BoundsAreNats DEF Buffer
  <1>3. text \in Text /\ text.n = prints + 1 /\ text.trace = NULL
        /\ text.from = request
    BY <1>1, <1>2 DEF Text
  <1> HIDE DEF text
  <1>4. f \in Frame
    BY <1>2, <1>3 DEF Frame
  <1>5. /\ f.step = "running" /\ f.kind = Top.kind /\ f.out = Top.out
        /\ f.previous = Top.previous /\ f.response = Top.response
        /\ f.real = Top.real /\ f.diverted = Top.diverted
    BY <1>1, <1>2 DEF Frame
  <1>6. Replace(f)
    BY <1>1
  <1> HIDE DEF f
  <1>7. Owned(f) = Owned(Top) /\ IsScript(f) = IsScript(Top)
    BY <1>1, <1>5 DEF Owned, IsScript
  <1>8. /\ longer \in Seq(Text) /\ Len(buffers[stdout]) \in Nat
        /\ DOMAIN buffers[stdout] = 1..Len(buffers[stdout])
        /\ DOMAIN longer = 1..Len(buffers[stdout]) + 1
        /\ \A k \in 1..Len(buffers[stdout]) : longer[k] = buffers[stdout][k]
        /\ longer[Len(buffers[stdout]) + 1] = text
    <2>1. buffers[stdout] \in Seq(Text)
      BY <1>2, Typed DEF OutputInv
    <2>2. /\ longer \in Seq(Text) /\ Len(longer) = Len(buffers[stdout]) + 1
          /\ \A k \in 1..Len(buffers[stdout]) : longer[k] = buffers[stdout][k]
          /\ longer[Len(buffers[stdout]) + 1] = text
      BY <1>3, <2>1, AppendProperties
    <2> QED BY <2>1, <2>2, LenProperties
  <1> HIDE DEF longer
  <1>9. /\ buffers' \in Seq(Seq(Text)) /\ Len(buffers') = Len(buffers)
        /\ \A c \in 1..Len(buffers) :
              buffers'[c] = IF c = stdout THEN longer ELSE buffers[c]
    BY <1>1, <1>2, <1>8, ExceptSeq
  <1>10. FrameOK(f, Len(buffers'))
    BY <1>1, <1>2, <1>5, <1>7, <1>9 DEF FrameOK
  <1>11. \A b \in {stdout', f.real} :
            /\ Inside(b, Len(stack) - 1, stack)
            /\ IsScript(f) => \A k \in 1..Len(stack) - 1 : b \notin Owned(stack[k])
    BY <1>1, <1>5, <1>7, InnerStdout
  <1>12. Inside(f.previous, Len(stack) - 1, stack)
    BY <1>1, <1>5, Serving
  <1>13. /\ sent' \in Seq((1..MaxRuns) \X Text) /\ stdout' \in Buffer'
         /\ UNCHANGED <<request, runs>> /\ Len(buffers) <= Len(buffers')
         /\ Buffer' = Buffer
    <2>1. Len(buffers) \in Nat
      BY Typed DEF OutputInv
    <2> QED BY <1>1, <1>2, <1>9, <2>1 DEF OutputInv, TypeOK, Buffer
  <1>14. TypeOK' /\ FramesInv' /\ Apart' /\ StdoutInside'
    BY <1>1, <1>2, <1>4, <1>5, <1>6, <1>7, <1>9, <1>10, <1>11, <1>12, <1>13,
       RunGoesOn
  <1>15. Live' \subseteq Live /\ Live \subseteq Buffer
    <2>1. /\ DOMAIN stack' = 1..Len(stack) /\ stack'[Len(stack)] = f
          /\ \A k \in 1..Len(stack) - 1 : stack'[k] = stack[k]
      BY <1>1, <1>4, <1>6, Replaced DEF OutputInv, TypeOK
    <2>2. /\ Len(stack) \in Nat /\ DOMAIN stack = 1..Len(stack)
          /\ Top = stack[Len(stack)]
      BY <1>1, Typed DEF OutputInv
    <2>3. \A k \in 1..Len(stack) : Owned(stack'[k]) = Owned(stack[k])
      BY <1>7, <2>1, <2>2
    <2> QED BY <2>1, <2>2, <2>3, LiveAt DEF Live, OutputInv
  (* A text in a buffer was there before, in its place, or is the new one.  *)
  <1>16. \A b \in Buffer : \A k \in DOMAIN buffers'[b] :
            \/ k \in DOMAIN buffers[b] /\ buffers'[b][k] = buffers[b][k]
            \/ /\ b = stdout /\ k = Len(buffers[stdout]) + 1
               /\ buffers'[b][k] = text
    <2> SUFFICES ASSUME NEW b \in 1..Len(buffers), NEW k \in DOMAIN buffers'[b]
                 PROVE  \/ k \in DOMAIN buffers[b] /\ buffers'[b][k] = buffers[b][k]
                        \/ /\ b = stdout /\ k = Len(buffers[stdout]) + 1
                           /\ buffers'[b][k] = text
      BY DEF Buffer
    <2>1. CASE b # stdout
      <3>1. buffers'[b] = buffers[b]
        BY <1>9, <2>1
      <3> QED BY <3>1
    <2>2. CASE b = stdout
      <3>1. buffers'[b] = longer
        BY <1>9, <2>2
      <3>2. k \in 1..Len(buffers[stdout]) \/ k = Len(buffers[stdout]) + 1
        BY <1>8, <3>1
      <3> QED BY <1>8, <2>2, <3>1, <3>2
    <2> QED BY <2>1, <2>2
  <1>17. PrintedTexts'
    <2>1. \A b \in Buffer' : \A k \in DOMAIN buffers'[b] :
             buffers'[b][k].trace = NULL /\ buffers'[b][k].n <= prints + 1
      <3> SUFFICES ASSUME NEW b \in Buffer, NEW k \in DOMAIN buffers'[b]
                   PROVE  buffers'[b][k].trace = NULL /\ buffers'[b][k].n <= prints + 1
        BY <1>13
      <3>1. CASE k \in DOMAIN buffers[b] /\ buffers'[b][k] = buffers[b][k]
        <4>1. buffers[b][k].trace = NULL /\ buffers[b][k].n <= prints
          BY <3>1 DEF OutputInv, TextsInv, PrintedTexts
        <4>2. buffers[b] \in Seq(Text)
          BY Typed DEF OutputInv
        <4>3. buffers[b][k] \in Text
          BY <3>1, <4>2, ElementOfSeq, LenProperties
        <4>4. buffers[b][k].n \in Nat
          BY <4>3, BoundsAreNats DEF Text
        <4> QED BY <1>2, <3>1, <4>1, <4>4
      <3>2. CASE buffers'[b][k] = text
        BY <1>2, <1>3, <3>2
      <3> QED BY <1>16, <3>1, <3>2
    <2>2. \A i \in DOMAIN sent' : sent'[i][2].n <= prints + 1
      <3> SUFFICES ASSUME NEW i \in DOMAIN sent PROVE sent[i][2].n <= prints + 1
        BY <1>1
      <3>1. sent[i] \in (1..MaxRuns) \X Text
        BY Typed DEF OutputInv
      <3>2. sent[i][2].n \in Nat
        BY <3>1, BoundsAreNats DEF Text
      <3> QED BY <1>2, <3>2 DEF OutputInv, TextsInv, PrintedTexts
    <2> QED BY <1>1, <2>1, <2>2 DEF PrintedTexts
  <1>18. Unsent'
    <2> SUFFICES ASSUME NEW b \in Live, NEW k \in DOMAIN buffers'[b]
                 PROVE  /\ buffers'[b][k].from = request
                        /\ \A i \in DOMAIN sent : sent[i][2] # buffers'[b][k]
      BY <1>1, <1>15 DEF Unsent
    <2>1. CASE k \in DOMAIN buffers[b] /\ buffers'[b][k] = buffers[b][k]
      BY <2>1 DEF OutputInv, TextsInv, Unsent
    <2>2. CASE buffers'[b][k] = text
      <3>1. \A i \in DOMAIN sent : sent[i][2].n <= prints
        BY DEF OutputInv, TextsInv, PrintedTexts
      <3>2. ~ (prints + 1 <= prints)
        BY <1>2
      <3> QED BY <1>3, <2>2, <3>1, <3>2
    <2> QED BY <1>15, <1>16, <2>1, <2>2
  <1>19. Unrepeated'
    <2> SUFFICES ASSUME NEW b \in Live, NEW c \in Live,
                        NEW k \in DOMAIN buffers'[b], NEW l \in DOMAIN buffers'[c],
                        buffers'[b][k] = buffers'[c][l]
                 PROVE  b = c /\ k = l
      BY <1>15 DEF Unrepeated
    <2>0. ~ (prints + 1 <= prints) /\ b \in Buffer /\ c \in Buffer
      BY <1>2, <1>15
    <2>1. CASE k \in DOMAIN buffers[b] /\ buffers'[b][k] = buffers[b][k]
      <3>1. buffers[b][k].n <= prints
        BY <2>0, <2>1 DEF OutputInv, TextsInv, PrintedTexts
      <3>2. buffers'[c][l] # text
        BY <1>3, <2>0, <2>1, <3>1
      <3>3. l \in DOMAIN buffers[c] /\ buffers'[c][l] = buffers[c][l]
        BY <1>16, <2>0, <3>2
      <3>4. Unrepeated /\ buffers[b][k] = buffers[c][l]
        BY <2>1, <3>3 DEF OutputInv, TextsInv
      <3> QED BY <2>1, <3>3, <3>4 DEF Unrepeated
    <2>2. CASE b = stdout /\ k = Len(buffers[stdout]) + 1 /\ buffers'[b][k] = text
      <3>1. ASSUME l \in DOMAIN buffers[c], buffers'[c][l] = buffers[c][l]
            PROVE  FALSE
        <4>1. buffers[c][l].n <= prints
          BY <2>0, <3>1 DEF OutputInv, TextsInv, PrintedTexts
        <4> QED BY <1>3, <2>0, <2>2, <3>1, <4>1
      <3>2. c = stdout /\ l = Len(buffers[stdout]) + 1
        BY <1>16, <2>0, <3>1
      <3> QED BY <2>2, <3>2
    <2> QED BY <1>16, <2>0, <2>1, <2>2
  <1>20. SentOnce' /\ SentToItsRequest'
    BY <1>1 DEF OutputInv, TextsInv, SentOnce, SentToItsRequest
  <1> QED BY <1>14, <1>17, <1>18, <1>19, <1>20 DEF OutputInv, TextsInv

LEMMA BeginRunInv ==
    ASSUME OutputInv, NEW kind \in Kind, BeginRun(kind)
    PROVE  OutputInv'
  <1> DEFINE n == Len(stack)
             g == [kind |-> kind,
                   step |-> IF kind = "script" THEN "setup" ELSE "running",
                   out |-> NULL, previous |-> NULL,
                   response |-> NULL, real |-> NULL, diverted |-> FALSE,
                   printed |-> {}, disturbed |-> FALSE]
  <1>1. /\ stack = <<>> \/ (stack # <<>> /\ Top.step = "running")
        /\ runs < MaxRuns /\ runs' = runs + 1
        /\ request' = IF stack = <<>> THEN runs' ELSE request
        /\ stack' = Append(stack, g)
        /\ UNCHANGED <<stdout, buffers, sent, prints>>
    BY DEF BeginRun, Running
  <1>2. /\ g \in Frame /\ Owned(g) = {} /\ ~ IsScript(g)
        /\ g.previous = NULL /\ g.real = NULL /\ FrameOK(g, Len(buffers))
    <2>1. g \in Frame
      BY DEF Frame, Kind
    <2>2. Owned(g) = {} /\ g.previous = NULL /\ g.real = NULL
      BY DEF Owned
    <2>3. ~ IsScript(g)
      BY DEF IsScript, Kind
    <2>4. FrameOK(g, Len(buffers))
      BY <2>2 DEF FrameOK, Kind
    <2> QED BY <2>1, <2>2, <2>3, <2>4
  <1> HIDE DEF g
  <1>3. n \in Nat /\ DOMAIN stack = 1..n /\ stack \in Seq(Frame) /\ runs \in Nat
    BY Typed DEF OutputInv, TypeOK
  <1>0. n = Len(stack)
    OBVIOUS
  <1> HIDE DEF n
  <1>4. /\ stack' \in Seq(Frame) /\ Len(stack') = n + 1
        /\ DOMAIN stack' = 1..n + 1 /\ stack'[n + 1] = g
        /\ \A k \in 1..n : stack'[k] = stack[k]
    <2>1. /\ stack' \in Seq(Frame) /\ Len(stack') = n + 1
          /\ stack'[n + 1] = g
          /\ \A k \in 1..n : stack'[k] = stack[k]
      BY <1>0, <1>1, <1>2, <1>3, AppendProperties
    <2> QED BY <2>1, LenProperties
  <1>5. /\ runs' \in 0..MaxRuns /\ request' \in 0..MaxRuns /\ request' >= 1
        /\ stack # <<>> => request' = request
    <2>1. runs \in 0..MaxRuns /\ request \in 0..MaxRuns
      BY DEF OutputInv, TypeOK
    <2>2. stack # <<>> => request >= 1
      BY Serving DEF OutputInv
    <2> QED BY <1>1, <2>1, <2>2, BoundsAreNats
  <1>6. TypeOK'
    BY <1>1, <1>4, <1>5 DEF OutputInv, TypeOK, Buffer
  <1>7. \A b, m : m \in 0..n /\ Inside(b, m, stack) => Inside(b, m, stack')
    <2> SUFFICES ASSUME NEW b, NEW m \in 0..n, Inside(b, m, stack),
                        NEW i \in 1..m, NEW j \in 1..m, i < j, IsScript(stack'[j])
                 PROVE  b \notin Owned(stack'[i])
      BY DEF Inside
    <2>1. i \in 1..n /\ j \in 1..n
      BY <1>3
    <2>2. stack'[i] = stack[i] /\ stack'[j] = stack[j]
      BY <1>4, <2>1
    <2> QED BY <2>2 DEF Inside
  <1>8. \A b : Inside(b, n, stack) => Inside(b, n + 1, stack')
    <2> SUFFICES ASSUME NEW b, Inside(b, n, stack),
                        NEW i \in 1..n + 1, NEW j \in 1..n + 1, i < j,
                        IsScript(stack'[j])
                 PROVE  b \notin Owned(stack'[i])
      BY DEF Inside
    <2>1. j # n + 1
      BY <1>2, <1>4
    <2>2. i \in 1..n /\ j \in 1..n
      BY <1>3, <2>1
    <2>3. stack'[i] = stack[i] /\ stack'[j] = stack[j]
      BY <1>4, <2>2
    <2> QED BY <2>2, <2>3 DEF Inside
  <1>9. FramesInv'
    <2> SUFFICES ASSUME NEW k \in 1..n + 1
                 PROVE  /\ FrameOK(stack'[k], Len(buffers))
                        /\ stack'[k].step = "setup" => k = n + 1
      BY <1>1, <1>4, <1>5 DEF FramesInv
    <2>1. CASE k = n + 1
      BY <1>2, <1>4, <2>1
    <2>2. CASE k # n + 1
      <3>1. k \in 1..n /\ stack # <<>>
        BY <1>0, <1>3, <2>2, EmptySeq
      <3>2. /\ FrameOK(stack[k], Len(buffers))
            /\ stack[k].step = "setup" => k = n
        BY <1>0, <1>3, <3>1 DEF OutputInv, FramesInv
      <3>3. stack[n].step = "running"
        BY <1>0, <1>1, <3>1, Typed DEF OutputInv
      <3>4. stack'[k] = stack[k]
        BY <1>4, <3>1
      <3> QED BY <3>2, <3>3, <3>4
    <2> QED BY <2>1, <2>2
  <1>10. \A k \in 1..n : Owned(stack'[k]) = Owned(stack[k])
    BY <1>4
  <1>11. Apart'
    <2> SUFFICES ASSUME NEW i \in 1..n + 1, NEW j \in 1..n + 1, i # j
                 PROVE  Owned(stack'[i]) \intersect Owned(stack'[j]) = {}
      BY <1>4 DEF Apart
    <2>1. CASE i = n + 1 \/ j = n + 1
      BY <1>2, <1>4, <2>1
    <2>2. CASE i # n + 1 /\ j # n + 1
      <3>1. i \in 1..n /\ j \in 1..n
        BY <1>3, <2>2
      <3>2. Owned(stack[i]) \intersect Owned(stack[j]) = {}
        BY <1>3, <3>1 DEF OutputInv, Apart
      <3> QED BY <1>10, <3>1, <3>2
    <2> QED BY <2>1, <2>2
  <1>12. StdoutInside'
    <2>1. Inside(stdout', n + 1, stack')
      <3>1. Inside(stdout, n, stack)
        BY <1>0 DEF OutputInv, StdoutInside
      <3> QED BY <1>1, <1>8, <3>1
    <2>2. \A m : Inside(NULL, m, stack')
      BY DEF Inside, Owned
    <2>3. ASSUME NEW m \in 1..n + 1
          PROVE  /\ Inside(stack'[m].previous, m - 1, stack')
                 /\ Inside(stack'[m].real, m, stack')
      <3>1. CASE m = n + 1
        BY <1>2, <1>4, <2>2, <3>1
      <3>2. CASE m # n + 1
        <4>1. m \in 1..n /\ m \in 0..n /\ m - 1 \in 0..n
          BY <1>3, <3>2
        <4>2. /\ Inside(stack[m].previous, m - 1, stack)
              /\ Inside(stack[m].real, m, stack)
          BY <1>3, <4>1 DEF OutputInv, StdoutInside
        <4>3. stack'[m] = stack[m]
          BY <1>4, <4>1
        <4> QED BY <1>7, <4>1, <4>2, <4>3
      <3> QED BY <3>1, <3>2
    <2> QED BY <1>4, <2>1, <2>3 DEF StdoutInside
  <1>13. Live' \subseteq Live /\ (stack = <<>> => Live = {})
    <2>1. \A k \in 1..n + 1 : Owned(stack'[k]) = {} \/ k \in 1..n
      BY <1>2, <1>3, <1>4
    <2>2. Live' \subseteq Live
      BY <1>3, <1>4, <1>10, <2>1 DEF Live
    <2>3. stack = <<>> => DOMAIN stack = {}
      BY EmptySeq
    <2> QED BY <2>2, <2>3 DEF Live
  <1>14. TextsInv'
    <2>1. Buffer' = Buffer
      BY <1>1 DEF Buffer
    <2>2. PrintedTexts' /\ SentOnce' /\ SentToItsRequest'
      BY <1>1, <2>1 DEF OutputInv, TextsInv, PrintedTexts, SentOnce,
                        SentToItsRequest
    <2>3. Unrepeated'
      BY <1>1, <1>13 DEF OutputInv, TextsInv, Unrepeated
    <2>4. Unsent'
      BY <1>1, <1>5, <1>13 DEF OutputInv, TextsInv, Unsent
    <2> QED BY <2>2, <2>3, <2>4 DEF TextsInv
  <1> QED BY <1>6, <1>9, <1>11, <1>12, <1>14 DEF OutputInv

LEMMA NewChildInv ==
    ASSUME OutputInv, NewChild
    PROVE  OutputInv'
  <1>1. /\ stack' = <<>> /\ stdout' = 1 /\ buffers' = << <<>> >> /\ sent' = <<>>
        /\ runs' = 0 /\ request' = 0 /\ prints' = 0
    BY DEF NewChild, Process
  <1>2. TypeOK'
    BY <1>1, BoundsAreNats, EmptySeq DEF TypeOK, Buffer
  <1>3. FramesInv' /\ Apart' /\ StdoutInside'
    BY <1>1, EmptySeq DEF FramesInv, Apart, StdoutInside, Inside
  <1>4. Live' = {}
    BY <1>1 DEF Live
  <1>5. TextsInv'
    BY <1>1, <1>4, EmptySeq DEF TextsInv, PrintedTexts, Unsent, Unrepeated,
                                SentOnce, SentToItsRequest, Buffer
  <1> QED BY <1>2, <1>3, <1>5 DEF OutputInv

LEMMA Initial == Init => OutputInv
  <1> SUFFICES ASSUME Init PROVE OutputInv
    OBVIOUS
  <1>1. /\ stack = <<>> /\ stdout = 1 /\ buffers = << <<>> >> /\ sent = <<>>
        /\ runs = 0 /\ request = 0 /\ prints = 0
    BY DEF Init, Process
  <1>2. TypeOK
    BY <1>1, BoundsAreNats, EmptySeq DEF TypeOK, Buffer
  <1>3. FramesInv /\ Apart /\ StdoutInside
    BY <1>1, EmptySeq DEF FramesInv, Apart, StdoutInside, Inside
  <1>4. Live = {}
    BY <1>1 DEF Live
  <1>5. TextsInv
    BY <1>1, <1>4, EmptySeq DEF TextsInv, PrintedTexts, Unsent, Unrepeated,
                                SentOnce, SentToItsRequest, Buffer
  <1> QED BY <1>2, <1>3, <1>5 DEF OutputInv

LEMMA Step == OutputInv /\ [Next]_vars => OutputInv'
  <1> SUFFICES ASSUME OutputInv, [Next]_vars PROVE OutputInv'
    OBVIOUS
  <1>1. CASE NewChild
    BY <1>1, NewChildInv
  <1>2. ASSUME NEW kind \in Kind, BeginRun(kind) PROVE OutputInv'
    BY <1>2, BeginRunInv
  <1>3. CASE SetupRunner
    BY <1>3, SetupRunnerInv
  <1>4. CASE SetupFails
    BY <1>4, SetupFailsInv
  <1>5. CASE RubyPrints
    BY <1>5, RubyPrintsInv
  <1>6. CASE StartResponse
    BY <1>6, StartResponseInv
  <1>7. CASE FlushResponse
    BY <1>7, FlushResponseInv
  <1>8. CASE ClearResponse
    BY <1>8, ClearResponseInv
  <1>9. CASE RestoreResponse
    BY <1>9, RestoreResponseInv
  <1>10. CASE ScriptReturns
    BY <1>10, ScriptReturnsInv
  <1>11. CASE HandlerReturns
    BY <1>11, HandlerReturnsInv
  <1>12. ASSUME NEW e \in Exception, ScriptRaises(e) PROVE OutputInv'
    BY <1>12, ScriptRaisesInv
  <1>13. ASSUME NEW e \in Exception, HandlerRaises(e) PROVE OutputInv'
    BY <1>13, HandlerRaisesInv
  <1>14. CASE UNCHANGED vars
    <2>1. UNCHANGED <<stdout, buffers, stack, sent, runs, request, prints>>
      BY <1>14 DEF vars
    <2>2. Live' = Live /\ Buffer' = Buffer
      BY <2>1 DEF Live, Buffer
    <2>3. TypeOK'
      BY <2>1, <2>2 DEF OutputInv, TypeOK
    <2>4. FramesInv' /\ Apart' /\ StdoutInside'
      BY <2>1, SameStack
    <2>5. TextsInv'
      BY <2>1, <2>2 DEF OutputInv, TextsInv, PrintedTexts, Unsent, Unrepeated,
                        SentOnce, SentToItsRequest
    <2> QED BY <2>3, <2>4, <2>5 DEF OutputInv
  <1> QED BY <1>1, <1>2, <1>3, <1>4, <1>5, <1>6, <1>7, <1>8, <1>9, <1>10, <1>11,
             <1>12, <1>13, <1>14 DEF Next

LEMMA Always == Spec => []OutputInv
  <1> QED BY Initial, Step, PTL DEF Spec

---------------------------------------------------------------------------
(* The chain of $stdout: what each run gets back from what it nested.      *)

LEMMA EndedFrames ==
    ASSUME stack \in Seq(Frame), stack # <<>>,
           NEW left, NEW disturbs \in BOOLEAN, EndRun(left, disturbs)
    PROVE  /\ DOMAIN stack' = 1..Len(stack) - 1
           /\ \A k \in 1..Len(stack) - 2 : stack'[k] = stack[k]
           /\ Len(stack) > 1 =>
                 stack'[Len(stack) - 1] = Disturbed(stack[Len(stack) - 1], disturbs)
  <1> DEFINE outer == Front(stack)
             f == Disturbed(Last(outer), disturbs)
  <1>1. /\ Len(stack) \in Nat \ {0}
        /\ outer \in Seq(Frame) /\ Len(outer) = Len(stack) - 1
        /\ \A k \in 1..Len(stack) - 1 : outer[k] = stack[k]
    BY FrontLast
  <1>2. DOMAIN stack' = 1..Len(stack) - 1
    BY Ended
  <1>3. CASE outer = <<>>
    <2>1. Len(outer) = 0
      BY <1>3, EmptySeq
    <2> HIDE DEF outer
    <2>2. Len(stack) = 1
      BY <1>1, <2>1
    <2> QED BY <1>2, <2>2
  <1>4. CASE outer # <<>>
    <2> HIDE DEF outer, f
    <2>1. stack' = Append(Front(outer), f)
      BY <1>4 DEF EndRun, outer, f
    <2>2. /\ Len(outer) \in Nat \ {0} /\ Last(outer) = outer[Len(outer)]
          /\ Last(outer) \in Frame
          /\ Front(outer) \in Seq(Frame) /\ Len(Front(outer)) = Len(outer) - 1
          /\ \A k \in 1..Len(outer) - 1 : Front(outer)[k] = outer[k]
      BY <1>1, <1>4, FrontLast
    <2>3. f \in Frame
      BY <2>2, DisturbedTyped DEF f
    <2>4. /\ \A k \in 1..Len(outer) - 1 : stack'[k] = outer[k]
          /\ stack'[Len(outer)] = f
      BY <2>1, <2>2, <2>3, AppendProperties
    <2>5. \A k \in 1..Len(stack) - 2 : stack'[k] = stack[k]
      BY <1>1, <2>4
    <2>6. outer[Len(outer)] = stack[Len(stack) - 1]
      BY <1>1, <2>2
    <2>7. stack'[Len(stack) - 1] = Disturbed(stack[Len(stack) - 1], disturbs)
      BY <1>1, <2>2, <2>4, <2>6 DEF f
    <2> QED BY <1>2, <2>5, <2>7
  <1> QED BY <1>3, <1>4

(* The innermost run goes on as f.                                         *)
LEMMA ChainGoesOn ==
    ASSUME OutputInv, Chain, stack # <<>>, NEW f \in Frame, Replace(f),
           stdout' \in Buffer', Buffer \subseteq Buffer',
           Diverts(Top, stdout) => Diverts(f, stdout'),
           \A o : Returns(Top, stdout, o) => Returns(f, stdout', o)
    PROVE  Chain'
  <1> DEFINE n == Len(stack)
  <1>1. /\ n \in Nat /\ n >= 1 /\ DOMAIN stack = 1..n /\ Top = stack[n]
        /\ stack \in Seq(Frame)
    BY Typed DEF OutputInv, TypeOK
  <1>2. /\ DOMAIN stack' = 1..n /\ stack'[n] = f /\ Len(stack') = n
        /\ \A k \in 1..n - 1 : stack'[k] = stack[k]
    BY <1>1, Replaced
  <1>3. PICK at \in [1..n -> Buffer] : GivesBack(at)
    BY <1>1 DEF Chain
  <1>0. n = Len(stack)
    OBVIOUS
  <1> HIDE DEF n
  <1>4. /\ at[n] = stdout
        /\ \A k \in 1..n : /\ Diverts(stack[k], at[k])
                           /\ k > 1 => Returns(stack[k], at[k], at[k - 1])
    BY <1>0, <1>1, <1>3 DEF GivesBack
  <1>6. PICK now \in [1..n -> Buffer'] :
           now[n] = stdout' /\ \A k \in 1..n : k # n => now[k] = at[k]
    <2> USE <1>1
    <2> WITNESS [k \in 1..n |-> IF k = n THEN stdout' ELSE at[k]] \in [1..n -> Buffer']
    <2> QED OBVIOUS
  <1>7. ASSUME NEW k \in 1..n
        PROVE  /\ Diverts(stack'[k], now[k])
               /\ k > 1 => Returns(stack'[k], now[k], now[k - 1])
    <2>1. k > 1 => k - 1 \in 1..n /\ k - 1 # n /\ now[k - 1] = at[k - 1]
      BY <1>1, <1>6
    <2>2. CASE k = n
      <3>1. Diverts(f, stdout')
        BY <1>1, <1>4, <2>2
      <3>2. k > 1 => Returns(f, stdout', at[k - 1])
        BY <1>1, <1>4, <2>2
      <3> QED BY <1>2, <1>6, <2>1, <2>2, <3>1, <3>2
    <2>3. CASE k # n
      <3>1. stack'[k] = stack[k] /\ now[k] = at[k]
        BY <1>1, <1>2, <1>6, <2>3
      <3> QED BY <1>4, <2>1, <3>1
    <2> QED BY <2>2, <2>3
  <1>8. GivesBack(now)'
    BY <1>2, <1>6, <1>7 DEF GivesBack
  <1> QED BY <1>2, <1>8 DEF Chain

LEMMA ChainEnds ==
    ASSUME OutputInv, Chain, stack # <<>>, UNCHANGED buffers,
           NEW left \in Buffer, NEW disturbs \in BOOLEAN, EndRun(left, disturbs),
           ~ disturbs => \A o : Returns(Top, stdout, o) => left = o
    PROVE  Chain'
  <1> DEFINE n == Len(stack)
  <1>1. /\ n \in Nat /\ n >= 1 /\ DOMAIN stack = 1..n /\ Top = stack[n]
        /\ stack \in Seq(Frame) /\ \A k \in 1..n : stack[k] \in Frame
    BY Typed DEF OutputInv, TypeOK
  <1>2. /\ DOMAIN stack' = 1..n - 1 /\ Len(stack') = n - 1
        /\ \A k \in 1..n - 2 : stack'[k] = stack[k]
        /\ n > 1 => stack'[n - 1] = Disturbed(stack[n - 1], disturbs)
        /\ stdout' = left
    BY <1>1, Ended, EndedFrames DEF EndRun
  <1>3. PICK at \in [1..n -> Buffer] : GivesBack(at)
    BY <1>1 DEF Chain
  <1>0. n = Len(stack)
    OBVIOUS
  <1> HIDE DEF n
  <1>4. /\ at[n] = stdout
        /\ \A k \in 1..n : /\ Diverts(stack[k], at[k])
                           /\ k > 1 => Returns(stack[k], at[k], at[k - 1])
    BY <1>0, <1>1, <1>3 DEF GivesBack
  <1>6. PICK now \in [1..n - 1 -> Buffer] :
           /\ n > 1 => now[n - 1] = left
           /\ \A k \in 1..n - 1 : k # n - 1 => now[k] = at[k]
    <2> USE <1>1
    <2> WITNESS [k \in 1..n - 1 |-> IF k = n - 1 THEN left ELSE at[k]]
                  \in [1..n - 1 -> Buffer]
    <2> QED OBVIOUS
  <1>7. ASSUME NEW k \in 1..n - 1
        PROVE  /\ Diverts(stack'[k], now[k])
               /\ k > 1 => Returns(stack'[k], now[k], now[k - 1])
    <2>1. k > 1 => k - 1 \in 1..n - 1 /\ k - 1 # n - 1 /\ now[k - 1] = at[k - 1]
      BY <1>1, <1>6
    <2>2. k \in 1..n /\ n > 1 /\ stack[k] \in Frame
      BY <1>1
    <2>3. /\ Diverts(stack[k], at[k])
          /\ k > 1 => Returns(stack[k], at[k], now[k - 1])
      BY <1>4, <2>1, <2>2
    <2>4. CASE k = n - 1 /\ disturbs
      <3>1. /\ stack'[k].disturbed /\ IsScript(stack'[k]) = IsScript(stack[k])
            /\ stack'[k].previous = stack[k].previous
        BY <1>2, <2>2, <2>4 DEF Disturbed, Frame, IsScript
      <3> QED BY <2>3, <3>1 DEF Diverts, Returns
    <2>5. CASE k = n - 1 /\ ~ disturbs
      <3>1. /\ SameRun(stack'[k], stack[k])
            /\ stack'[k].disturbed = (stack[k].disturbed \/ disturbs)
        <4>1. SameRun(stack'[k], stack[k])
          BY <1>2, <2>2, <2>5, DisturbedTyped
        <4> QED BY <1>2, <2>2, <2>5, <4>1 DEF Disturbed, Frame
      <3>2. stack'[k].disturbed => stack[k].disturbed
        BY <2>5, <3>1
      <3>3. stack[k].disturbed => stack'[k].disturbed
        BY <3>1
      <3>4. now[k] = left /\ left = at[k]
        <4>1. n \in 1..n /\ n - 1 = k
          BY <1>1, <2>5
        <4>2. Returns(Top, stdout, at[k])
          BY <1>1, <1>4, <2>2, <4>1
        <4> QED BY <1>6, <2>2, <2>5, <4>2
      <3>5. IsScript(stack'[k]) = IsScript(stack[k])
        BY <3>1 DEF SameRun, IsScript
      <3>6. Diverts(stack'[k], at[k])
        BY <2>3, <3>1, <3>2, <3>3, <3>5 DEF SameRun, Diverts, Held
      <3>7. k > 1 => Returns(stack'[k], at[k], now[k - 1])
        BY <2>3, <3>1, <3>2, <3>3, <3>5 DEF SameRun, Returns, Left
      <3> QED BY <3>4, <3>6, <3>7
    <2>6. CASE k # n - 1
      <3>1. stack'[k] = stack[k] /\ now[k] = at[k]
        BY <1>1, <1>2, <1>6, <2>6
      <3> QED BY <2>3, <3>1
    <2> QED BY <2>4, <2>5, <2>6
  <1>8. stack' # <<>> => n - 1 \in 1..n - 1 /\ n > 1
    <2>1. stack' \in Seq(Frame)
      BY <1>1, Ended
    <2> QED BY <1>1, <1>2, <2>1, EmptySeq
  <1>9. GivesBack(now)'
    BY <1>2, <1>6, <1>7, <1>8 DEF GivesBack
  <1> QED BY <1>2, <1>9 DEF Chain, Buffer

LEMMA ChainSame ==
    ASSUME Chain, UNCHANGED <<stack, stdout>>, Buffer' = Buffer
    PROVE  Chain'
  BY DEF Chain, GivesBack

---------------------------------------------------------------------------
(* The texts of the scripts: sent, or still in the script's buffer.        *)

LEMMA SentTextsGrow ==
    ASSUME TypeOK, NEW texts \in Seq(Text), request \in 1..MaxRuns, Send(texts)
    PROVE  /\ SentTexts \subseteq SentTexts'
           /\ \A i \in DOMAIN texts : texts[i] \in SentTexts'
  <1>1. /\ sent' \in Seq((1..MaxRuns) \X Text)
        /\ Len(sent') = Len(sent) + Len(texts)
        /\ \A i \in 1..Len(sent) : sent'[i] = sent[i]
        /\ \A i \in DOMAIN sent' : i \notin DOMAIN sent =>
              /\ i - Len(sent) \in DOMAIN texts
              /\ sent'[i] = <<request, texts[i - Len(sent)]>>
    BY SentAfter DEF TypeOK
  <1>2. /\ Len(sent) \in Nat /\ DOMAIN sent = 1..Len(sent)
        /\ Len(texts) \in Nat /\ DOMAIN texts = 1..Len(texts)
    BY Typed, LenProperties
  <1>3. DOMAIN sent' = 1..Len(sent) + Len(texts)
    BY <1>1, LenProperties
  <1>4. SentTexts \subseteq SentTexts'
    <2> SUFFICES ASSUME NEW i \in 1..Len(sent)
                 PROVE  \E j \in DOMAIN sent' : sent'[j][2] = sent[i][2]
      BY <1>2 DEF SentTexts
    <2>1. i \in DOMAIN sent' /\ sent'[i] = sent[i]
      BY <1>1, <1>2, <1>3
    <2> QED BY <2>1
  <1>5. ASSUME NEW i \in DOMAIN texts PROVE texts[i] \in SentTexts'
    <2> DEFINE j == Len(sent) + i
    <2>1. j \in DOMAIN sent' /\ j \notin DOMAIN sent /\ j - Len(sent) = i
      BY <1>2, <1>3
    <2> HIDE DEF j
    <2>2. sent'[j] = <<request, texts[i]>>
      BY <1>1, <2>1
    <2>3. sent'[j][2] = texts[i]
      BY <2>2
    <2> QED BY <2>1, <2>3 DEF SentTexts
  <1> QED BY <1>4, <1>5

(* The run f is now g, with what it printed.                               *)
Carries(f, g) ==
    /\ g.kind = f.kind /\ g.step = f.step /\ g.out = f.out
    /\ g.printed = f.printed
    /\ f.disturbed => g.disturbed
    /\ f.step = "setup" => (g.disturbed => f.disturbed)

(* What buffer b holds stays there or is sent.                             *)
Passed(b) ==
    \A i \in DOMAIN buffers[b] :
        \/ buffers[b][i] \in SentTexts'
        \/ \E j \in DOMAIN buffers'[b] : buffers'[b][j] = buffers[b][i]

LEMMA KeptOn ==
    ASSUME NEW f, NEW g, Carries(f, g), Kept(f, SentTexts, buffers),
           SentTexts \subseteq SentTexts', IsScript(f) => Passed(f.out)
    PROVE  Kept(g, SentTexts', buffers')
  <1>1. g.step = "setup" => g.printed = {} /\ ~ g.disturbed
    BY DEF Carries, Kept
  <1>2. ASSUME IsScript(g), ~ g.disturbed, NEW t \in g.printed
        PROVE  \/ t \in SentTexts'
               \/ \E i \in DOMAIN buffers'[g.out] : buffers'[g.out][i] = t
    <2>1. IsScript(f) /\ ~ f.disturbed /\ g.out = f.out /\ t \in f.printed
      BY <1>2 DEF Carries, IsScript
    <2>2. CASE t \in SentTexts
      BY <2>2
    <2>3. ASSUME NEW i \in DOMAIN buffers[f.out], buffers[f.out][i] = t
          PROVE  \/ t \in SentTexts'
                 \/ \E j \in DOMAIN buffers'[g.out] : buffers'[g.out][j] = t
      BY <2>1, <2>3 DEF Passed
    <2> QED BY <2>1, <2>2, <2>3 DEF Kept
  <1> QED BY <1>1, <1>2 DEF Kept

LEMMA CarriesItself ==
    ASSUME NEW f
    PROVE  Carries(f, f)
  BY DEF Carries

LEMMA KeptGoesOn ==
    ASSUME OutputInv, PrintedKept, stack # <<>>, NEW f \in Frame, Replace(f),
           SentTexts \subseteq SentTexts', Kept(f, SentTexts', buffers'),
           \A k \in 1..Len(stack) - 1 : IsScript(stack[k]) => Passed(stack[k].out)
    PROVE  PrintedKept'
  <1> DEFINE n == Len(stack)
  <1>1. n \in Nat /\ n >= 1 /\ DOMAIN stack = 1..n /\ stack \in Seq(Frame)
    BY Typed DEF OutputInv, TypeOK
  <1>2. /\ DOMAIN stack' = 1..n /\ stack'[n] = f
        /\ \A k \in 1..n - 1 : stack'[k] = stack[k]
    BY <1>1, Replaced
  <1>0. n = Len(stack)
    OBVIOUS
  <1> HIDE DEF n
  <1>3. ASSUME NEW k \in 1..n PROVE Kept(stack'[k], SentTexts', buffers')
    <2>1. CASE k = n
      BY <1>2, <2>1
    <2>2. CASE k # n
      <3>1. k \in 1..n - 1 /\ k \in DOMAIN stack /\ stack'[k] = stack[k]
        BY <1>1, <1>2, <2>2
      <3>2. Kept(stack[k], SentTexts, buffers)
        BY <3>1 DEF PrintedKept
      <3>3. IsScript(stack[k]) => Passed(stack[k].out)
        BY <1>0, <3>1
      <3>4. Kept(stack[k], SentTexts', buffers')
        BY <3>2, <3>3, KeptOn, CarriesItself
      <3> QED BY <3>1, <3>4
    <2> QED BY <2>1, <2>2
  <1> QED BY <1>2, <1>3 DEF PrintedKept

LEMMA KeptEnds ==
    ASSUME OutputInv, PrintedKept, stack # <<>>, UNCHANGED buffers,
           NEW left, NEW disturbs \in BOOLEAN, EndRun(left, disturbs),
           SentTexts \subseteq SentTexts'
    PROVE  PrintedKept'
  <1> DEFINE n == Len(stack)
  <1>1. /\ n \in Nat /\ n >= 1 /\ DOMAIN stack = 1..n
        /\ stack \in Seq(Frame) /\ \A k \in 1..n : stack[k] \in Frame
    BY Typed DEF OutputInv, TypeOK
  <1>2. /\ DOMAIN stack' = 1..n - 1
        /\ \A k \in 1..n - 2 : stack'[k] = stack[k]
        /\ n > 1 => stack'[n - 1] = Disturbed(stack[n - 1], disturbs)
    BY <1>1, EndedFrames
  <1>0. n = Len(stack)
    OBVIOUS
  <1> HIDE DEF n
  <1>3. \A b : Passed(b)
    BY DEF Passed
  <1>4. ASSUME NEW k \in 1..n - 1 PROVE Kept(stack'[k], SentTexts', buffers')
    <2>1. k \in DOMAIN stack /\ stack[k] \in Frame /\ n > 1
      BY <1>1
    <2>2. Kept(stack[k], SentTexts, buffers)
      BY <2>1 DEF PrintedKept
    <2>3. Carries(stack[k], stack'[k])
      <3>1. CASE k = n - 1
        <4>1. stack[k].step # "setup"
          <5>1. k # n
            BY <1>1, <3>1
          <5> QED BY <1>0, <2>1, <5>1 DEF OutputInv, FramesInv
        <4>2. stack'[k] = [stack[k] EXCEPT !.disturbed = @ \/ disturbs]
          BY <1>2, <2>1, <3>1 DEF Disturbed
        <4>3. /\ stack'[k].kind = stack[k].kind /\ stack'[k].step = stack[k].step
              /\ stack'[k].out = stack[k].out
              /\ stack'[k].printed = stack[k].printed
          BY <2>1, <4>2 DEF Frame
        <4>4. stack'[k].disturbed = (stack[k].disturbed \/ disturbs)
          BY <2>1, <4>2 DEF Frame
        <4> QED BY <4>1, <4>3, <4>4 DEF Carries
      <3>2. CASE k # n - 1
        <4>1. stack'[k] = stack[k]
          BY <1>1, <1>2, <3>2
        <4> QED BY <4>1, CarriesItself
      <3> QED BY <3>1, <3>2
    <2> QED BY <1>3, <2>2, <2>3, KeptOn
  <1> QED BY <1>2, <1>4 DEF PrintedKept

LEMMA KeptSame ==
    ASSUME OutputInv, PrintedKept, UNCHANGED stack, SentTexts \subseteq SentTexts',
           \A k \in 1..Len(stack) : IsScript(stack[k]) => Passed(stack[k].out)
    PROVE  PrintedKept'
  <1>1. DOMAIN stack = 1..Len(stack)
    BY Typed DEF OutputInv
  <1>2. ASSUME NEW k \in DOMAIN stack PROVE Kept(stack[k], SentTexts', buffers')
    <2>1. Kept(stack[k], SentTexts, buffers)
      BY DEF PrintedKept
    <2>2. IsScript(stack[k]) => Passed(stack[k].out)
      BY <1>1
    <2> QED BY <2>1, <2>2, KeptOn, CarriesItself
  <1> QED BY <1>2 DEF PrintedKept

(* The buffer a script prints to is no buffer of a response.               *)
LEMMA OutIsNoResponse ==
    ASSUME OutputInv, stack # <<>>,
           NEW k \in 1..Len(stack), IsScript(stack[k])
    PROVE  stack[k].out \in Buffer /\ stack[k].out # Top.response
  <1> DEFINE n == Len(stack)
             out == stack[k].out
  <1>1. /\ n \in Nat /\ n \in DOMAIN stack /\ DOMAIN stack = 1..n /\ Top = stack[n]
    BY Typed DEF OutputInv
  <1>0. n = Len(stack)
    OBVIOUS
  <1>2. FrameOK(stack[k], Len(buffers))
    BY <1>1 DEF OutputInv, FramesInv
  <1>3. out # NULL /\ out \in Owned(stack[k])
    BY <1>2 DEF FrameOK, IsScript, Owned
  <1>4. out \in Buffer
    BY <1>2, <1>3 DEF FrameOK, Buffer
  <1>5. out # Top.response
    <2>1. CASE k = n
      BY <1>1, <1>2, <1>3, <2>1 DEF FrameOK
    <2>2. CASE k # n
      <3>1. Owned(stack[k]) \intersect Owned(stack[n]) = {}
        BY <1>1, <2>2 DEF OutputInv, Apart
      <3>2. stack[n].response = NULL \/ stack[n].response \in Owned(stack[n])
        BY DEF Owned
      <3> QED BY <1>1, <1>3, <3>1, <3>2
    <2> QED BY <2>1, <2>2
  <1> QED BY <1>4, <1>5

---------------------------------------------------------------------------
(* The steps once more, for the chain and the texts.                       *)

LEMMA SetupFailsSent ==
    ASSUME SentInv, SetupFails
    PROVE  Chain' /\ PrintedKept' /\ Top.printed = {}
  <1>1. /\ OutputInv /\ Chain /\ PrintedKept /\ stack # <<>> /\ Top.step = "setup"
        /\ UNCHANGED buffers /\ EndRun(stdout, FALSE)
        /\ Send(<<TraceOf("error"), TraceOf("error")>>)
    BY DEF SentInv, SetupFails, Setup
  <1>2. /\ Len(stack) \in DOMAIN stack /\ Top = stack[Len(stack)]
        /\ stdout \in Buffer /\ TypeOK
    BY <1>1, Typed DEF OutputInv, TypeOK
  <1>3. Top.printed = {} /\ ~ Top.disturbed /\ ~ IsScript(Top)
    BY <1>1, <1>2 DEF PrintedKept, Kept, IsScript
  <1>4. Top.real = NULL /\ ~ Top.diverted
    BY <1>1, Serving DEF FrameOK
  <1>5. \A o : Returns(Top, stdout, o) => stdout = o
    BY <1>3, <1>4 DEF Returns, Left
  <1>6. Chain'
    BY <1>1, <1>2, <1>5, ChainEnds
  <1>7. SentTexts \subseteq SentTexts'
    <2>1. TraceOf("error") \in Text /\ request \in 1..MaxRuns
      BY <1>1, Serving DEF Exception
    <2>2. <<TraceOf("error"), TraceOf("error")>> \in Seq(Text)
      BY <2>1
    <2> QED BY <1>1, <1>2, <2>1, <2>2, SentTextsGrow
  <1>8. PrintedKept'
    BY <1>1, <1>7, KeptEnds
  <1> QED BY <1>3, <1>6, <1>8

(* A script ends: its buffer is sent, behind a trace or alone.             *)
LEMMA ScriptOutSent ==
    ASSUME OutputInv, PrintedKept, stack # <<>>, IsScript(Top),
           NEW texts \in Seq(Text), Send(texts),
           \A i \in DOMAIN buffers[Top.out] :
               \E j \in DOMAIN texts : texts[j] = buffers[Top.out][i]
    PROVE  /\ SentTexts \subseteq SentTexts'
           /\ ~ Top.disturbed => AllSent(Top)
  <1>1. /\ Len(stack) \in DOMAIN stack /\ Top = stack[Len(stack)]
        /\ TypeOK /\ request \in 1..MaxRuns
    BY Typed, Serving DEF OutputInv
  <1>2. /\ SentTexts \subseteq SentTexts'
        /\ \A j \in DOMAIN texts : texts[j] \in SentTexts'
    BY <1>1, SentTextsGrow
  <1>3. Kept(Top, SentTexts, buffers)
    BY <1>1 DEF PrintedKept
  <1>4. ASSUME ~ Top.disturbed, NEW t \in Top.printed PROVE t \in SentTexts'
    <2>1. CASE t \in SentTexts
      BY <1>2, <2>1
    <2>2. ASSUME NEW i \in DOMAIN buffers[Top.out], buffers[Top.out][i] = t
          PROVE  t \in SentTexts'
      BY <1>2, <2>2
    <2> QED BY <1>3, <1>4, <2>1, <2>2 DEF Kept
  <1>5. ~ Top.disturbed => Top.printed \subseteq SentTexts'
    BY <1>4
  <1> QED BY <1>2, <1>5 DEF AllSent, SentTexts

LEMMA ScriptReturnsSent ==
    ASSUME SentInv, ScriptReturns
    PROVE  Chain' /\ PrintedKept' /\ (~ Top.disturbed => AllSent(Top))
  <1>1. /\ OutputInv /\ Chain /\ PrintedKept /\ stack # <<>> /\ IsScript(Top)
        /\ UNCHANGED buffers /\ EndRun(stdout, TRUE) /\ Send(buffers[Top.out])
    BY DEF SentInv, ScriptReturns, Running, IsScript
  <1>2. stdout \in Buffer /\ Top.out \in Buffer
    <2>1. Len(stack) \in 1..Len(stack) /\ Top = stack[Len(stack)]
      BY <1>1, Typed DEF OutputInv
    <2> QED BY <1>1, <2>1, OutIsNoResponse DEF OutputInv, TypeOK
  <1>3. buffers[Top.out] \in Seq(Text)
    BY <1>1, <1>2, Typed DEF OutputInv
  <1>4. SentTexts \subseteq SentTexts' /\ (~ Top.disturbed => AllSent(Top))
    BY <1>1, <1>3, ScriptOutSent
  <1>5. Chain'
    BY <1>1, <1>2, ChainEnds
  <1>6. PrintedKept'
    BY <1>1, <1>4, KeptEnds
  <1> QED BY <1>4, <1>5, <1>6

LEMMA ScriptRaisesSent ==
    ASSUME SentInv, NEW exception \in Exception, ScriptRaises(exception)
    PROVE  Chain' /\ PrintedKept' /\ (~ Top.disturbed => AllSent(Top))
  <1> DEFINE t == TraceOf(exception)
             out == buffers[Top.out]
             texts == <<t>> \o out
  <1>1. /\ OutputInv /\ Chain /\ PrintedKept /\ stack # <<>> /\ IsScript(Top)
        /\ UNCHANGED buffers /\ EndRun(Top.previous, FALSE) /\ Send(texts)
    BY DEF SentInv, ScriptRaises, Running, IsScript
  <1>2. Top.previous \in Buffer /\ Top.out \in Buffer /\ t \in Text
    <2>1. Len(stack) \in 1..Len(stack) /\ Top = stack[Len(stack)]
      BY <1>1, Typed DEF OutputInv
    <2>2. Top.previous \in Buffer
      BY <1>1, Serving DEF FrameOK, Buffer, IsScript
    <2> QED BY <1>1, <2>1, <2>2, OutIsNoResponse, Serving
  <1> HIDE DEF t
  <1>3. out \in Seq(Text) /\ Len(out) \in Nat /\ DOMAIN out = 1..Len(out)
    <2>1. out \in Seq(Text)
      BY <1>1, <1>2, Typed DEF OutputInv
    <2> QED BY <2>1, LenProperties
  <1>4. \A i \in DOMAIN out : out[i] = buffers[Top.out][i]
    OBVIOUS
  <1>0. DOMAIN buffers[Top.out] = DOMAIN out
    OBVIOUS
  <1> HIDE DEF out
  <1>5. <<t>> \in Seq(Text) /\ Len(<<t>>) = 1
    BY <1>2
  <1>6. /\ texts \in Seq(Text) /\ Len(texts) = 1 + Len(out)
        /\ \A i \in 2..1 + Len(out) : texts[i] = out[i - 1]
    BY <1>3, <1>5, ConcatProperties
  <1> HIDE DEF texts
  <1>7. DOMAIN texts = 1..1 + Len(out)
    BY <1>6, LenProperties
  <1>8. \A i \in DOMAIN out : i + 1 \in DOMAIN texts /\ texts[i + 1] = out[i]
    <2> SUFFICES ASSUME NEW i \in 1..Len(out)
                 PROVE  i + 1 \in DOMAIN texts /\ texts[i + 1] = out[i]
      BY <1>3
    <2>1. i + 1 \in 2..1 + Len(out) /\ (i + 1) - 1 = i /\ i + 1 \in 1..1 + Len(out)
      BY <1>3
    <2> QED BY <1>6, <1>7, <2>1
  <1>9. \A i \in DOMAIN buffers[Top.out] :
           \E j \in DOMAIN texts : texts[j] = buffers[Top.out][i]
    BY <1>0, <1>4, <1>8
  <1>10. SentTexts \subseteq SentTexts' /\ (~ Top.disturbed => AllSent(Top))
    BY <1>1, <1>6, <1>9, ScriptOutSent
  <1>11. \A o : Returns(Top, stdout, o) => Top.previous = o
    BY <1>1 DEF Returns
  <1>12. Chain'
    BY <1>1, <1>2, <1>11, ChainEnds
  <1>13. PrintedKept'
    BY <1>1, <1>10, KeptEnds
  <1> QED BY <1>10, <1>12, <1>13

(* What a handler gives back, unless it disturbs the run it is nested in.  *)
LEMMA HandlerEnds ==
    ASSUME SentInv, Running, Top.kind = "handler", UNCHANGED buffers,
           EndRun(stdout, Disturbs), SentTexts \subseteq SentTexts'
    PROVE  Chain' /\ PrintedKept'
  <1>1. OutputInv /\ Chain /\ PrintedKept /\ stack # <<>> /\ ~ IsScript(Top)
    BY DEF SentInv, Running, IsScript
  <1>2. Disturbs \in BOOLEAN
    BY <1>1, Typed DEF OutputInv, Disturbs, Frame
  <1>3. stdout \in Buffer
    BY <1>1 DEF OutputInv, TypeOK
  <1>4. ~ Disturbs => \A o : Returns(Top, stdout, o) => stdout = o
    BY <1>1 DEF Disturbs, Returns, Left
  <1>5. Chain'
    BY <1>1, <1>2, <1>3, <1>4, ChainEnds
  <1>6. PrintedKept'
    BY <1>1, <1>2, KeptEnds
  <1> QED BY <1>5, <1>6

LEMMA HandlerReturnsSent ==
    ASSUME SentInv, HandlerReturns
    PROVE  Chain' /\ PrintedKept'
  <1>1. /\ Running /\ Top.kind = "handler" /\ EndRun(stdout, Disturbs)
        /\ UNCHANGED <<buffers, sent>>
    BY DEF HandlerReturns
  <1>2. SentTexts \subseteq SentTexts'
    BY <1>1 DEF SentTexts
  <1> QED BY <1>1, <1>2, HandlerEnds

LEMMA HandlerRaisesSent ==
    ASSUME SentInv, NEW exception \in Exception, HandlerRaises(exception)
    PROVE  Chain' /\ PrintedKept'
  <1> DEFINE texts == IF exception = "termination" THEN <<>> ELSE <<TraceOf(exception)>>
  <1>1. /\ Running /\ Top.kind = "handler" /\ EndRun(stdout, Disturbs)
        /\ UNCHANGED buffers /\ Send(texts)
    BY DEF HandlerRaises
  <1>2. /\ TraceOf(exception) \in Text /\ request \in 1..MaxRuns /\ TypeOK
    BY <1>1, Serving DEF SentInv, OutputInv, Running
  <1>3. texts \in Seq(Text)
    <2>1. <<>> \in Seq(Text)
      BY EmptySeq
    <2>2. <<TraceOf(exception)>> \in Seq(Text)
      BY <1>2
    <2> QED BY <2>1, <2>2
  <1> HIDE DEF texts
  <1>4. SentTexts \subseteq SentTexts'
    BY <1>1, <1>2, <1>3, SentTextsGrow
  <1> QED BY <1>1, <1>4, HandlerEnds

LEMMA SetupRunnerSent ==
    ASSUME SentInv, SetupRunner, OutputInv'
    PROVE  Chain' /\ PrintedKept'
  <1> DEFINE new == Len(buffers')
             f == [Top EXCEPT !.step = "running", !.out = new, !.previous = stdout]
  <1>1. /\ OutputInv /\ Chain /\ PrintedKept
        /\ stack # <<>> /\ Top.step = "setup" /\ buffers' = Append(buffers, <<>>)
        /\ stdout' = new /\ Replace(f) /\ UNCHANGED sent
    BY DEF SentInv, SetupRunner, Setup
  <1>2. /\ buffers \in Seq(Seq(Text)) /\ Len(buffers) \in Nat
        /\ stdout \in 1..Len(buffers) /\ Top \in Frame
        /\ Len(stack) \in DOMAIN stack /\ Top = stack[Len(stack)]
    BY <1>1, Typed DEF OutputInv, TypeOK, Buffer
  <1>3. /\ Buffer \subseteq Buffer' /\ new \in Nat /\ stdout \in Nat
        /\ \A b \in Buffer : buffers'[b] = buffers[b]
    <2>1. <<>> \in Seq(Text)
      BY EmptySeq
    <2>2. /\ Len(buffers') = Len(buffers) + 1
          /\ \A b \in 1..Len(buffers) : buffers'[b] = buffers[b]
      BY <1>1, <1>2, <2>1, AppendProperties
    <2> QED BY <1>2, <2>2 DEF Buffer
  <1> HIDE DEF new
  <1>4. /\ Top.kind = "script" /\ Top.response = NULL /\ Top.real = NULL
        /\ Top.printed = {} /\ ~ Top.disturbed /\ ~ Top.diverted
    <2>1. Top.kind = "script" /\ Top.response = NULL
      BY <1>1, Serving DEF FrameOK
    <2>2. Top.real = NULL /\ ~ Top.diverted
      BY <1>1, <2>1, Serving DEF FrameOK
    <2>3. Kept(Top, SentTexts, buffers)
      BY <1>1, <1>2 DEF PrintedKept
    <2> QED BY <1>1, <2>1, <2>2, <2>3 DEF Kept
  <1>5. f \in Frame
    BY <1>2, <1>3 DEF Frame
  <1>6. /\ f.step = "running" /\ f.out = new /\ f.previous = stdout
        /\ f.kind = "script" /\ f.real = NULL /\ f.printed = {}
        /\ ~ f.diverted
    BY <1>2, <1>4 DEF Frame
  <1>7. Replace(f)
    BY <1>1
  <1> HIDE DEF f
  <1>8. Diverts(f, stdout')
    BY <1>1, <1>6 DEF Diverts, Held
  <1>9. \A o : Returns(Top, stdout, o) => Returns(f, stdout', o)
    BY <1>1, <1>4, <1>6 DEF Returns, Left, IsScript
  <1>10. Chain'
    <2>1. stdout' \in Buffer'
      BY DEF OutputInv, TypeOK
    <2> QED BY <1>1, <1>3, <1>5, <1>7, <1>8, <1>9, <2>1, ChainGoesOn
  <1>11. PrintedKept'
    <2>1. SentTexts' = SentTexts
      BY <1>1 DEF SentTexts
    <2>2. Kept(f, SentTexts', buffers')
      BY <1>6 DEF Kept
    <2>3. \A k \in 1..Len(stack) - 1 : IsScript(stack[k]) => Passed(stack[k].out)
      <3> SUFFICES ASSUME NEW k \in 1..Len(stack) - 1, IsScript(stack[k])
                   PROVE  buffers'[stack[k].out] = buffers[stack[k].out]
        BY DEF Passed
      <3>1. k \in 1..Len(stack)
        BY <1>2, Typed DEF OutputInv
      <3>2. stack[k].out \in Buffer
        BY <1>1, <3>1, OutIsNoResponse
      <3> QED BY <1>3, <3>2
    <2> QED BY <1>1, <1>5, <1>7, <2>1, <2>2, <2>3, KeptGoesOn
  <1> QED BY <1>10, <1>11

LEMMA StartResponseSent ==
    ASSUME SentInv, StartResponse, OutputInv'
    PROVE  Chain' /\ PrintedKept'
  <1>0. PICK out \in {Top.response, Len(buffers) + 1} \ {NULL} :
           StartsWith(out)
    BY DEF StartResponse, StartsWith, Started
  <1> DEFINE f == Started(Top, out)
  <1>1. /\ OutputInv /\ Chain /\ PrintedKept
        /\ stack # <<>> /\ Top.step = "running"
        /\ buffers' = IF out \in Buffer THEN buffers ELSE Append(buffers, <<>>)
        /\ stdout' = out /\ Replace(f) /\ UNCHANGED sent
    BY <1>0 DEF SentInv, StartsWith, Running
  <1>2. /\ buffers \in Seq(Seq(Text)) /\ Len(buffers) \in Nat
        /\ stdout \in 1..Len(buffers) /\ Top \in Frame
        /\ Len(stack) \in DOMAIN stack /\ Top = stack[Len(stack)]
    BY <1>1, Typed DEF OutputInv, TypeOK, Buffer
  <1>3. Buffer \subseteq Buffer' /\ \A b \in Buffer : buffers'[b] = buffers[b]
    <2>1. CASE out \in Buffer
      BY <1>1, <2>1 DEF Buffer
    <2>2. CASE out \notin Buffer
      <3>1. <<>> \in Seq(Text)
        BY EmptySeq
      <3>2. buffers' = Append(buffers, <<>>)
        BY <1>1, <2>2
      <3>3. /\ Len(buffers') = Len(buffers) + 1
            /\ \A b \in 1..Len(buffers) : buffers'[b] = buffers[b]
        BY <1>2, <3>1, <3>2, AppendProperties
      <3> QED BY <1>2, <3>3 DEF Buffer
    <2> QED BY <2>1, <2>2
  <1>4. out \in Nat /\ stdout \in Nat
    <2>1. Top.response # NULL => Top.response \in Nat
      BY <1>2 DEF Frame
    <2> QED BY <1>0, <1>2, <2>1
  <1>5. stdout' \in Buffer'
    BY DEF OutputInv, TypeOK
  <1>6. f \in Frame
    BY <1>2, <1>4 DEF Frame, Started
  <1>7. /\ f.step = Top.step /\ f.kind = Top.kind /\ f.out = Top.out
        /\ f.previous = Top.previous /\ f.response = out /\ f.real = stdout
        /\ f.diverted /\ f.printed = Top.printed
        /\ f.disturbed = (Top.disturbed \/ Top.diverted)
    BY <1>2 DEF Frame, Started
  <1>8. Replace(f)
    BY <1>1
  <1> HIDE DEF f
  <1>9. stdout # NULL /\ IsScript(f) = IsScript(Top)
    BY <1>2, <1>7, NullIsNothing DEF IsScript
  <1>10. Diverts(Top, stdout) => Diverts(f, stdout')
    BY <1>1, <1>7, <1>9 DEF Diverts, Held
  <1>11. \A o : Returns(Top, stdout, o) => Returns(f, stdout', o)
    BY <1>1, <1>7, <1>9 DEF Returns, Left
  <1>12. Chain'
    BY <1>1, <1>3, <1>5, <1>6, <1>8, <1>10, <1>11, ChainGoesOn
  <1>13. \A k \in 1..Len(stack) : IsScript(stack[k]) => Passed(stack[k].out)
    <2> SUFFICES ASSUME NEW k \in 1..Len(stack), IsScript(stack[k])
                 PROVE  buffers'[stack[k].out] = buffers[stack[k].out]
      BY DEF Passed
    <2>1. stack[k].out \in Buffer
      BY <1>1, OutIsNoResponse
    <2> QED BY <1>3, <2>1
  <1>14. PrintedKept'
    <2>1. SentTexts' = SentTexts
      BY <1>1 DEF SentTexts
    <2>2. Len(stack) \in 1..Len(stack) /\ Len(stack) \in Nat
      BY <1>1, <1>2, Typed DEF OutputInv
    <2>3. Kept(Top, SentTexts, buffers) /\ (IsScript(Top) => Passed(Top.out))
      BY <1>2, <1>13, <2>2, <1>1 DEF PrintedKept
    <2>4. Kept(f, SentTexts', buffers')
      <3>1. Carries(Top, f)
        BY <1>1, <1>7 DEF Carries
      <3> QED BY <2>1, <2>3, <3>1, KeptOn
    <2>5. \A k \in 1..Len(stack) - 1 : IsScript(stack[k]) => Passed(stack[k].out)
      BY <1>13, <2>2
    <2> QED BY <1>1, <1>6, <1>8, <2>1, <2>4, <2>5, KeptGoesOn
  <1> QED BY <1>12, <1>14

(* Emptying the response's buffer takes nothing from a script's.           *)
LEMMA ResponseEmptied ==
    ASSUME OutputInv, stack # <<>>, Top.response # NULL,
           buffers' = [buffers EXCEPT ![Top.response] = <<>>]
    PROVE  /\ \A k \in 1..Len(stack) : IsScript(stack[k]) => Passed(stack[k].out)
           /\ Buffer' = Buffer /\ Top.response \in Buffer
  <1>1. Top.response \in Buffer
    <2>1. Top = stack[Len(stack)] /\ Len(stack) \in 1..Len(stack)
      BY Typed DEF OutputInv
    <2>2. Top.response \in Owned(Top)
      BY DEF Owned
    <2> QED BY <2>1, <2>2, LiveAt DEF OutputInv
  <1>2. Buffer' = Buffer
    <2> SUFFICES ASSUME NEW b \in Buffer, b = Top.response PROVE Buffer' = Buffer
      BY <1>1
    <2>1. TypeOK /\ buffers' = [buffers EXCEPT ![b] = <<>>]
      BY DEF OutputInv
    <2> QED BY <2>1, BufferEmptied
  <1>3. ASSUME NEW k \in 1..Len(stack), IsScript(stack[k])
        PROVE  Passed(stack[k].out)
    <2>1. stack[k].out \in Buffer /\ stack[k].out # Top.response
      BY <1>3, OutIsNoResponse
    <2>2. DOMAIN buffers = Buffer
      BY Typed DEF OutputInv
    <2>3. buffers'[stack[k].out] = buffers[stack[k].out]
      BY <2>1, <2>2
    <2> QED BY <2>3 DEF Passed
  <1> QED BY <1>1, <1>2, <1>3

LEMMA ResponseTextsGrow ==
    ASSUME OutputInv, stack # <<>>, Top.response # NULL, Flush
    PROVE  SentTexts \subseteq SentTexts'
  <1>1. Send(buffers[Top.response]) /\ TypeOK
        /\ buffers' = [buffers EXCEPT ![Top.response] = <<>>]
    BY DEF Flush, OutputInv
  <1>2. Top.response \in Buffer
    BY <1>1, ResponseEmptied
  <1>3. buffers[Top.response] \in Seq(Text) /\ request \in 1..MaxRuns
    BY <1>1, <1>2, Typed, Serving
  <1> QED BY <1>1, <1>3, SentTextsGrow

LEMMA FlushResponseSent ==
    ASSUME SentInv, FlushResponse
    PROVE  Chain' /\ PrintedKept'
  <1>1. /\ OutputInv /\ Chain /\ PrintedKept
        /\ stack # <<>> /\ Top.response # NULL /\ Flush
        /\ buffers' = [buffers EXCEPT ![Top.response] = <<>>]
        /\ UNCHANGED <<stack, stdout>>
    BY DEF SentInv, FlushResponse, Running, Flush
  <1>2. /\ \A k \in 1..Len(stack) : IsScript(stack[k]) => Passed(stack[k].out)
        /\ Buffer' = Buffer
    BY <1>1, ResponseEmptied
  <1>3. SentTexts \subseteq SentTexts'
    BY <1>1, ResponseTextsGrow
  <1> QED BY <1>1, <1>2, <1>3, ChainSame, KeptSame

LEMMA ClearResponseSent ==
    ASSUME SentInv, ClearResponse
    PROVE  Chain' /\ PrintedKept'
  <1>1. /\ OutputInv /\ Chain /\ PrintedKept
        /\ stack # <<>> /\ Top.response # NULL
        /\ buffers' = [buffers EXCEPT ![Top.response] = <<>>]
        /\ UNCHANGED <<stack, stdout, sent>>
    BY DEF SentInv, ClearResponse, Running
  <1>2. /\ \A k \in 1..Len(stack) : IsScript(stack[k]) => Passed(stack[k].out)
        /\ Buffer' = Buffer
    BY <1>1, ResponseEmptied
  <1>3. SentTexts' = SentTexts
    BY <1>1 DEF SentTexts
  <1> QED BY <1>1, <1>2, <1>3, ChainSame, KeptSame

LEMMA RestoreResponseSent ==
    ASSUME SentInv, RestoreResponse, OutputInv'
    PROVE  Chain' /\ PrintedKept'
  <1> DEFINE f == [Top EXCEPT !.diverted = FALSE]
  <1>1. /\ OutputInv /\ Chain /\ PrintedKept
        /\ stack # <<>> /\ Top.response # NULL /\ Flush
        /\ buffers' = [buffers EXCEPT ![Top.response] = <<>>]
        /\ stdout' = Top.real /\ Replace(f)
    BY DEF SentInv, RestoreResponse, Running, Flush
  <1>2. /\ Top \in Frame /\ Len(stack) \in DOMAIN stack /\ Top = stack[Len(stack)]
        /\ Len(stack) \in Nat /\ DOMAIN stack = 1..Len(stack)
    BY <1>1, Typed DEF OutputInv
  <1>3. Top.response # NULL /\ Top.real # NULL
    BY <1>1, Serving DEF FrameOK
  <1>4. /\ \A k \in 1..Len(stack) : IsScript(stack[k]) => Passed(stack[k].out)
        /\ Buffer' = Buffer /\ stdout' \in Buffer'
    BY <1>1, <1>3, ResponseEmptied DEF OutputInv, TypeOK
  <1>5. SentTexts \subseteq SentTexts'
    BY <1>1, <1>3, ResponseTextsGrow
  <1>6. f \in Frame
    BY <1>2 DEF Frame
  <1>7. /\ f.step = Top.step /\ f.kind = Top.kind /\ f.out = Top.out
        /\ f.previous = Top.previous /\ f.real = Top.real /\ ~ f.diverted
        /\ f.printed = Top.printed /\ f.disturbed = Top.disturbed
    BY <1>2 DEF Frame
  <1>8. Replace(f)
    BY <1>1
  <1> HIDE DEF f
  <1>9. IsScript(f) = IsScript(Top)
    BY <1>7 DEF IsScript
  <1>10. Diverts(Top, stdout) => Diverts(f, stdout')
    BY <1>1, <1>3, <1>7, <1>9 DEF Diverts, Held
  <1>11. \A o : Returns(Top, stdout, o) => Returns(f, stdout', o)
    BY <1>1, <1>3, <1>7, <1>9 DEF Returns, Left
  <1>12. Chain'
    BY <1>1, <1>4, <1>6, <1>8, <1>10, <1>11, ChainGoesOn
  <1>13. PrintedKept'
    <2>1. Kept(Top, SentTexts, buffers) /\ (IsScript(Top) => Passed(Top.out))
      BY <1>1, <1>2, <1>4 DEF PrintedKept
    <2>2. Kept(f, SentTexts', buffers')
      <3>1. Carries(Top, f)
        BY <1>7 DEF Carries
      <3> QED BY <1>5, <2>1, <3>1, KeptOn
    <2>3. \A k \in 1..Len(stack) - 1 : IsScript(stack[k]) => Passed(stack[k].out)
      BY <1>2, <1>4
    <2> QED BY <1>1, <1>5, <1>6, <1>8, <2>2, <2>3, KeptGoesOn
  <1> QED BY <1>12, <1>13

LEMMA RubyPrintsSent ==
    ASSUME SentInv, RubyPrints, OutputInv'
    PROVE  Chain' /\ PrintedKept'
  <1> DEFINE text == [from |-> request, n |-> prints', trace |-> NULL]
             f == IF Top.diverted THEN Top
                  ELSE [Top EXCEPT !.printed = @ \union {text}]
             longer == Append(buffers[stdout], text)
  <1>1. /\ OutputInv /\ Chain /\ PrintedKept
        /\ stack # <<>> /\ Top.step = "running" /\ prints < MaxPrints
        /\ prints' = prints + 1 /\ Replace(f)
        /\ buffers' = [buffers EXCEPT ![stdout] = longer]
        /\ UNCHANGED <<stdout, sent, request>>
    BY DEF SentInv, RubyPrints, Running
  <1>2. /\ Top \in Frame /\ Len(stack) \in DOMAIN stack /\ Top = stack[Len(stack)]
        /\ Len(stack) \in Nat /\ DOMAIN stack = 1..Len(stack)
        /\ DOMAIN buffers = Buffer /\ stdout \in Buffer
        /\ buffers[stdout] \in Seq(Text)
    <2>1. stdout \in Buffer
      BY <1>1 DEF OutputInv, TypeOK
    <2> QED BY <1>1, <2>1, Typed DEF OutputInv
  <1>3. text \in Text
    <2>1. request \in 1..MaxRuns
      BY <1>1, Serving
    <2>2. prints' \in 0..MaxPrints
      BY DEF OutputInv, TypeOK
    <2> QED BY <2>1, <2>2 DEF Text
  <1> HIDE DEF text
  <1>4. /\ DOMAIN buffers[stdout] = 1..Len(buffers[stdout])
        /\ Len(buffers[stdout]) \in Nat
        /\ DOMAIN longer = 1..Len(buffers[stdout]) + 1
        /\ \A k \in 1..Len(buffers[stdout]) : longer[k] = buffers[stdout][k]
        /\ longer[Len(buffers[stdout]) + 1] = text /\ longer \in Seq(Text)
    <2>1. /\ longer \in Seq(Text) /\ Len(longer) = Len(buffers[stdout]) + 1
          /\ \A k \in 1..Len(buffers[stdout]) : longer[k] = buffers[stdout][k]
          /\ longer[Len(buffers[stdout]) + 1] = text
      BY <1>2, <1>3, AppendProperties
    <2> QED BY <1>2, <2>1, LenProperties
  <1> HIDE DEF longer
  <1>5. \A b \in Buffer : buffers'[b] = IF b = stdout THEN longer ELSE buffers[b]
    BY <1>1, <1>2
  <1>6. \A k \in 1..Len(stack) : IsScript(stack[k]) => Passed(stack[k].out)
    <2> SUFFICES ASSUME NEW b \in Buffer PROVE Passed(b)
      BY <1>1, OutIsNoResponse
    <2>1. CASE b = stdout
      <3>1. \A i \in DOMAIN buffers[b] :
               i \in DOMAIN buffers'[b] /\ buffers'[b][i] = buffers[b][i]
        BY <1>4, <1>5, <2>1
      <3> QED BY <3>1 DEF Passed
    <2>2. CASE b # stdout
      BY <1>5, <2>2 DEF Passed
    <2> QED BY <2>1, <2>2
  <1>7. f \in Frame
    BY <1>2, <1>3 DEF Frame
  <1>8. /\ f.step = Top.step /\ f.kind = Top.kind /\ f.out = Top.out
        /\ f.previous = Top.previous /\ f.response = Top.response
        /\ f.real = Top.real /\ f.diverted = Top.diverted
        /\ f.disturbed = Top.disturbed
        /\ Top.diverted => f.printed = Top.printed
        /\ ~ Top.diverted => f.printed = Top.printed \union {text}
    BY <1>2 DEF Frame
  <1>9. Replace(f)
    BY <1>1
  <1> HIDE DEF f
  <1>10. IsScript(f) = IsScript(Top)
    BY <1>8 DEF IsScript
  <1>11. SentTexts' = SentTexts
    BY <1>1 DEF SentTexts
  <1>12. Buffer' = Buffer
    <2>1. buffers \in Seq(Seq(Text)) /\ stdout \in 1..Len(buffers)
      BY <1>1, <1>2 DEF OutputInv, TypeOK, Buffer
    <2>2. Len(buffers') = Len(buffers)
      BY <1>1, <1>4, <2>1, ExceptSeq
    <2> QED BY <2>2 DEF Buffer
  <1>13. Chain'
    <2>1. Diverts(Top, stdout) => Diverts(f, stdout')
      BY <1>1, <1>8, <1>10 DEF Diverts, Held
    <2>2. \A o : Returns(Top, stdout, o) => Returns(f, stdout', o)
      BY <1>1, <1>8, <1>10 DEF Returns, Left
    <2>3. stdout' \in Buffer' /\ Buffer \subseteq Buffer'
      BY <1>1, <1>2, <1>12
    <2> QED BY <1>1, <1>7, <1>9, <2>1, <2>2, <2>3, ChainGoesOn
  <1>14. Kept(f, SentTexts', buffers')
    <2>1. Kept(Top, SentTexts, buffers) /\ (IsScript(Top) => Passed(Top.out))
      BY <1>1, <1>2, <1>6 DEF PrintedKept
    <2>2. Kept(Top, SentTexts', buffers')
      BY <1>11, <2>1, KeptOn, CarriesItself
    <2>3. ASSUME IsScript(f), ~ f.disturbed, NEW t \in f.printed
          PROVE  \/ t \in SentTexts'
                 \/ \E i \in DOMAIN buffers'[f.out] : buffers'[f.out][i] = t
      <3>1. CASE t \in Top.printed
        BY <1>8, <1>10, <2>2, <2>3, <3>1 DEF Kept
      <3>2. CASE ~ Top.diverted /\ t = text
        <4>1. PICK at \in [DOMAIN stack -> Buffer] : GivesBack(at)
          BY <1>1 DEF Chain
        <4>2. Diverts(Top, stdout)
          BY <1>1, <1>2, <4>1 DEF GivesBack
        <4>3. stdout = Top.out
          BY <1>8, <1>10, <2>3, <3>2, <4>2 DEF Diverts, Held
        <4>4. f.out = stdout
          BY <1>8, <4>3
        <4>5. /\ Len(buffers[stdout]) + 1 \in DOMAIN longer
              /\ buffers'[stdout] = longer
          BY <1>2, <1>4, <1>5
        <4> QED BY <1>4, <3>2, <4>4, <4>5
      <3> QED BY <1>8, <2>3, <3>1, <3>2
    <2> QED BY <1>1, <1>8, <2>3 DEF Kept
  <1>15. PrintedKept'
    <2>1. \A k \in 1..Len(stack) - 1 : IsScript(stack[k]) => Passed(stack[k].out)
      BY <1>2, <1>6
    <2> QED BY <1>1, <1>7, <1>9, <1>11, <1>14, <2>1, KeptGoesOn
  <1> QED BY <1>13, <1>15

LEMMA BeginRunSent ==
    ASSUME SentInv, NEW kind \in Kind, BeginRun(kind)
    PROVE  Chain' /\ PrintedKept'
  <1> DEFINE n == Len(stack)
             g == [kind |-> kind,
                   step |-> IF kind = "script" THEN "setup" ELSE "running",
                   out |-> NULL, previous |-> NULL,
                   response |-> NULL, real |-> NULL, diverted |-> FALSE,
                   printed |-> {}, disturbed |-> FALSE]
  <1>1. /\ OutputInv /\ Chain /\ PrintedKept
        /\ stack' = Append(stack, g) /\ UNCHANGED <<stdout, buffers, sent>>
    BY DEF SentInv, BeginRun
  <1>2. /\ g \in Frame /\ ~ IsScript(g) /\ g.real = NULL /\ ~ g.diverted
        /\ g.printed = {} /\ ~ g.disturbed
    <2>1. g \in Frame
      BY DEF Frame, Kind
    <2>2. ~ IsScript(g)
      BY DEF IsScript, Kind
    <2> QED BY <2>1, <2>2
  <1> HIDE DEF g
  <1>3. /\ n \in Nat /\ DOMAIN stack = 1..n /\ stack \in Seq(Frame)
        /\ stdout \in Buffer /\ (stack # <<>> => n >= 1)
    BY <1>1, Typed DEF OutputInv, TypeOK
  <1>0. n = Len(stack)
    OBVIOUS
  <1> HIDE DEF n
  <1>4. /\ DOMAIN stack' = 1..n + 1 /\ Len(stack') = n + 1 /\ stack'[n + 1] = g
        /\ \A k \in 1..n : stack'[k] = stack[k]
    <2>1. /\ stack' \in Seq(Frame) /\ Len(stack') = n + 1
          /\ stack'[n + 1] = g
          /\ \A k \in 1..n : stack'[k] = stack[k]
      BY <1>0, <1>1, <1>2, <1>3, AppendProperties
    <2> QED BY <2>1, LenProperties
  <1>5. PICK at \in [1..n -> Buffer] : GivesBack(at)
    BY <1>1, <1>3 DEF Chain
  <1>6. /\ n >= 1 => at[n] = stdout
        /\ \A k \in 1..n : /\ Diverts(stack[k], at[k])
                           /\ k > 1 => Returns(stack[k], at[k], at[k - 1])
    <2>1. n >= 1 => stack # <<>>
      BY <1>0, <1>3, EmptySeq
    <2> QED BY <1>0, <1>3, <1>5, <2>1 DEF GivesBack
  <1>7. PICK now \in [1..n + 1 -> Buffer] :
           now[n + 1] = stdout /\ \A k \in 1..n : now[k] = at[k]
    <2> USE <1>3
    <2>1. [k \in 1..n + 1 |-> IF k = n + 1 THEN stdout ELSE at[k]]
            \in [1..n + 1 -> Buffer]
      OBVIOUS
    <2> WITNESS [k \in 1..n + 1 |-> IF k = n + 1 THEN stdout ELSE at[k]]
                  \in [1..n + 1 -> Buffer]
    <2> QED OBVIOUS
  <1>8. ASSUME NEW k \in 1..n + 1
        PROVE  /\ Diverts(stack'[k], now[k])
               /\ k > 1 => Returns(stack'[k], now[k], now[k - 1])
    <2>1. CASE k = n + 1
      <3>1. k > 1 => now[k - 1] = stdout
        <4>1. k > 1 => k - 1 \in 1..n /\ k - 1 = n /\ n >= 1
          BY <1>3, <2>1
        <4> QED BY <1>6, <1>7, <4>1
      <3>2. stack'[k] = g /\ now[k] = stdout
        BY <1>4, <1>7, <2>1
      <3> QED BY <1>2, <3>1, <3>2 DEF Diverts, Returns, Left
    <2>2. CASE k # n + 1
      <3>1. k \in 1..n /\ (k > 1 => k - 1 \in 1..n)
        BY <1>3, <2>2
      <3>2. stack'[k] = stack[k] /\ now[k] = at[k] /\ (k > 1 => now[k - 1] = at[k - 1])
        BY <1>4, <1>7, <3>1
      <3> QED BY <1>6, <3>1, <3>2
    <2> QED BY <2>1, <2>2
  <1>9. Chain'
    <2>1. GivesBack(now)'
      BY <1>1, <1>4, <1>7, <1>8 DEF GivesBack
    <2> QED BY <1>1, <1>4, <2>1 DEF Chain, Buffer
  <1>10. PrintedKept'
    <2>1. SentTexts' = SentTexts
      BY <1>1 DEF SentTexts
    <2> SUFFICES ASSUME NEW k \in 1..n + 1
                 PROVE  Kept(stack'[k], SentTexts, buffers)
      BY <1>1, <1>4, <2>1 DEF PrintedKept
    <2>2. CASE k = n + 1
      BY <1>2, <1>4, <2>2 DEF Kept
    <2>3. CASE k # n + 1
      <3>1. k \in 1..n
        BY <1>3, <2>3
      <3> QED BY <1>1, <1>3, <1>4, <3>1 DEF PrintedKept
    <2> QED BY <2>2, <2>3
  <1> QED BY <1>9, <1>10

(* Nothing runs.                                                           *)
LEMMA NothingKept ==
    ASSUME stack = <<>>
    PROVE  Chain /\ PrintedKept
  <1>1. DOMAIN stack = {}
    OBVIOUS
  <1>2. \E at \in [{} -> Buffer] : TRUE
    <2>1. [k \in {} |-> k] \in [{} -> Buffer]
      OBVIOUS
    <2> QED BY <2>1
  <1>3. Chain
    BY <1>1, <1>2 DEF Chain, GivesBack
  <1> QED BY <1>1, <1>3 DEF PrintedKept

LEMMA SentInitial == Init => SentInv
  BY Initial, NothingKept DEF Init, SentInv

LEMMA SentStep == SentInv /\ [Next]_vars => SentInv'
  <1> SUFFICES ASSUME SentInv, [Next]_vars PROVE Chain' /\ PrintedKept'
    BY Step DEF SentInv
  <1>0. OutputInv /\ OutputInv'
    BY Step DEF SentInv
  <1>1. CASE NewChild
    <2>1. stack' = <<>>
      BY <1>1 DEF NewChild
    <2>2. (stack = <<>> => Chain /\ PrintedKept)'
      BY NothingKept, PTL
    <2> QED BY <2>1, <2>2
  <1>2. ASSUME NEW kind \in Kind, BeginRun(kind) PROVE Chain' /\ PrintedKept'
    BY <1>2, BeginRunSent
  <1>3. CASE SetupRunner
    BY <1>0, <1>3, SetupRunnerSent
  <1>4. CASE SetupFails
    BY <1>4, SetupFailsSent
  <1>5. CASE RubyPrints
    BY <1>0, <1>5, RubyPrintsSent
  <1>6. CASE StartResponse
    BY <1>0, <1>6, StartResponseSent
  <1>7. CASE FlushResponse
    BY <1>7, FlushResponseSent
  <1>8. CASE ClearResponse
    BY <1>8, ClearResponseSent
  <1>9. CASE RestoreResponse
    BY <1>0, <1>9, RestoreResponseSent
  <1>10. CASE ScriptReturns
    BY <1>10, ScriptReturnsSent
  <1>11. CASE HandlerReturns
    BY <1>11, HandlerReturnsSent
  <1>12. ASSUME NEW e \in Exception, ScriptRaises(e) PROVE Chain' /\ PrintedKept'
    BY <1>12, ScriptRaisesSent
  <1>13. ASSUME NEW e \in Exception, HandlerRaises(e) PROVE Chain' /\ PrintedKept'
    BY <1>13, HandlerRaisesSent
  <1>14. CASE UNCHANGED vars
    <2>1. UNCHANGED <<stdout, buffers, stack, sent>>
      BY <1>14 DEF vars
    <2>2. Chain'
      BY <2>1, ChainSame DEF SentInv, Buffer
    <2>3. SentTexts' = SentTexts
      BY <2>1 DEF SentTexts
    <2>4. PrintedKept'
      BY <2>1, <2>3 DEF SentInv, PrintedKept
    <2> QED BY <2>2, <2>4
  <1> QED BY <1>1, <1>2, <1>3, <1>4, <1>5, <1>6, <1>7, <1>8, <1>9, <1>10, <1>11,
             <1>12, <1>13, <1>14 DEF Next

LEMMA ReplacedLength ==
    ASSUME stack \in Seq(Frame), stack # <<>>, NEW f, Replace(f)
    PROVE  Len(stack') = Len(stack)
  <1> DEFINE S == Frame \union {f}
  <1>1. Front(stack) \in Seq(Frame) /\ Len(Front(stack)) = Len(stack) - 1
        /\ Len(stack) \in Nat
    BY FrontLast
  <1>2. Front(stack) \in Seq(S) /\ f \in S
    BY <1>1, SeqMonotonic
  <1> HIDE DEF S
  <1>3. Len(stack') = Len(Front(stack)) + 1
    BY <1>2, AppendProperties DEF Replace
  <1> QED BY <1>1, <1>3

LEMMA BegunLength ==
    ASSUME stack \in Seq(Frame), NEW kind, BeginRun(kind)
    PROVE  Len(stack') = Len(stack) + 1
  <1> SUFFICES ASSUME NEW g, stack' = Append(stack, g)
               PROVE  Len(stack') = Len(stack) + 1
    BY DEF BeginRun
  <1> DEFINE S == Frame \union {g}
  <1>1. stack \in Seq(S) /\ g \in S
    BY SeqMonotonic
  <1> HIDE DEF S
  <1> QED BY <1>1, AppendProperties

(* A step that ends a script.                                              *)
LEMMA ScriptEndsSent ==
    ASSUME SentInv, Next, Ends, Top.kind = "script", ~ Top.disturbed
    PROVE  AllSent(Top)
  <1>1. OutputInv /\ Len(stack) \in Nat /\ stack \in Seq(Frame)
    BY Typed DEF SentInv, OutputInv, TypeOK
  <1>2. ~ (Len(stack) < Len(stack))
    BY <1>1
  <1>3. ~ UNCHANGED stack
    BY <1>2 DEF Ends
  <1>4. \A f : stack # <<>> => ~ Replace(f)
    BY <1>1, <1>2, ReplacedLength DEF Ends
  <1>5. CASE SetupFails
    BY <1>5, SetupFailsSent DEF AllSent
  <1>6. CASE ScriptReturns
    BY <1>6, ScriptReturnsSent
  <1>7. ASSUME NEW e \in Exception, ScriptRaises(e) PROVE AllSent(Top)
    BY <1>7, ScriptRaisesSent
  <1>8. ~ HandlerReturns /\ \A e \in Exception : ~ HandlerRaises(e)
    BY DEF HandlerReturns, HandlerRaises
  <1>9. ~ NewChild /\ ~ FlushResponse /\ ~ ClearResponse
    BY <1>3 DEF NewChild, FlushResponse, ClearResponse
  <1>10. \A kind \in Kind : ~ BeginRun(kind)
    <2> SUFFICES ASSUME NEW kind \in Kind, BeginRun(kind) PROVE FALSE
      OBVIOUS
    <2>1. Len(stack') = Len(stack) + 1
      BY <1>1, BegunLength
    <2> QED BY <1>1, <2>1 DEF Ends
  <1>11. ~ SetupRunner /\ ~ RubyPrints
    BY <1>4 DEF SetupRunner, Setup, RubyPrints, Running
  <1>12. ~ StartResponse /\ ~ RestoreResponse
    BY <1>4 DEF StartResponse, RestoreResponse, Running
  <1> QED BY <1>5, <1>6, <1>7, <1>8, <1>9, <1>10, <1>11, <1>12 DEF Next

---------------------------------------------------------------------------

(* $stdout is a buffer, the buffers hold texts and the runs on the stack   *)
(* have their fields (common.rb:99-151, response.rb).                      *)
THEOREM OutputTyped == Spec => []TypeOK
  <1>1. OutputInv => TypeOK
    BY DEF OutputInv
  <1> QED BY <1>1, Always, PTL

(* However deep requests nest and however each ends, nothing printed is    *)
(* sent twice (common.rb:135, response.rb:49-65).                          *)
THEOREM PrintedIsSentOnce == Spec => []SentOnce
  <1>1. OutputInv => SentOnce
    BY DEF OutputInv, TextsInv
  <1> QED BY <1>1, Always, PTL

(* Though $stdout outlives requests, a request is sent only what was       *)
(* printed while it was served (common.rb:113-135).                        *)
THEOREM SentWhereItBelongs == Spec => []SentToItsRequest
  <1>1. OutputInv => SentToItsRequest
    BY DEF OutputInv, TextsInv
  <1> QED BY <1>1, Always, PTL

(* What a script prints never lands in the buffer of a run it is nested in *)
(* (common.rb:116-131, response.rb:87-108).                                *)
THEOREM ScriptsPrintInside == Spec => []PrintsStayInside
  <1>1. OutputInv => PrintsStayInside
    <2> SUFFICES ASSUME OutputInv, Running, Top.kind = "script",
                        NEW i \in 1..Len(stack) - 1
                 PROVE  stdout \notin Owned(stack[i])
      BY DEF PrintsStayInside
    <2>1. stack # <<>> /\ Top.step = "running"
      BY DEF Running
    <2>2. IsScript(Top)
      BY <2>1 DEF IsScript
    <2> QED BY <2>1, <2>2, InnerStdout
  <1> QED BY <1>1, Always, PTL

(* Whatever a script flushed, cleared and restored, whatever it nested and *)
(* however that and the script itself ended, all it printed outside its    *)
(* responses has been sent when it ends, unless a script it nested         *)
(* returned, a handler it nested left $stdout diverted or it started a     *)
(* response before it restored the one it had started                      *)
(* (common.rb:112-135, response.rb:87-108).                                *)
THEOREM WhatScriptsPrintIsSent == Spec => UndisturbedOutputSent
  <1>1. SentInv /\ [Next]_vars =>
           [Ends /\ Top.kind = "script" /\ ~ Top.disturbed => AllSent(Top)]_vars
    BY ScriptEndsSent
  <1> QED BY <1>1, SentInitial, SentStep, PTL DEF Spec, UndisturbedOutputSent

===========================================================================
