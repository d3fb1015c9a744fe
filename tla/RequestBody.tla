---------------------------- MODULE RequestBody ----------------------------
(***************************************************************************)
(* How Ruby reads the body of a request (src/src/request.cpp:169-435 and   *)
(* src/src/ruby_request.cpp:441-1030).  The body is one stream, read from  *)
(* the client once; every hook makes its own Apache::Request over it, and  *)
(* each object keeps its own flags, its own copy and its own form.  A      *)
(* block given to content runs between two reads and may itself read, so   *)
(* calls nest.  A byte is its position in the body: what it is matters to  *)
(* readline, which looks for CR LF and loses NULs, and to the form, which  *)
(* is parsed as a C string.  Headers, and what the form's parser makes of  *)
(* its text (module Parameters), are left out.                             *)
(***************************************************************************)
EXTENDS Naturals, FiniteSets, Sequences, SequencesExt

CONSTANTS
    NULL,
    REFUSED,         \* the form of a type that is none, which it names
    Byte,            \* what bytes are told apart: "cr", "lf", "nul", others
    ContentType,     \* the request's type: "form", "encoding", "other", NULL
    Limited,         \* whether max_content_length is not -1
    MaxContentLength,
    MaxBody,         \* bound: bytes of a body
    MaxRequests,     \* bound: Apache::Request objects made
    MaxBlocks,       \* bound: blocks running, one inside the other
    MaxCalls         \* bound: blocks given to content

ASSUME NullIsNoForm == {NULL, REFUSED} \cap Seq(Nat) = {} /\ NULL # REFUSED
ASSUME BoundsAreNats ==
    {MaxContentLength, MaxBody, MaxRequests, MaxBlocks, MaxCalls} \subseteq Nat

VARIABLES
    body,      \* what the client sends, the same throughout
    type,      \* the Content-Type header, the same throughout
    pos,       \* bytes Apache has read from the client
    failed,    \* the connection has failed
    requests,  \* the Apache::Request objects
    blocks,    \* the objects whose content feeds a block, the innermost last
    calls,     \* blocks given to content so far
    got,       \* how often each byte was handed to Ruby by a call that
               \* keeps no copy
    discarded  \* the bytes discard_request_body read

vars == <<body, type, pos, failed, requests, blocks, calls, got, discarded>>

Position == 1..Len(body)
Is(p, byte) == p \in Position /\ body[p] = byte
Span(a, b) == [i \in 1..(b - a) |-> a + i]

(* Position 0 is the NUL form_data puts behind the content.                *)
Request ==
    [setup : BOOLEAN, read : BOOLEAN, content : Seq(0..MaxBody),
     form : Seq(0..MaxBody) \union {NULL, REFUSED},
     error : {NULL, "client", "limit", "type"}]

New == [setup |-> FALSE, read |-> FALSE, content |-> <<>>,
        form |-> NULL, error |-> NULL]

Init ==
    /\ body \in UNION {[1..n -> Byte] : n \in 0..MaxBody}
    /\ type \in ContentType
    /\ pos = 0
    /\ failed = FALSE
    /\ requests = <<New>>
    /\ blocks = <<>>
    /\ calls = 0
    /\ got = [p \in Position |-> 0]
    /\ discarded = {}

---------------------------------------------------------------------------
(* Apache.  get_client_block waits for the client and returns some of the  *)
(* bytes it was asked for, 0 at the end, or -1 once the connection failed. *)

Reads(n) ==
    /\ ~ failed /\ n >= 1 /\ pos + n <= Len(body)
    /\ pos' = pos + n
    /\ UNCHANGED failed

AtEnd ==
    /\ ~ failed /\ pos = Len(body)
    /\ UNCHANGED <<pos, failed>>

Fails ==
    /\ failed' = TRUE
    /\ UNCHANGED pos

(* A loop over get_client_block that ends on what is no byte count.        *)
ReadsUpTo(stop) ==
    /\ stop \in pos..Len(body)
    /\ failed => stop = pos
    /\ pos' = stop
    /\ failed' \in BOOLEAN
    /\ failed \/ stop < Len(body) => failed'

(* Another hook, or prev, main and next of an object.                      *)
MakeRequest ==
    /\ Len(requests) < MaxRequests
    /\ requests' = Append(requests, New)
    /\ UNCHANGED <<body, type, pos, failed, blocks, calls, got, discarded>>

DiscardBody ==
    /\ \E stop \in pos..Len(body) :
          ReadsUpTo(stop) /\ discarded' = discarded \union (pos + 1..stop)
    /\ UNCHANGED <<body, type, requests, blocks, calls, got>>

---------------------------------------------------------------------------

(* setup_client_read.  should_client_block is 0 for a request without a    *)
(* body; its callers go on.                                                *)
SetUp(r) ==
    [r EXCEPT !.setup = TRUE,
              !.error = IF ~ r.setup /\ body = <<>> THEN "client" ELSE @]

(* The head of content: the bytes compared are those of the response, and  *)
(* nothing but the error text comes of it.                                 *)
CheckLimit(r, sent) ==
    [r EXCEPT !.error =
        IF Limited /\ sent > MaxContentLength THEN "limit" ELSE @]

Sent == {0, MaxContentLength + 1}
Prepared(r, sent) == SetUp(CheckLimit(r, sent))

(* Mistake: the copy starts with the body, wherever the stream is.         *)
CollectedAfresh(r, sent) ==
    [Prepared(r, sent) EXCEPT !.read = TRUE, !.content = Span(0, pos')]

(* Mistake: the terminating NUL of the buffer is copied too.               *)
CollectedNul(r, sent) ==
    [Prepared(r, sent) EXCEPT !.read = TRUE, !.content = @ \o Span(pos, pos' + 1)]

(* content without a block reads all that is left.                         *)
Collected(r, sent) ==
    [Prepared(r, sent) EXCEPT !.read = TRUE, !.content = @ \o Span(pos, pos')]

Content(i) ==
    /\ \E stop \in pos..Len(body), sent \in Sent :
          /\ ReadsUpTo(stop)
          /\ requests' = [requests EXCEPT ![i] = Collected(@, sent)]
    /\ UNCHANGED <<body, type, blocks, calls, got, discarded>>

(* content with a block, up to its loop.                                   *)
BeginBlock(i) ==
    /\ Len(blocks) < MaxBlocks /\ calls < MaxCalls
    /\ calls' = calls + 1
    /\ blocks' = Append(blocks, i)
    /\ \E sent \in Sent :
          requests' = [requests EXCEPT ![i] = Prepared(@, sent)]
    /\ UNCHANGED <<body, type, pos, failed, got, discarded>>

Hand(bytes) ==
    got' = [p \in Position |-> got[p] + IF p \in bytes THEN 1 ELSE 0]

(* Mistake: the loop ends on 0 only, and -1 yields an empty string.        *)
EndBlockAtEnd ==
    /\ blocks # <<>>
    /\ AtEnd
    /\ requests' = [requests EXCEPT ![Last(blocks)].read = TRUE]
    /\ blocks' = Front(blocks)
    /\ UNCHANGED <<body, type, calls, got, discarded>>

(* The loop of content: it feeds the block, or ends.                       *)
EndBlock ==
    /\ blocks # <<>>
    /\ AtEnd \/ Fails
    /\ requests' = [requests EXCEPT ![Last(blocks)].read = TRUE]
    /\ blocks' = Front(blocks)
    /\ UNCHANGED <<body, type, calls, got, discarded>>

(* Mistake: what the block is given is collected as well.                  *)
FeedBlockKeeps ==
    \/ /\ blocks # <<>>
       /\ \E n \in 1..MaxBody : Reads(n) /\ Hand(pos + 1 .. pos + n)
       /\ requests' = [requests EXCEPT ![Last(blocks)].content =
                                           @ \o Span(pos, pos')]
       /\ UNCHANGED <<body, type, blocks, calls, discarded>>
    \/ EndBlock

FeedBlock ==
    \/ /\ blocks # <<>>
       /\ \E n \in 1..MaxBody : Reads(n) /\ Hand(pos + 1 .. pos + n)
       /\ UNCHANGED <<body, type, requests, blocks, calls, discarded>>
    \/ EndBlock

(* An exception of the block, or a break, leaves the loop past the flag.   *)
BlockRaises ==
    /\ blocks # <<>>
    /\ blocks' = Front(blocks)
    /\ UNCHANGED <<body, type, pos, failed, requests, calls, got, discarded>>

---------------------------------------------------------------------------
(* readline.  NUL bytes are appended as empty C strings; a LF in front     *)
(* makes the code look at the byte before the string's buffer.             *)

Kept(a, b) == {p \in a + 1 .. b : ~ Is(p, "nul")}

EndsLine(a, b) ==
    /\ b > a /\ Is(b, "lf")
    /\ \E p \in Kept(a, b - 1) : Is(p, "cr") /\ Kept(p, b - 1) = {}

MayEndLine(a, b) == b > a /\ Is(b, "lf") /\ Kept(a, b - 1) = {}

Stream == [pos : 0..MaxBody, failed : BOOLEAN, read : BOOLEAN]

(* Request::read_line takes a stream and its object's flag from s to t.    *)
ReadLineOf(s, t) ==
    \/ s.read /\ t = s
    \/ /\ ~ s.read
       /\ t.pos \in s.pos..Len(body)
       /\ \A b \in s.pos + 1 .. t.pos - 1 : ~ EndsLine(s.pos, b)
       /\ \/ /\ ~ s.failed /\ ~ t.failed /\ ~ t.read
             /\ EndsLine(s.pos, t.pos) \/ MayEndLine(s.pos, t.pos)
          \/ /\ t.read /\ ~ EndsLine(s.pos, t.pos)
             /\ s.failed => t.failed /\ t.pos = s.pos
             /\ ~ t.failed => t.pos = Len(body)

Now(i) == [pos |-> pos, failed |-> failed, read |-> requests[i].read]
LineOf(s, t) == Kept(s.pos, t.pos)

(* A line with the length of another one: bytes are missing, or others     *)
(* that are not the body's follow.                                         *)
CutTo(line, other) ==
    {p \in line : Cardinality({q \in line : q <= p}) <= Cardinality(other)}

(* The effect of a readline that leaves the stream at t.                   *)
LineRead(i, t, bytes) ==
    /\ pos' = t.pos
    /\ failed' = t.failed
    /\ requests' =
         [requests EXCEPT ![i] = IF @.read THEN @
                                 ELSE [SetUp(@) EXCEPT !.read = t.read]]
    /\ Hand(bytes)
    /\ UNCHANGED <<body, type, blocks, calls, discarded>>

(* Mistake: a last line without CR LF is dropped.                          *)
ReadLineWhole(i) ==
    /\ type # "encoding"
    /\ \E t \in Stream :
          /\ ReadLineOf(Now(i), t)
          /\ LineRead(i, t, IF t.read THEN {} ELSE LineOf(Now(i), t))

(* m_read_line.                                                            *)
ReadLine(i) ==
    /\ type # "encoding"
    /\ \E t \in Stream : ReadLineOf(Now(i), t) /\ LineRead(i, t, LineOf(Now(i), t))

(* m_read_line when the type names an encoding reads two lines, one for    *)
(* the text and one for its length, in the order the compiler likes.       *)
ReadEncodedLine(i) ==
    /\ type = "encoding"
    /\ \E t, u \in Stream :
          /\ ReadLineOf(Now(i), t) /\ ReadLineOf(t, u)
          /\ \/ LineRead(i, u, CutTo(LineOf(Now(i), t), LineOf(t, u)))
             \/ LineRead(i, u, CutTo(LineOf(t, u), LineOf(Now(i), t)))

(* Mistake: a short read counts as the last.                               *)
ReadShort(i, n) ==
    /\ ~ requests[i].read
    /\ \E m \in 1..n :
          /\ Reads(m)
          /\ Hand(pos + 1 .. pos + m)
          /\ requests' = [requests EXCEPT ![i].read = m < n]
    /\ UNCHANGED <<body, type, blocks, calls, discarded>>

(* m_read: up to n bytes, or nil.                                          *)
Read(i, n) ==
    /\ ~ requests[i].read
    /\ \/ \E m \in 1..n :
             /\ Reads(m)
             /\ Hand(pos + 1 .. pos + m)
             /\ requests' = [requests EXCEPT ![i] = SetUp(@)]
       \/ /\ AtEnd \/ Fails
          /\ requests' = [requests EXCEPT ![i] = [SetUp(@) EXCEPT !.read = TRUE]]
          /\ UNCHANGED got
    /\ UNCHANGED <<body, type, blocks, calls, discarded>>

---------------------------------------------------------------------------

(* Mistake: the NUL is taken for a part of the string.                     *)
CStringWithNul(content) ==
    LET nul == {k \in DOMAIN content : content[k] = 0 \/ Is(content[k], "nul")}
    IN  IF nul = {} THEN content
        ELSE SubSeq(content, 1, CHOOSE k \in nul : \A l \in nul : k <= l)

(* The part of a content in front of its first NUL.                        *)
CString(content) ==
    LET nul == {k \in DOMAIN content : content[k] = 0 \/ Is(content[k], "nul")}
    IN  IF nul = {} THEN content
        ELSE SubSeq(content, 1, (CHOOSE k \in nul : \A l \in nul : k <= l) - 1)

(* The end of form_data: the copy gets its NUL and is parsed.              *)
WithForm(r) ==
    LET text == Append(r.content, 0)
    IN  [r EXCEPT !.content = text, !.form = CString(text)]

(* m_params of an object that has no form yet and a request with a type.   *)
ParseForm(i) ==
    /\ type = "form" /\ requests[i].form = NULL
    /\ \E stop \in pos..Len(body), sent \in Sent :
          /\ ReadsUpTo(stop)
          /\ requests' = [requests EXCEPT ![i] = WithForm(Collected(@, sent))]
    /\ UNCHANGED <<body, type, blocks, calls, got, discarded>>

RefuseForm(i) ==
    /\ type \notin {"form", NULL} /\ requests[i].form = NULL
    /\ requests' = [requests EXCEPT ![i].form = REFUSED,
                                    ![i].error = "type"]
    /\ UNCHANGED <<body, type, pos, failed, blocks, calls, got, discarded>>

Next ==
    \/ MakeRequest \/ DiscardBody
    \/ FeedBlock \/ BlockRaises
    \/ \E i \in DOMAIN requests :
          \/ Content(i) \/ BeginBlock(i)
          \/ ReadLine(i) \/ ReadEncodedLine(i)
          \/ \E n \in 1..MaxBody : Read(i, n)
          \/ ParseForm(i) \/ RefuseForm(i)

Spec == Init /\ [][Next]_vars

(* The loop of content runs whenever the block it feeds has returned.      *)
FairSpec == Spec /\ WF_vars(FeedBlock)

---------------------------------------------------------------------------

(* The objects that keep a copy of a byte.                                 *)
Holders(p) == {i \in DOMAIN requests : p \in ToSet(requests[i].content)}
Reached(p) == got[p] > 0 \/ Holders(p) # {}
HasForm(r) == r.form \notin {NULL, REFUSED}

(* The stream, the objects and the histories have their types.             *)
TypeOK ==
    /\ body \in Seq(Byte) /\ Len(body) <= MaxBody
    /\ type \in ContentType
    /\ pos \in 0..Len(body)
    /\ failed \in BOOLEAN
    /\ requests \in Seq(Request)
    /\ blocks \in Seq(DOMAIN requests)
    /\ calls \in 0..MaxCalls
    /\ got \in [Position -> Nat]
    /\ discarded \subseteq Position

(* However calls, objects and blocks are mixed, a byte of the body reaches *)
(* Ruby one way: handed over once, or kept by one object, never both       *)
(* (request.cpp:226-350).                                                  *)
EveryByteOnce ==
    \A p \in Position :
        /\ got[p] <= 1
        /\ \A i, j \in Holders(p) : i = j
        /\ got[p] > 0 => Holders(p) = {}
        /\ p \in discarded => got[p] = 0 /\ Holders(p) = {}

(* Of what was read, nothing is lost but the NULs of a line, and of lines  *)
(* whose type names an encoding (request.cpp:279-327,                      *)
(* ruby_request.cpp:964-994).                                              *)
NothingLost ==
    \A p \in 1..pos :
        Reached(p) \/ p \in discarded \/ Is(p, "nul") \/ type = "encoding"

(* An object that refuses to read because it has read all hides nothing:   *)
(* the stream is at its end or broken, whoever read it                     *)
(* (request.cpp:273, 281, 331).                                            *)
FlagMeansEnd ==
    \A i \in DOMAIN requests :
        requests[i].read => pos = Len(body) \/ failed

(* The text a form was parsed from is still the copy its object returns,   *)
(* and its NUL stays the last: what is read later never lands behind it    *)
(* (request.cpp:268, 424-427).                                             *)
NulIsLast ==
    \A i \in DOMAIN requests :
        LET r == requests[i]
        IN  \A k \in DOMAIN r.content :
                r.content[k] = 0 <=>
                    k = Len(r.content) /\ HasForm(r)

(* The inductive invariant behind the properties above: what was reached   *)
(* or discarded has been read, and an object has a form when it has read   *)
(* all.                                                                    *)
ReadSoFar ==
    \A p \in Position : Reached(p) \/ p \in discarded => p <= pos

FormMeansRead == \A i \in DOMAIN requests : HasForm(requests[i]) => requests[i].read

BodyInv ==
    /\ TypeOK /\ EveryByteOnce /\ NothingLost /\ FlagMeansEnd /\ NulIsLast
    /\ ReadSoFar /\ FormMeansRead

(* params sees the whole body, or its part in front of a NUL, unless       *)
(* another object or another call took some of it, or the connection       *)
(* failed (request.cpp:379-435).                                           *)
FormIsWhole ==
    \A i \in DOMAIN requests :
        LET r == requests[i]
        IN  /\ HasForm(r) /\ ~ failed
            /\ \A p \in Position : Holders(p) = {i}
            => LET cut == {p \in Position : Is(p, "nul")}
               IN  r.form = Span(0, IF cut = {} THEN Len(body)
                                    ELSE (CHOOSE p \in cut :
                                            \A q \in cut : p <= q) - 1)

(* Bytes reach Ruby in the order of the body: what a call hands over, or   *)
(* an object copies, lies behind all that was handed over or copied before *)
(* (request.cpp:250-268).                                                  *)
InOrder ==
    [][\A p, q \in Position :
          Reached(p) /\ ~ Reached(q) /\ Reached(q)' => p < q]_vars

(* Why: an object alone with all that was read holds it from its first     *)
(* byte on, with the NUL of its form behind, and a form is what its copy   *)
(* is as a C string.                                                       *)
Whole(r) == IF HasForm(r) THEN Append(Span(0, pos), 0) ELSE Span(0, pos)

WholeSoFar ==
    \A i \in DOMAIN requests :
        (\A p \in 1..pos : Holders(p) = {i})
            => requests[i].content = Whole(requests[i])

FormOfCopy ==
    \A i \in DOMAIN requests :
        HasForm(requests[i]) => requests[i].form = CString(requests[i].content)

WholeInv == BodyInv /\ WholeSoFar /\ FormOfCopy

(* A content call that feeds a block ends: every read takes bytes or ends  *)
(* the loop, whatever the blocks inside it read (request.cpp:253-275).     *)
BlocksEnd == (blocks # <<>>) ~> (blocks = <<>>)

===========================================================================
