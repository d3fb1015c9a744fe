------------------------------ MODULE Output ------------------------------
(***************************************************************************)
(* Where the output of Ruby code goes: $stdout of the process, the Runner  *)
(* that diverts it around a script or an RHTML page                        *)
(* (src/src/ruby/modruby/common.rb:99-151), and Apache::Response, which    *)
(* diverts it again (src/src/ruby/modruby/response.rb).  The code of a     *)
(* script or of a framework's handler is the environment: it prints, uses  *)
(* a response, serves another request by an internal redirect, returns or  *)
(* raises.  $stderr and the headers of a response are left out.            *)
(***************************************************************************)
EXTENDS Naturals, Sequences, SequencesExt

CONSTANTS
    NULL,
    MaxRuns,   \* bound: scripts and handlers run
    MaxDepth,  \* bound: of them, nested by internal redirects
    MaxPrints, \* bound: texts printed
    MaxBuffers \* bound: buffers there are when a response is made

ASSUME BoundsAreNats == {MaxRuns, MaxDepth, MaxPrints, MaxBuffers} \subseteq Nat

VARIABLES
    stdout,    \* $stdout: the number of a buffer
    buffers,   \* what each buffer holds; Process is what Ruby starts with
    stack,     \* the scripts and handlers running, the innermost last
    sent,      \* texts sent, each with the request they were sent for
    runs,      \* scripts and handlers run so far
    request,   \* the outermost one running, or the last that ran
    prints     \* texts printed so far

vars == <<stdout, buffers, stack, sent, runs, request, prints>>

Process == 1
Kind == {"script", "handler"}
Exception == {"error", "termination"}
ASSUME NullIsNothing == NULL \notin Nat /\ NULL \notin Exception
Buffer == 1..Len(buffers)
(* A text is printed by a request; n is 0 for the trace of an exception.   *)
Text == [from : 1..MaxRuns, n : 0..MaxPrints, trace : Exception \union {NULL}]
Frame == [kind : Kind, step : {"setup", "running"},
          out : Nat \union {NULL}, previous : Nat \union {NULL},
          response : Nat \union {NULL}, real : Nat \union {NULL},
          diverted : BOOLEAN, printed : SUBSET Text, disturbed : BOOLEAN]

Top == Last(stack)
Running == stack # <<>> /\ Top.step = "running"
Replace(f) == stack' = Append(Front(stack), f)

Send(texts) == sent' = sent \o [i \in DOMAIN texts |-> <<request, texts[i]>>]
TraceOf(exception) == [from |-> request, n |-> 0, trace |-> exception]

---------------------------------------------------------------------------

Init ==
    /\ stdout = Process
    /\ buffers = << <<>> >>
    /\ stack = <<>>
    /\ sent = <<>>
    /\ runs = 0
    /\ request = 0
    /\ prints = 0

(* Apache, or an internal redirect of the code running, serves a request.  *)
BeginRun(kind) ==
    /\ stack = <<>> \/ Running
    /\ runs < MaxRuns /\ Len(stack) < MaxDepth
    /\ runs' = runs + 1
    /\ request' = IF stack = <<>> THEN runs' ELSE request
    /\ stack' = Append(stack,
                  [kind |-> kind,
                   step |-> IF kind = "script" THEN "setup" ELSE "running",
                   out |-> NULL, previous |-> NULL,
                   response |-> NULL, real |-> NULL, diverted |-> FALSE,
                   printed |-> {}, disturbed |-> FALSE])
    /\ UNCHANGED <<stdout, buffers, sent, prints>>

Disturbed(f, disturbs) == [f EXCEPT !.disturbed = @ \/ disturbs]

(* The run ends and leaves $stdout as "left"; "disturbs" is the history of *)
(* the run it is nested in.                                                *)
EndRun(left, disturbs) ==
    /\ stdout' = left
    /\ stack' = LET outer == Front(stack)
                IN  IF outer = <<>> THEN outer
                    ELSE Append(Front(outer), Disturbed(Last(outer), disturbs))
    /\ UNCHANGED <<runs, request, prints>>

Setup == stack # <<>> /\ Top.step = "setup"

(* Mistake: a buffer left in $stdout is taken over.                        *)
SetupRunnerReuses ==
    /\ Setup
    /\ LET out == IF stdout = Process THEN Len(buffers) + 1 ELSE stdout
       IN  /\ buffers' = IF out \in Buffer THEN buffers ELSE Append(buffers, <<>>)
           /\ stdout' = out
           /\ Replace([Top EXCEPT !.step = "running", !.out = out,
                                  !.previous = stdout])
    /\ UNCHANGED <<sent, runs, request, prints>>

(* Runner#setup up to the yield.                                           *)
SetupRunner ==
    /\ Setup
    /\ buffers' = Append(buffers, <<>>)
    /\ stdout' = Len(buffers')
    /\ Replace([Top EXCEPT !.step = "running", !.out = Len(buffers'),
                           !.previous = stdout])
    /\ UNCHANGED <<sent, runs, request, prints>>

(* Mistake: the assignment of nil does not raise.                          *)
SetupFailsNil ==
    /\ Setup
    /\ Send(<<TraceOf("error"), TraceOf("error")>>)
    /\ EndRun(Top.previous, FALSE)
    /\ UNCHANGED buffers

(* The directory cannot be entered: the rescue clause prints a trace and   *)
(* assigns the nil of "previous" to $stdout, which raises a TypeError that *)
(* ruby_generic_handler prints.                                            *)
SetupFails ==
    /\ Setup
    /\ Send(<<TraceOf("error"), TraceOf("error")>>)
    /\ EndRun(stdout, FALSE)
    /\ UNCHANGED buffers

(* Ruby prints to $stdout.                                                 *)
RubyPrints ==
    /\ Running /\ prints < MaxPrints
    /\ prints' = prints + 1
    /\ LET text == [from |-> request, n |-> prints', trace |-> NULL]
       IN  /\ buffers' = [buffers EXCEPT ![stdout] = Append(@, text)]
           /\ Replace(IF Top.diverted THEN Top
                      ELSE [Top EXCEPT !.printed = @ \union {text}])
    /\ UNCHANGED <<stdout, sent, runs, request>>

(* Response#start and redirect, of the run's response or of a new one that *)
(* replaces it, restored before or not.  Where $stdout went is saved in    *)
(* "real"; a start before a restore is history for the properties.         *)
StartResponse ==
    /\ Running
    /\ \E out \in {Top.response, Len(buffers) + 1} \ {NULL} :
          /\ out \in Buffer \/ out <= MaxBuffers
          /\ buffers' = IF out \in Buffer THEN buffers ELSE Append(buffers, <<>>)
          /\ stdout' = out
          /\ Replace([Top EXCEPT !.response = out, !.real = stdout,
                                 !.diverted = TRUE,
                                 !.disturbed = @ \/ Top.diverted])
    /\ UNCHANGED <<sent, runs, request, prints>>

(* Mistake: the buffer keeps what was sent.                                *)
FlushKeeps ==
    /\ Send(buffers[Top.response])
    /\ UNCHANGED buffers

(* Response#flush                                                          *)
Flush ==
    /\ Send(buffers[Top.response])
    /\ buffers' = [buffers EXCEPT ![Top.response] = <<>>]

FlushResponse ==
    /\ Running /\ Top.response # NULL
    /\ Flush
    /\ UNCHANGED <<stdout, stack, runs, request, prints>>

(* Response#clear                                                          *)
ClearResponse ==
    /\ Running /\ Top.response # NULL
    /\ buffers' = [buffers EXCEPT ![Top.response] = <<>>]
    /\ UNCHANGED <<stdout, stack, sent, runs, request, prints>>

(* Response#restore, which may be called again.                            *)
RestoreResponse ==
    /\ Running /\ Top.response # NULL
    /\ Flush
    /\ stdout' = Top.real
    /\ Replace([Top EXCEPT !.diverted = FALSE])
    /\ UNCHANGED <<runs, request, prints>>

(* Runner#setup after the yield: the output is sent, $stdout not restored. *)
ScriptReturns ==
    /\ Running /\ Top.kind = "script"
    /\ Send(buffers[Top.out])
    /\ EndRun(stdout, TRUE)
    /\ UNCHANGED buffers

(* Mistake: the rescue clause does not restore $stdout.                    *)
ScriptRaisesDiverted(exception) ==
    /\ Running /\ Top.kind = "script"
    /\ Send(<<TraceOf(exception)>> \o buffers[Top.out])
    /\ EndRun(stdout, FALSE)
    /\ UNCHANGED buffers

(* Runner#setup from its rescue clause on, which takes every exception.    *)
ScriptRaises(exception) ==
    /\ Running /\ Top.kind = "script"
    /\ Send(<<TraceOf(exception)>> \o buffers[Top.out])
    /\ EndRun(Top.previous, FALSE)
    /\ UNCHANGED buffers

(* Whether a handler leaves $stdout as it found it.                        *)
Disturbs == Top.diverted \/ Top.disturbed

HandlerReturns ==
    /\ Running /\ Top.kind = "handler"
    /\ EndRun(stdout, Disturbs)
    /\ UNCHANGED <<buffers, sent>>

(* A hook prints every exception but a termination or a redirect.          *)
HandlerRaises(exception) ==
    /\ Running /\ Top.kind = "handler"
    /\ Send(IF exception = "termination" THEN <<>> ELSE <<TraceOf(exception)>>)
    /\ EndRun(stdout, Disturbs)
    /\ UNCHANGED buffers

(* Apache ends a child after so many requests, and forks another.          *)
NewChild ==
    /\ stack = <<>> /\ runs = MaxRuns
    /\ stdout' = Process
    /\ buffers' = << <<>> >>
    /\ sent' = <<>>
    /\ runs' = 0 /\ request' = 0 /\ prints' = 0
    /\ UNCHANGED stack

Next ==
    \/ NewChild
    \/ \E kind \in Kind : BeginRun(kind)
    \/ SetupRunner \/ SetupFails
    \/ RubyPrints
    \/ StartResponse \/ FlushResponse \/ ClearResponse \/ RestoreResponse
    \/ ScriptReturns \/ HandlerReturns
    \/ \E e \in Exception : ScriptRaises(e) \/ HandlerRaises(e)

Spec == Init /\ [][Next]_vars

---------------------------------------------------------------------------

(* The buffers a run made; a run ends; its texts have been sent then.      *)
Owned(f) == {f.out, f.response} \ {NULL}
Ends == Len(stack') < Len(stack)
AllSent(f) == f.printed \subseteq {sent'[i][2] : i \in DOMAIN sent'}

(* $stdout is a buffer, the buffers hold texts and the runs on the stack   *)
(* have their fields.                                                      *)
TypeOK ==
    /\ stdout \in Buffer
    /\ buffers \in Seq(Seq(Text))
    /\ stack \in Seq(Frame)
    /\ sent \in Seq((1..MaxRuns) \X Text)
    /\ {runs, request} \subseteq 0..MaxRuns
    /\ prints \in 0..MaxPrints

(* Nothing that was printed once is sent twice, whichever of the Runner    *)
(* and the responses, at whatever depth, sends it (common.rb:135,          *)
(* response.rb:49-65).                                                     *)
SentOnce ==
    \A i, j \in DOMAIN sent :
        sent[i] = sent[j] /\ sent[i][2].trace = NULL => i = j

(* A request is sent what was printed while it was served, though $stdout  *)
(* outlives requests and is left diverted (common.rb:113-135).             *)
SentToItsRequest == \A i \in DOMAIN sent : sent[i][2].from = sent[i][1]

(* Whatever a script has nested, and however that ended, what the script   *)
(* prints never lands in the buffer of a run it is nested in               *)
(* (common.rb:116-131, response.rb:87-108).                                *)
PrintsStayInside ==
    Running /\ Top.kind = "script" =>
        \A i \in 1..Len(stack) - 1 : stdout \notin Owned(stack[i])

(* Everything a script printed outside a response has been sent when it    *)
(* ends, by a return or an exception, whatever it flushed, cleared and     *)
(* restored and whatever it nested raised; unless a script it nested       *)
(* returned, a handler it nested left $stdout diverted, or it started a    *)
(* response before it restored the one it had started                      *)
(* (common.rb:112-135, response.rb:87-108).                                *)
UndisturbedOutputSent ==
    [][Ends /\ Top.kind = "script" /\ ~ Top.disturbed => AllSent(Top)]_vars

(* The inductive invariant behind the four invariants above.               *)

(* A run's fields are buffers, those it made are its own; n buffers exist. *)
FrameOK(f, n) ==
    /\ f.step = "setup" => f.kind = "script" /\ f.out = NULL /\ f.response = NULL
    /\ f.kind = "handler" => f.out = NULL
    /\ f.kind = "script" /\ f.step = "running" => f.out # NULL /\ f.previous # NULL
    /\ Owned(f) \subseteq 2..n
    /\ {f.previous, f.real} \subseteq 1..n \union {NULL}
    /\ f.out # NULL => f.out # f.response
    /\ f.real = NULL <=> f.response = NULL
    /\ f.diverted => f.real # NULL

FramesInv ==
    \A k \in DOMAIN stack :
        /\ FrameOK(stack[k], Len(buffers))
        /\ stack[k].step = "setup" => k = Len(stack)
        /\ request >= 1

Apart ==
    \A i, j \in DOMAIN stack :
        i # j => Owned(stack[i]) \intersect Owned(stack[j]) = {}

(* What is or may become $stdout while run m is the innermost is no buffer *)
(* of a run that a script up to m is nested in.                            *)
IsScript(f) == f.kind = "script" /\ f.step = "running"
Inside(b, m, s) ==
    \A i, j \in 1..m : i < j /\ IsScript(s[j]) => b \notin Owned(s[i])
StdoutInside ==
    /\ Inside(stdout, Len(stack), stack)
    /\ \A m \in DOMAIN stack :
          Inside(stack[m].previous, m - 1, stack) /\ Inside(stack[m].real, m, stack)

Live == UNION {Owned(stack[k]) : k \in DOMAIN stack}

PrintedTexts ==
    /\ \A b \in Buffer : \A k \in DOMAIN buffers[b] :
          buffers[b][k].trace = NULL /\ buffers[b][k].n <= prints
    /\ \A i \in DOMAIN sent : sent[i][2].n <= prints

(* A text in a buffer that may be sent is one of this request, has not     *)
(* been sent and is nowhere else.                                          *)
Unsent ==
    \A b \in Live : \A k \in DOMAIN buffers[b] :
        /\ buffers[b][k].from = request
        /\ \A i \in DOMAIN sent : sent[i][2] # buffers[b][k]

Unrepeated ==
    \A b, c \in Live : \A k \in DOMAIN buffers[b], l \in DOMAIN buffers[c] :
        buffers[b][k] = buffers[c][l] => b = c /\ k = l

TextsInv == PrintedTexts /\ Unsent /\ Unrepeated /\ SentOnce /\ SentToItsRequest

OutputInv == TypeOK /\ FramesInv /\ Apart /\ StdoutInside /\ TextsInv

(* What UndisturbedOutputSent needs besides.                               *)

(* at[k] is $stdout when run k gets control back from what it nested,      *)
(* provided that this does not disturb it: a script started at its         *)
(* "previous", a handler that restores its response at its "real".         *)
Left(f, s) == IF f.diverted THEN f.real ELSE s
Held(f) == IF f.diverted THEN f.response ELSE f.out
Returns(f, s, outer) ==
    /\ IsScript(f) => f.previous = outer
    /\ ~ IsScript(f) /\ ~ f.disturbed =>
          outer = Left(f, s) /\ f.real \in {outer, NULL}
Diverts(f, s) ==
    IsScript(f) /\ ~ f.disturbed =>
        s = Held(f) /\ f.real \in {f.out, NULL}
GivesBack(at) ==
    /\ stack # <<>> => at[Len(stack)] = stdout
    /\ \A k \in DOMAIN stack :
          /\ Diverts(stack[k], at[k])
          /\ k > 1 => Returns(stack[k], at[k], at[k - 1])
Chain == \E at \in [DOMAIN stack -> Buffer] : GivesBack(at)

(* What an undisturbed script printed is sent or in its own buffer.        *)
SentTexts == {sent[i][2] : i \in DOMAIN sent}
Kept(f, texts, bs) ==
    /\ f.step = "setup" => f.printed = {} /\ ~ f.disturbed
    /\ IsScript(f) /\ ~ f.disturbed =>
          \A t \in f.printed : t \in texts
             \/ \E i \in DOMAIN bs[f.out] : bs[f.out][i] = t
PrintedKept == \A k \in DOMAIN stack : Kept(stack[k], SentTexts, buffers)

SentInv == OutputInv /\ Chain /\ PrintedKept

---------------------------------------------------------------------------

(* "anything from puts, print or whatever else that prints to standard out *)
(* in Ruby is collected in that buffer.  After a RHTML page or controller  *)
(* completes, the handler flushes the contents of the buffer"              *)
(* (mod_ruby.module.api.apache.xml:412-418), of a script that uses no      *)
(* response itself.                                                        *)
WholeOutputSent ==
    [][Ends /\ Top.kind = "script" /\ Top.response = NULL => AllSent(Top)]_vars

===========================================================================
