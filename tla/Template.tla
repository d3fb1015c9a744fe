----------------------------- MODULE Template -----------------------------
(***************************************************************************)
(* What a template means to eRuby: the characters of its text are printed, *)
(* those of a code block are run, those of an expression are evaluated and *)
(* the value is shown, all in the order of the template.                   *)
(***************************************************************************)
EXTENDS Sequences

CONSTANTS Char, NEWLINE

VARIABLES
    input,   \* characters of the template read so far, marks left out
    block,   \* what the next character belongs to
    out,     \* what the template has done so far
    done     \* the template is read

vars == <<input, block, out, done>>

Act == {"print", "run", "eval", "show"} \X (Char \union {NEWLINE})

Init == input = <<>> /\ block = "text" /\ out = <<>> /\ done = FALSE

(* What a character of a block does.                                       *)
Effect(b) ==
    IF b = "text" THEN "print" ELSE IF b = "code" THEN "run" ELSE "eval"

Read(c) ==
    /\ ~ done
    /\ input' = Append(input, c)
    /\ out' = Append(out, <<Effect(block), c>>)
    /\ UNCHANGED <<block, done>>

Open(b) ==
    /\ ~ done /\ block = "text"
    /\ block' = b
    /\ UNCHANGED <<input, out, done>>

(* The value of an expression is shown where the expression ends.          *)
Close ==
    /\ ~ done /\ block # "text"
    /\ block' = "text"
    /\ out' = IF block = "value" THEN Append(out, <<"show", NEWLINE>>) ELSE out
    /\ UNCHANGED <<input, done>>

End ==
    /\ ~ done
    /\ done' = TRUE
    /\ UNCHANGED <<input, block, out>>

Next ==
    \/ \E c \in Char \union {NEWLINE} : Read(c)
    \/ \E b \in {"code", "value"} : Open(b)
    \/ Close
    \/ End

Spec == Init /\ [][Next]_vars

===========================================================================
