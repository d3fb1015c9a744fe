--------------------------- MODULE RhtmlScanner ---------------------------
(***************************************************************************)
(* ModRuby::RHTML: the scanner and the parser that turn a template into a  *)
(* Ruby program (src/src/rhtml.lex, src/src/rhtml.cpp).  One action per    *)
(* rule of the scanner; the environment is the template, which may be any  *)
(* series of the lexemes the rules match.                                  *)
(*                                                                         *)
(* A string of the program is represented by what Ruby makes of it: the    *)
(* mode its own lexer is left in, and what the string did up to there.     *)
(***************************************************************************)
EXTENDS Naturals, Sequences

CONSTANTS
    Char,      \* characters of a template other than line ends
    Special,   \* those with a meaning of their own in a Ruby string
    NEWLINE,   \* a line end
    ESCAPE,    \* a backslash and one of n, r, t in a text, written out
    MaxActs    \* bound: characters read and things the program does

ASSUME SpecialAreChars == Special \subseteq Char
ASSUME NewlineIsNoChar == NEWLINE \notin Char
ASSUME EscapeIsNoChar == ESCAPE \notin Char \union {NEWLINE}
ASSUME MaxActsIsNat == MaxActs \in Nat

VARIABLES
    condition,   \* start condition of the scanner, "END" at the end of input
    state,       \* _state of the parser
    started,     \* line.size() > 0
    text,        \* what Ruby makes of the text so far
    whole,       \* what Ruby makes of the text and the line after it
    input,       \* history: characters read, marks left out
    commented    \* history: a comment block was opened

vars == <<condition, state, started, text, whole, input, commented>>

---------------------------------------------------------------------------
(* Ruby reading the program, piece by piece.  It is at the start of a      *)
(* statement, inside one, inside a string that will be printed, inside the *)
(* parentheses of print((, or astray: past a piece that makes no sense     *)
(* where it stands.                                                        *)

Mode == {"start", "code", "string", "value", "astray"}
Act == {"print", "run", "eval", "show"} \X (Char \union {NEWLINE})
Reading == [mode : Mode, out : Seq(Act)]

Nothing == [mode |-> "start", out |-> <<>>]

Go(r, from, to) == [r EXCEPT !.mode = IF @ \in from THEN to ELSE "astray"]
Do(r, effect, c) ==
    [r EXCEPT !.out = IF r.mode = "astray" THEN @ ELSE Append(@, <<effect, c>>)]

PrintString(r) == Go(r, {"start"}, "string")                 \* print "
EndString(r) == Go(r, {"string"}, "start")                   \* ";
EndStringLine(r) == Do(EndString(r), "print", NEWLINE)       \* \n" and a line end
PrintValue(r) == Go(r, {"start"}, "value")                   \* print((
EndValue(r) == Do(Go(r, {"value"}, "code"), "show", NEWLINE) \* ))
Semicolon(r) == Go(r, {"start", "code"}, "start")            \* ;
EndCodeLine(r) == Do(Go(r, {"start", "code"}, "start"), "run", NEWLINE)

(* A character as it stands in the template.                               *)
Raw(r, c) ==
    IF r.mode = "value" THEN Do(r, "eval", c)
    ELSE IF r.mode = "string"
    THEN IF c \in Special THEN Go(r, {}, "astray") ELSE Do(r, "print", c)
    ELSE Do(Go(r, {"start", "code"}, "code"), "run", c)

(* A character with a backslash before it, if it is special.               *)
Escaped(r, c) == Do(Go(r, {"string"}, "string"), "print", c)

---------------------------------------------------------------------------

Init ==
    /\ condition = "INITIAL"
    /\ state = "TEXT"
    /\ started = FALSE
    /\ text = Nothing
    /\ whole = Nothing
    /\ input = <<>>
    /\ commented = FALSE

Room == Len(whole.out) < MaxActs /\ Len(input) < MaxActs

(* The first character is put back, and the scanner goes to the text.      *)
Begin ==
    /\ condition = "INITIAL"
    /\ condition' = "TEXT"
    /\ UNCHANGED <<state, started, text, whole, input, commented>>

(* Mistake: the text is not escaped.                                       *)
ReadUnescaped(c) ==
    /\ condition \in {"TEXT", "CODE", "COMMENT"} /\ Room
    /\ whole' = Raw(IF state = "TEXT" /\ ~ started
                    THEN PrintString(whole) ELSE whole, c)
    /\ started' = TRUE
    /\ input' = Append(input, c)
    /\ UNCHANGED <<condition, state, text, commented>>

(* RhtmlParser::read                                                       *)
Read(c) ==
    /\ condition \in {"TEXT", "CODE", "COMMENT"} /\ Room
    /\ whole' = IF state # "TEXT" THEN Raw(whole, c)
                ELSE IF started THEN Escaped(whole, c)
                ELSE Escaped(PrintString(whole), c)
    /\ started' = TRUE
    /\ input' = Append(input, c)
    /\ UNCHANGED <<condition, state, text, commented>>

(* The rules for the escapes of a text have empty bodies.                  *)
SkipEscape ==
    /\ condition = "TEXT" /\ Room
    /\ input' = Append(input, ESCAPE)
    /\ UNCHANGED <<condition, state, started, text, whole, commented>>

(* RhtmlParser::change: what it makes of the line, which holds something   *)
(* if "begun", and whether the line holds something after it.              *)
Changed(line, begun) ==
    IF state \in {"CODE", "VAR"}
    THEN PrintString(IF begun THEN Semicolon(line) ELSE line)
    ELSE IF state = "TEXT" /\ begun THEN EndString(line) ELSE line

ChangeStarts(begun) == begun \/ state \in {"CODE", "VAR"}

OpenCode ==
    /\ condition = "TEXT"
    /\ condition' = "CODE"
    /\ state' = "CODE"
    /\ whole' = Changed(whole, started)
    /\ started' = ChangeStarts(started)
    /\ UNCHANGED <<text, input, commented>>

OpenValue ==
    /\ condition = "TEXT"
    /\ condition' = "CODE"
    /\ state' = "VAR"
    /\ whole' = PrintValue(Changed(whole, started))
    /\ started' = TRUE
    /\ UNCHANGED <<text, input, commented>>

(* Mistake: the parentheses of an expression are left open.                *)
CloseOpen ==
    /\ condition = "CODE" /\ Room
    /\ condition' = "TEXT"
    /\ state' = "TEXT"
    /\ whole' = Changed(whole, started)
    /\ started' = ChangeStarts(started)
    /\ UNCHANGED <<text, input, commented>>

Close ==
    /\ condition = "CODE" /\ Room
    /\ condition' = "TEXT"
    /\ state' = "TEXT"
    /\ whole' = IF state = "VAR" THEN Changed(EndValue(whole), TRUE)
                ELSE Changed(whole, started)
    /\ started' = ChangeStarts(started)
    /\ UNCHANGED <<text, input, commented>>

OpenComment ==
    /\ condition = "TEXT"
    /\ condition' = "COMMENT"
    /\ commented' = TRUE
    /\ state' = "COMMENT"
    /\ whole' = Changed(whole, started)
    /\ started' = ChangeStarts(started)
    /\ UNCHANGED <<text, input>>

CloseComment ==
    /\ condition = "COMMENT"
    /\ condition' = "TEXT"
    /\ state' = "TEXT"
    /\ whole' = Changed(whole, started)
    /\ started' = ChangeStarts(started)
    /\ UNCHANGED <<text, input, commented>>

(* Mistake: the scanner enters the start condition that has no rules.      *)
CloseCommentIndent ==
    /\ condition = "COMMENT"
    /\ condition' = "INDENT"
    /\ UNCHANGED <<state, started, text, whole, input, commented>>

(* The longer closing mark leaves the parser in its comment.               *)
CloseCommentDashes ==
    /\ condition = "COMMENT"
    /\ condition' = "TEXT"
    /\ UNCHANGED <<state, started, text, whole, input, commented>>

(* Mistake: an empty line of a text opens no string.                       *)
EndLineUnopened ==
    /\ condition \in {"TEXT", "CODE", "COMMENT"} /\ Room
    /\ whole' = IF state = "CODE" THEN EndCodeLine(whole)
                ELSE IF state = "TEXT" THEN EndStringLine(whole) ELSE whole
    /\ text' = whole'
    /\ started' = FALSE
    /\ input' = Append(input, NEWLINE)
    /\ UNCHANGED <<condition, state, commented>>

(* RhtmlParser::end_line: the line goes to the text.                       *)
EndLine ==
    /\ condition \in {"TEXT", "CODE", "COMMENT"} /\ Room
    /\ \/ /\ state = "CODE"
          /\ whole' = EndCodeLine(whole)
       \/ /\ state = "TEXT"
          /\ whole' = EndStringLine(IF started THEN whole
                                    ELSE PrintString(whole))
       \/ /\ state \in {"VAR", "COMMENT"}
          /\ UNCHANGED whole
    /\ text' = whole'
    /\ started' = FALSE
    /\ input' = Append(input, NEWLINE)
    /\ UNCHANGED <<condition, state, commented>>

(* The end of the input, and finalize: the line it closes goes nowhere.    *)
End ==
    /\ condition # "END"
    /\ condition' = "END"
    /\ state' = "TEXT"
    /\ whole' = Changed(whole, started)
    /\ started' = ChangeStarts(started)
    /\ UNCHANGED <<text, input, commented>>

Comment == OpenComment \/ CloseComment \/ CloseCommentDashes

Lexeme ==
    \/ Begin
    \/ \E c \in Char : Read(c)
    \/ OpenCode
    \/ OpenValue
    \/ Close

Next == Lexeme \/ SkipEscape \/ Comment \/ EndLine \/ End

(* Any template.                                                           *)
Spec == Init /\ [][Next]_vars

(* Templates without comments or escapes whose expressions are on one line *)
(* and that end between two blocks: after a line end, or anywhere.         *)
OneLineExpression == state # "VAR" /\ EndLine
EndOutside == condition # "CODE" /\ End
EndAfterLine == EndOutside /\ ~ started

PlainSpec == Init /\ [][Lexeme \/ OneLineExpression \/ EndAfterLine]_vars
UnterminatedSpec == Init /\ [][Lexeme \/ OneLineExpression \/ EndOutside]_vars

---------------------------------------------------------------------------

(* The scanner, the parser and Ruby's reading of the program have their    *)
(* kinds of state.                                                         *)
TypeOK ==
    /\ condition \in {"INITIAL", "TEXT", "CODE", "COMMENT", "END"}
    /\ state \in {"TEXT", "CODE", "VAR", "COMMENT"}
    /\ started \in BOOLEAN
    /\ text \in Reading
    /\ whole \in Reading
    /\ input \in Seq(Char \union {NEWLINE, ESCAPE})
    /\ commented \in BOOLEAN

(* Whatever a template without comments holds, its text never leaves the   *)
(* string it is printed from, no string, expression or statement is opened *)
(* inside another, and none is closed twice (rhtml.cpp:32-126).            *)
NothingAstray ==
    ~ commented => /\ text.mode # "astray"
                   /\ condition # "END" => whole.mode # "astray"

(* The lines handed to the program while no block is open can be evaluated *)
(* as they are: they leave no string and no parenthesis open               *)
(* (rhtml.cpp:128-168).                                                    *)
LinesEvaluate ==
    ~ commented /\ condition = "TEXT" /\ ~ started
        => text = whole /\ text.mode = "start"

(* The inductive invariant behind both: the scanner and the parser agree   *)
(* on the block they are in, and Ruby on what the line leaves open.        *)
ScanInv ==
    ~ commented =>
        /\ condition \in {"INITIAL", "TEXT"} =>
              /\ state = "TEXT"
              /\ whole.mode = IF started THEN "string" ELSE "start"
        /\ condition = "INITIAL" => ~ started
        /\ condition = "CODE" /\ state = "CODE" =>
              whole.mode \in IF started THEN {"start", "code"} ELSE {"start"}
        /\ condition = "CODE" /\ state # "CODE" =>
              state = "VAR" /\ whole.mode = "value"
        /\ condition # "COMMENT"
        /\ ~ started => text = whole
        /\ condition = "END" => state = "TEXT"
        /\ text.mode # "astray"

(* The program does what the template means to eRuby, character by         *)
(* character, in order.                                                    *)
Meaning == INSTANCE Template WITH
    Char  <- Char \union {ESCAPE},
    block <- IF condition # "CODE" THEN "text"
             ELSE IF state = "VAR" THEN "value" ELSE "code",
    out   <- IF condition = "END" THEN text.out ELSE whole.out,
    done  <- condition = "END"

(* "a fast, embedded RHTML parser implemented in C which works exactly     *)
(* like eRuby" (README.md:8-9).                                            *)
AsInERuby == Meaning!Spec

===========================================================================
