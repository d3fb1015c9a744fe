--------------------------- MODULE RequestTables ---------------------------
(***************************************************************************)
(* The tables of a request in the hands of a script: the parameters of its *)
(* form (params), of its query string (queries) and the CGI variables.     *)
(* The first two are parsed on first use and kept.  The script looks names *)
(* up (src/src/ruby/modruby/request.rb:307-397), changes tables, and loops *)
(* over them with each (src/src/ruby_apr_table.cpp:124-138), whose block   *)
(* may do all of that while the iterator is under way.                     *)
(***************************************************************************)
EXTENDS Parameters

CONSTANTS
    NULL,
    Spelling,     \* what a client writes for a name or a value
    CGI,          \* the CGI variables
    OtherForm,    \* params of a body that is no form: its content type
    Name, Val,    \* what a script uses
    Touched,      \* bound: the tables a script loops over and changes
    MaxItems,     \* bound: items a client sends
    MaxChanges,   \* bound: changes a script makes
    MaxLoops,     \* bound: loops, one inside the other
    MaxCalls,     \* bound: loops
    MaxIndex      \* bound: how far a read past the end gets

ASSUME BoundsAreNats ==
    {MaxItems, MaxChanges, MaxLoops, MaxCalls, MaxIndex} \subseteq Nat

Which == {"params", "queries", "cgi"}
ASSUME TouchedAreTables == Touched \subseteq Which

Text == Seq(0..255)
TableText == Seq([key : Text, val : Text])
ASSUME ScriptsUseTexts ==
    Name \subseteq Text /\ Val \subseteq Text /\ {CGI, OtherForm} \subseteq TableText

---------------------------------------------------------------------------
(* What a client writes, piece by piece, and what it means: a byte as      *)
(* itself, a blank as a plus, any byte as an escape, and a percent sign    *)
(* that is none because a digit is missing behind it.  Every text without  *)
(* a NUL and an ampersand is written in one way by such pieces.            *)

HexDigit == 48..57 \union 65..70 \union 97..102
Digit(c) == IF c <= 57 THEN c - 48 ELSE IF c <= 70 THEN c - 55 ELSE c - 87

Written ==
    {[raw |-> <<c>>, text |-> <<c>>] : c \in 1..255 \ {PERCENT, AMP, PLUS}}
        \union {[raw |-> <<PLUS>>, text |-> <<SPACE>>]}
Escape ==
    {[raw |-> <<PERCENT, h, l>>, text |-> <<16 * Digit(h) + Digit(l)>>] :
        h \in HexDigit, l \in HexDigit}
Stray ==
    {[raw |-> s, text |-> s] :
        s \in {<<PERCENT>>} \union {<<PERCENT, h>> : h \in HexDigit}}
Piece == Written \union Escape \union Stray

Spelled(spelling) ==
    /\ spelling \in Seq(Piece)
    /\ \A n \in 1..Len(spelling) - 1 :
          spelling[n] \in Stray => spelling[n + 1].raw[1] \notin HexDigit

ASSUME SpellingsArePieces == \A s \in Spelling : Spelled(s)
ASSUME NullIsNothing == NULL \notin Spelling /\ NULL \notin TableText

Raw(spelling) ==
    LET raw[n \in 0..Len(spelling)] ==
            IF n = 0 THEN <<>> ELSE raw[n - 1] \o spelling[n].raw
    IN  raw[Len(spelling)]

(* What is meant ends in front of a NUL, as C's strings do.                *)
Meaning(spelling) ==
    LET text[n \in 0..Len(spelling)] ==
            IF n = 0 THEN <<>> ELSE text[n - 1] \o spelling[n].text
    IN  CString(text[Len(spelling)])

VARIABLES
    type,         \* the content type: of a form, another or none
    form, query,  \* the items the client sent; these three stay the same
    tables,       \* the tables, NULL until they are first used
    loops,        \* the loops running, the innermost last
    changes,      \* changes made so far
    calls         \* loops begun so far

vars == <<type, form, query, tables, loops, changes, calls>>

(* An item: a name, or a name, an equals sign and a value.                 *)
Item == [name : {name \in Spelling : Position(Raw(name), EQUALS) = 0},
         value : Spelling \union {NULL}]
TextOf(item) ==
    IF item.value = NULL THEN Raw(item.name)
    ELSE Raw(item.name) \o <<EQUALS>> \o Raw(item.value)
Joined(items) ==
    LET joined[n \in 0..Len(items)] ==
            IF n = 0 THEN <<>>
            ELSE IF n = 1 THEN TextOf(items[n])
            ELSE joined[n - 1] \o <<AMP>> \o TextOf(items[n])
    IN  joined[Len(items)]

NoTables == [w \in Which |-> IF w = "cgi" THEN CGI ELSE NULL]

Type == {"form", "other", "none"}

Init ==
    /\ type \in Type
    /\ type # "form" => form = <<>>
    /\ form \in BoundedSeq(Item, MaxItems)
    /\ query \in BoundedSeq(Item, MaxItems)
    /\ Len(form) + Len(query) <= MaxItems
    /\ tables = NoTables
    /\ loops = <<>>
    /\ changes = 0
    /\ calls = 0

(* Without a content type params is a new Ruby Hash each time, and empty.  *)
ParsedForm ==
    CASE type = "form"  -> ParseQueryString(Joined(form))
      [] type = "other" -> OtherForm
      [] type = "none"  -> <<>>

Parsed(w) ==
    CASE w = "params"  -> ParsedForm
      [] w = "queries" -> ParseQueryString(Joined(query))
      [] w = "cgi"     -> CGI

IsTable(w) == w = "params" => type # "none"

(* What a use of a table sees: m_params, m_queries.                        *)
Table(w) == IF tables[w] = NULL THEN Parsed(w) ELSE tables[w]
Use(w) == tables' = [tables EXCEPT ![w] = Table(w)]

---------------------------------------------------------------------------
(* Lookups.  has_key? ignores case, the loops over entries do not.         *)

HasValue(name) == \E w \in Which : T!HasKey(Table(w), name)

Exactly(t, name) == T!Only(t, {n \in DOMAIN t : t[n].key = name})
Vals(t) == [n \in DOMAIN t |-> t[n].val]

(* Mistake: the form's entries are searched for the query's.              *)
ValuesMixed(name) ==
    IF \E w \in {"params", "queries"} : T!HasKey(Table(w), name)
    THEN Vals(Exactly(Table("params"), name))
    ELSE IF T!HasKey(Table("cgi"), name) THEN <<T!Get(Table("cgi"), name)>>
    ELSE <<>>

(* values; its default, nil, is the empty sequence here.                   *)
ValuesOf(name) ==
    IF T!HasKey(Table("params"), name) THEN Vals(Exactly(Table("params"), name))
    ELSE IF T!HasKey(Table("queries"), name)
         THEN Vals(Exactly(Table("queries"), name))
    ELSE IF T!HasKey(Table("cgi"), name) THEN <<T!Get(Table("cgi"), name)>>
    ELSE <<>>

ValueOf(name) ==
    IF HasValue(name) /\ ValuesOf(name) # <<>> THEN Head(ValuesOf(name)) ELSE NULL

---------------------------------------------------------------------------

Loop == [over : Which, at : Nat \union {T!BeforeFirst}, start : TableText,
         seen : Seq(Text), shrunk : BOOLEAN, wild : BOOLEAN]

(* each, up to its loop.                                                   *)
BeginEach(w) ==
    /\ IsTable(w)
    /\ Len(loops) < MaxLoops /\ calls < MaxCalls
    /\ calls' = calls + 1
    /\ Use(w)
    /\ loops' = Append(loops, [over |-> w, at |-> T!BeforeFirst,
                               start |-> Table(w), seen |-> <<>>,
                               shrunk |-> FALSE, wild |-> FALSE])
    /\ UNCHANGED <<type, form, query, changes>>

Top == Last(loops)
Current == tables[Top.over]
Advance(loop) == loops' = Append(Front(loops), loop)

(* The block gets the next entry.                                          *)
YieldEntry ==
    /\ T!HasNext(Current, Top.at) /\ T!Inside(Current, Top.at + 1)
    /\ Advance([Top EXCEPT !.at = @ + 1,
                           !.seen = Append(@, T!At(Current, Top.at + 1).key)])
    /\ UNCHANGED <<type, form, query, tables, changes, calls>>

(* The index is past the end: the array's memory holds an entry that was   *)
(* removed, or nothing of the kind, and the child crashes.                 *)
YieldWild ==
    /\ T!HasNext(Current, Top.at) /\ ~ T!Inside(Current, Top.at + 1)
    /\ \/ /\ Top.at < MaxIndex
          /\ Advance([Top EXCEPT !.at = @ + 1, !.wild = TRUE])
       \/ loops' = <<>>
    /\ UNCHANGED <<type, form, query, tables, changes, calls>>

EndEach ==
    /\ ~ T!HasNext(Current, Top.at)
    /\ loops' = Front(loops)
    /\ UNCHANGED <<type, form, query, tables, changes, calls>>

(* The loop of each: next, and a yield.                                    *)
StepEach == loops # <<>> /\ (YieldEntry \/ YieldWild \/ EndEach)

(* The block breaks or raises.                                             *)
LeaveEach ==
    /\ loops # <<>>
    /\ loops' = Front(loops)
    /\ UNCHANGED <<type, form, query, tables, changes, calls>>

(* The script changes a table, which loops over it do not learn.           *)
Change(w, t) ==
    /\ IsTable(w)
    /\ changes < MaxChanges
    /\ changes' = changes + 1
    /\ tables' = [tables EXCEPT ![w] = t]
    /\ loops' = [n \in DOMAIN loops |->
                    [loops[n] EXCEPT !.shrunk =
                        @ \/ (loops[n].over = w /\ Len(t) < Len(Table(w)))]]
    /\ UNCHANGED <<type, form, query, calls>>

SetValue(w, name, v) == Change(w, T!Set(Table(w), name, v))
AddValue(w, name, v) == Change(w, T!Add(Table(w), name, v))
MergeValue(w, name, v) == Change(w, T!Merge(Table(w), name, v))
UnsetName(w, name) == Change(w, T!Unset(Table(w), name))
Clear(w) == Change(w, <<>>)

(* The client asks again: another Apache::Request.                         *)
NextRequest ==
    /\ loops = <<>>
    /\ tables' = NoTables
    /\ changes' = 0 /\ calls' = 0
    /\ UNCHANGED <<type, form, query, loops>>

Next ==
    \/ NextRequest
    \/ StepEach \/ LeaveEach
    \/ \E w \in Touched :
          \/ BeginEach(w)
          \/ Clear(w)
          \/ \E name \in Name :
                \/ UnsetName(w, name)
                \/ \E v \in Val :
                      \/ SetValue(w, name, v)
                      \/ AddValue(w, name, v)
                      \/ MergeValue(w, name, v)

Spec == Init /\ [][Next]_vars

---------------------------------------------------------------------------

(* The tables hold texts, the loops know a table and an index.             *)
TypeOK ==
    /\ type \in Type
    /\ {form, query} \subseteq Seq(Item)
    /\ tables \in [Which -> TableText \union {NULL}]
    /\ loops \in Seq(Loop)
    /\ changes \in 0..MaxChanges
    /\ calls \in 0..MaxCalls

(* The items with a value, those of them with the name of another, and     *)
(* the first of each name.                                                 *)
Valued(items) == {n \in DOMAIN items : items[n].value \notin {NULL, <<>>}}
SameName(items, n) ==
    {m \in Valued(items) : T!Same(Meaning(items[m].name), Meaning(items[n].name))}
FirstOfName(items) == {n \in Valued(items) : \A m \in SameName(items, n) : n <= m}

(* The values of some items, one behind the other.                         *)
ValuesAt(items, places) ==
    LET text[n \in 0..Len(items)] ==
            IF n = 0 THEN <<>>
            ELSE IF n \notin places THEN text[n - 1]
            ELSE IF \A m \in places : n <= m THEN Meaning(items[n].value)
            ELSE Glue(text[n - 1], Meaning(items[n].value))
    IN  text[Len(items)]

(* The keys and values of a parsed table are one of each for a name the    *)
(* client gave a value, as it is spelled first and in the order of these   *)
(* spellings, with all its values, decoded and in their order, whatever    *)
(* the items in between (request.cpp:352-377, util.cpp:34-149,             *)
(* ruby_apr_table.cpp:140-170).                                            *)
MeantBy(items, keys, values) ==
    /\ Len(keys) = Len(values)
    /\ \E order \in [DOMAIN keys -> FirstOfName(items)] :
          /\ FirstOfName(items) = {order[k] : k \in DOMAIN keys}
          /\ \A k, l \in DOMAIN keys : k < l => order[k] < order[l]
          /\ \A k \in DOMAIN keys :
                /\ keys[k] = Meaning(items[order[k]].name)
                /\ values[k] = ValuesAt(items, SameName(items, order[k]))

ParsedAsMeant ==
    /\ type = "form" =>
          MeantBy(form, T!Keys(Parsed("params")), T!Values(Parsed("params")))
    /\ MeantBy(query, T!Keys(Parsed("queries")), T!Values(Parsed("queries")))

(* What some items give a name as it is spelled, one text at the most, and *)
(* whether they give the name a value in any case.                         *)
GivenIn(items, name) ==
    {ValuesAt(items, SameName(items, n)) :
        n \in {m \in FirstOfName(items) : Meaning(items[m].name) = name}}
KnownIn(items, name) ==
    \E n \in Valued(items) : T!Same(Meaning(items[n].name), name)

(* As long as the script changed no table, and through all its loops, a    *)
(* lookup answers from one source that has the name in any case: with all  *)
(* that the client gave it there, as meant, or with nil when that source   *)
(* spells it first in another case; never with a mixture of the form's and *)
(* the query's, and with nil only if no source has the name                *)
(* (request.rb:307-397, request.cpp:352-377).                              *)
ValueAsGiven ==
    changes = 0 /\ type # "other" =>
        \A name \in Name :
            \/ \E items \in {form, query} :
                  /\ KnownIn(items, name)
                  /\ \/ ValueOf(name) \in GivenIn(items, name)
                     \/ GivenIn(items, name) = {} /\ ValueOf(name) = NULL
            \/ T!HasKey(CGI, name) /\ ValueOf(name) = T!Get(CGI, name)
            \/ /\ \A items \in {form, query} : ~ KnownIn(items, name)
               /\ ~ T!HasKey(CGI, name)
               /\ ValueOf(name) = NULL

(* A loop reads past the table's end only if the table shrank under it,    *)
(* whatever else its block did (apr_table.cpp:261-277).                    *)
WildOnlyAfterShrink == \A n \in DOMAIN loops : loops[n].wild => loops[n].shrunk

(* A loop that ends by itself has shown its block every entry that was     *)
(* there when it began, in order and before what was added, though entries *)
(* were added, merged and replaced meanwhile; unless the table shrank      *)
(* (ruby_apr_table.cpp:124-138).                                           *)
EachSeesAll ==
    [][loops # <<>> /\ EndEach /\ ~ Top.shrunk
          => IsPrefix([n \in DOMAIN Top.start |-> Top.start[n].key], Top.seen)]_vars

===========================================================================
