--------------------------- MODULE ConfigTables ---------------------------
(***************************************************************************)
(* The tables mod_ruby keeps its configuration in, and the functions that  *)
(* merge them for a request and pick the handler that serves it            *)
(* (src/src/module.cpp, src/src/module.h, src/src/common.c).               *)
(*                                                                         *)
(* An apr_table_t or apr_hash_t is a function from every key to its value, *)
(* NULL where the key is absent: each table of the program holds one value *)
(* per key, because entries are only ever written with the "set" calls.    *)
(***************************************************************************)

CONSTANTS
    HandlerName,   \* names a RubyHandlerDeclare directive may introduce
    Text,          \* every other directive argument
    Option,        \* keys of RubyConfig and RubyHandlerConfig
    NULL           \* the absent value

Value == HandlerName \union Text

(* The parts of a route: the Ruby file to require, the class to            *)
(* instantiate and the method to call.                                     *)
Part == {"Module", "Class", "Method"}

HandlerKey(p) ==
    IF p = "Module" THEN "RubyHandlerModule"
    ELSE IF p = "Class" THEN "RubyHandlerClass" ELSE "RubyHandlerMethod"

DefaultKey(p) ==
    IF p = "Module" THEN "RubyDefaultHandlerModule"
    ELSE IF p = "Class" THEN "RubyDefaultHandlerClass"
    ELSE "RubyDefaultHandlerMethod"

HandlerKeys == {HandlerKey(p) : p \in Part}
DefaultKeys == {DefaultKey(p) : p \in Part}
Slots == {"RubyHandler", "RubyAccessHandler"}

Key == Slots \union HandlerKeys \union DefaultKeys \union Option

(* A key of RubyConfig is none of the directives' own names, and the       *)
(* absent value is no value.                                               *)
ASSUME OptionsAreUserKeys ==
    Option \intersect (Slots \union HandlerKeys \union DefaultKeys) = {}
ASSUME NullIsNoValue == NULL \notin Value

Table == [Key -> Value \union {NULL}]
Route == [Part -> Value \union {NULL}]

EmptyTable == [k \in Key |-> NULL]
EmptyRoute == [p \in Part |-> NULL]

(* ruby_config: what one server_rec keeps.  "declared" is the domain of    *)
(* the handlers hash.                                                      *)
ServerConfig ==
    [handler  : Value \union {NULL},
     default  : Route,
     options  : Table,
     declared : SUBSET HandlerName,
     handlers : [HandlerName -> Table]]

(* create_config                                                           *)
NewServerConfig ==
    [handler  |-> NULL,
     default  |-> EmptyRoute,
     options  |-> EmptyTable,
     declared |-> {},
     handlers |-> [h \in HandlerName |-> EmptyTable]]

---------------------------------------------------------------------------

(* Every entry of "over" is set in "base".                                 *)
Overlay(base, over) ==
    [k \in Key |-> IF over[k] # NULL THEN over[k] ELSE base[k]]

(* Mistake: the sections merged in the wrong order.                        *)
MergeDirConfOuterWins(current, new) == Overlay(new, current)

(* merge_dir_conf: the entries of the inner section win.                   *)
MergeDirConf(current, new) == Overlay(current, new)

(* Mistake: the server consulted before the directory.                     *)
MergeVarServerFirst(notes, dirOptions, var, serverValue) ==
    [notes EXCEPT ![var] =
        IF serverValue # NULL THEN serverValue
        ELSE IF dirOptions[var] # NULL THEN dirOptions[var] ELSE @]

(* merge_var: the directory's value of one of the module's own variables,  *)
(* else the server's, else what the notes already hold.                    *)
MergeVar(notes, dirOptions, var, serverValue) ==
    [notes EXCEPT ![var] =
        IF dirOptions[var] # NULL THEN dirOptions[var]
        ELSE IF serverValue # NULL THEN serverValue ELSE @]

(* What merge_var writes for RubyHandler or RubyAccessHandler: both slots  *)
(* fall back on the one handler field of the server.                       *)
SlotOf(cfg, dirOptions, slot) ==
    IF dirOptions[slot] # NULL THEN dirOptions[slot] ELSE cfg.handler

(* ruby_handler_config: the table of a declared handler; an undeclared     *)
(* name has none, and nothing is merged for it.                            *)
HandlerTable(cfg, name) ==
    IF name \in cfg.declared THEN cfg.handlers[name] ELSE EmptyTable

MergeDefaults(cfg, dirOptions, notes) ==
    LET withModule == MergeVar(notes, dirOptions, DefaultKey("Module"),
                               cfg.default["Module"])
        withClass  == MergeVar(withModule, dirOptions, DefaultKey("Class"),
                               cfg.default["Class"])
    IN  MergeVar(withClass, dirOptions, DefaultKey("Method"),
                 cfg.default["Method"])

(* Mistake: the directory's options merged before the server's.            *)
MergeOptionsServerLast(cfg, dirOptions, notes) ==
    Overlay(Overlay(notes, dirOptions), cfg.options)

(* Directory options override server options.                              *)
MergeOptions(cfg, dirOptions, notes) ==
    Overlay(Overlay(notes, cfg.options), dirOptions)

(* ruby_request_init_configuration: the notes of a request once both       *)
(* configurations and the tables of the two named handlers are merged.     *)
(* Both slots fall back on the one handler field of the server.            *)
InitConfiguration(cfg, dirOptions, notes) ==
    LET options  == MergeOptions(cfg, dirOptions, notes)
        defaults == MergeDefaults(cfg, dirOptions, options)
        content  == MergeVar(defaults, dirOptions, "RubyHandler", cfg.handler)
        loaded   == Overlay(content, HandlerTable(cfg, content["RubyHandler"]))
        access   == MergeVar(loaded, dirOptions, "RubyAccessHandler",
                             cfg.handler)
    IN  Overlay(access, HandlerTable(cfg, access["RubyAccessHandler"]))

---------------------------------------------------------------------------

(* The outcome of looking a handler up: a complete route to load, an       *)
(* incomplete one (the constructor of Handler throws logic_error), or the  *)
(* empty handler, whose object is NULL.                                    *)
Resolution ==
    [kind : {"load", "undefined", "empty"}, route : Route]

Empty == [kind |-> "empty", route |-> EmptyRoute]

(* modruby::Handler::Handler                                               *)
Handler(route) ==
    [kind  |-> IF \E p \in Part : route[p] = NULL THEN "undefined" ELSE "load",
     route |-> route]

RouteOf(table) == [p \in Part |-> table[HandlerKey(p)]]

DefaultRoute(cfg, notes) ==
    [p \in Part |-> IF notes[DefaultKey(p)] # NULL
                    THEN notes[DefaultKey(p)] ELSE cfg.default[p]]

(* ruby_request_get_handler                                                *)
GetHandler(cfg, notes) ==
    IF notes["RubyHandler"] = NULL THEN Handler(DefaultRoute(cfg, notes))
    ELSE IF notes["RubyHandler"] \in cfg.declared
         THEN Handler(RouteOf(cfg.handlers[notes["RubyHandler"]]))
         ELSE Empty

(* The entries the default branch of ruby_request_get_handler leaves in    *)
(* the notes once it has found a complete route.                           *)
NotesAfterGetHandler(cfg, notes) ==
    LET route == DefaultRoute(cfg, notes)
    IN  IF notes["RubyHandler"] = NULL /\ Handler(route).kind = "load"
        THEN [k \in Key |->
                IF \E p \in Part : HandlerKey(p) = k
                THEN route[CHOOSE p \in Part : HandlerKey(p) = k]
                ELSE notes[k]]
        ELSE notes

(* Mistake: a null pointer for an undeclared handler.                      *)
GetAccessHandlerNull(cfg, notes) ==
    IF notes["RubyAccessHandler"] \in cfg.declared
    THEN Handler(RouteOf(cfg.handlers[notes["RubyAccessHandler"]]))
    ELSE NULL

(* ruby_request_get_access_handler                                         *)
GetAccessHandler(cfg, notes) ==
    IF notes["RubyAccessHandler"] \in cfg.declared
    THEN Handler(RouteOf(cfg.handlers[notes["RubyAccessHandler"]]))
    ELSE Empty

===========================================================================
