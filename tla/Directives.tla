---------------------------- MODULE Directives ----------------------------
(***************************************************************************)
(* From the lines of the Apache configuration file to the handlers a       *)
(* request is routed to: the command handlers of src/src/mod_ruby.c fill   *)
(* one ruby_config per server and one ruby_dir_config per section; for a   *)
(* request Apache merges the sections that match it, and the module merges *)
(* the result with the server's configuration, once for the access hook    *)
(* and once for the content handler (src/src/module.cpp).                  *)
(***************************************************************************)
EXTENDS ConfigTables, Naturals

CONSTANTS
    Server,      \* server_rec: the global server and its virtual hosts
    Global,      \* the global server
    Section,     \* <Directory>, <Location> and <Files> sections
    HostOf,      \* the server whose part of the file holds a section
    MaxLines     \* bound: directive lines read

ASSUME GlobalIsServer == Global \in Server
ASSUME ContextsDisjoint == Server \intersect Section = {}
ASSUME SectionsHaveHosts == HostOf \in [Section -> Server]
ASSUME MaxLinesIsNat == MaxLines \in Nat

Context == Server \union Section

VARIABLES
    phase,    \* "config": reading the file; "rejected"; "serving"
    lines,    \* number of directive lines read
    created,  \* servers that got a ruby_config of their own
    server,   \* ruby_config of each server
    dir,      \* options of the ruby_dir_config of each section
    file,     \* history: the last argument of each directive in each context
    req       \* the request being configured

vars == <<phase, lines, created, server, dir, file, req>>

Request ==
    [stage   : {"none", "walk", "access", "content"},
     srv     : Server,
     walked  : SUBSET Section,  \* sections merged so far
     merged  : Table,           \* r->per_dir_config
     asked   : Table,           \* history: what the file asks for this request
     notes   : Table,           \* r->notes
     access  : Resolution,      \* what the access hook found
     content : Resolution]      \* what the content handler found

NoRequest ==
    [stage |-> "none", srv |-> Global, walked |-> {}, merged |-> EmptyTable,
     asked |-> EmptyTable, notes |-> EmptyTable, access |-> Empty,
     content |-> Empty]

(* Every server starts from create_config, every section from              *)
(* create_dir_conf.                                                        *)
Init ==
    /\ phase = "config"
    /\ lines = 0
    /\ created = {Global}
    /\ server = [s \in Server |-> NewServerConfig]
    /\ dir = [d \in Section |-> EmptyTable]
    /\ file = [c \in Context |-> EmptyTable]
    /\ req = NoRequest

---------------------------------------------------------------------------
(* Reading the configuration file.                                         *)

(* Apache hands one directive to its command handler.  A virtual host gets *)
(* a ruby_config at its first directive of this module, which may be in a  *)
(* section of the host.                                                    *)
ReadLine(ctx) ==
    /\ phase = "config"
    /\ lines < MaxLines
    /\ lines' = lines + 1
    /\ created' = created \union {IF ctx \in Section THEN HostOf[ctx] ELSE ctx}
    /\ UNCHANGED req

(* set_ruby_default_handler_module, _class and _method.                    *)
SetDefaultHandler(ctx, p, v) ==
    /\ ReadLine(ctx)
    /\ \/ /\ ctx \in Server
          /\ server' = [server EXCEPT ![ctx].default[p] = v]
          /\ UNCHANGED dir
       \/ /\ ctx \in Section
          /\ dir' = [dir EXCEPT ![ctx][HandlerKey(p)] = v]
          /\ UNCHANGED server
    /\ file' = [file EXCEPT ![ctx][DefaultKey(p)] = v]
    /\ UNCHANGED phase

(* set_ruby_config_var                                                     *)
SetConfigVar(ctx, k, v) ==
    /\ ReadLine(ctx)
    /\ \/ /\ ctx \in Server
          /\ server' = [server EXCEPT ![ctx].options[k] = v]
          /\ UNCHANGED dir
       \/ /\ ctx \in Section
          /\ dir' = [dir EXCEPT ![ctx][k] = v]
          /\ UNCHANGED server
    /\ file' = [file EXCEPT ![ctx][k] = v]
    /\ UNCHANGED phase

(* set_ruby_handler                                                        *)
SetHandler(ctx, h) ==
    /\ ReadLine(ctx)
    /\ \/ /\ ctx \in Server
          /\ server' = [server EXCEPT ![ctx].handler = h]
          /\ UNCHANGED dir
       \/ /\ ctx \in Section
          /\ dir' = [dir EXCEPT ![ctx]["RubyHandler"] = h]
          /\ UNCHANGED server
    /\ file' = [file EXCEPT ![ctx]["RubyHandler"] = h]
    /\ UNCHANGED phase

(* set_ruby_access_handler: in a server it writes the field RubyHandler    *)
(* writes.                                                                 *)
SetAccessHandler(ctx, h) ==
    /\ ReadLine(ctx)
    /\ \/ /\ ctx \in Server
          /\ server' = [server EXCEPT ![ctx].handler = h]
          /\ UNCHANGED dir
       \/ /\ ctx \in Section
          /\ dir' = [dir EXCEPT ![ctx]["RubyAccessHandler"] = h]
          /\ UNCHANGED server
    /\ file' = [file EXCEPT ![ctx]["RubyAccessHandler"] = h]
    /\ UNCHANGED phase

(* Mistake: a name declared again gets a new table.                        *)
DeclareAfresh(ctx, h) ==
    /\ ReadLine(ctx)
    /\ \/ /\ ctx \in Server
          /\ server' = [server EXCEPT ![ctx].declared = @ \union {h},
                                      ![ctx].handlers[h] = EmptyTable]
          /\ UNCHANGED phase
       \/ /\ ctx \in Section
          /\ phase' = "rejected"
          /\ UNCHANGED server
    /\ UNCHANGED <<dir, file>>

(* set_ruby_handler_declare: a name declared again keeps its table.        *)
Declare(ctx, h) ==
    /\ ReadLine(ctx)
    /\ \/ /\ ctx \in Server
          /\ server' = IF h \in server[ctx].declared THEN server
                       ELSE [server EXCEPT
                               ![ctx].declared = @ \union {h},
                               ![ctx].handlers[h] = EmptyTable]
          /\ UNCHANGED phase
       \/ /\ ctx \in Section
          /\ phase' = "rejected"
          /\ UNCHANGED server
    /\ UNCHANGED <<dir, file>>

(* ruby_handler_set_params, the body of RubyHandlerModule, -Class, -Method *)
(* and -Config: an error unless it is in a server, for a declared name.    *)
SetHandlerParam(ctx, h, k, v) ==
    /\ ReadLine(ctx)
    /\ \/ /\ ctx \in Server
          /\ h \in server[ctx].declared
          /\ server' = [server EXCEPT ![ctx].handlers[h][k] = v]
          /\ UNCHANGED phase
       \/ /\ ctx \in Server => h \notin server[ctx].declared
          /\ phase' = "rejected"
          /\ UNCHANGED server
    /\ UNCHANGED <<dir, file>>

FinishConfig ==
    /\ phase = "config"
    /\ phase' = "serving"
    /\ UNCHANGED <<lines, created, server, dir, file, req>>

Configure ==
    \/ \E ctx \in Context, v \in Text :
        \/ \E p \in Part : SetDefaultHandler(ctx, p, v)
        \/ \E k \in Option : SetConfigVar(ctx, k, v)
        \/ \E h \in HandlerName, k \in HandlerKeys \union Option :
               SetHandlerParam(ctx, h, k, v)
    \/ \E ctx \in Context, h \in HandlerName :
        SetHandler(ctx, h) \/ SetAccessHandler(ctx, h) \/ Declare(ctx, h)
    \/ FinishConfig

---------------------------------------------------------------------------
(* Configuring a request.                                                  *)

(* ruby_server_config: no merge function is registered for servers, so a   *)
(* server with a ruby_config of its own sees nothing of the global one.    *)
ConfigServer(s) == IF s \in created THEN s ELSE Global
ConfigOf(s) == server[ConfigServer(s)]

configChanges == <<phase, lines, created, server, dir, file>>

BeginRequest(s) ==
    /\ phase = "serving"
    /\ req.stage = "none"
    /\ req' = [NoRequest EXCEPT !.stage = "walk", !.srv = s,
                                !.asked = file[ConfigServer(s)]]
    /\ UNCHANGED configChanges

(* Apache merges the sections that match, outermost first: the ones of the *)
(* global server and of the request's own.                                 *)
MergeSection(d) ==
    /\ req.stage = "walk"
    /\ HostOf[d] \in {Global, req.srv}
    /\ d \notin req.walked
    /\ req' = [req EXCEPT !.walked = @ \union {d},
                          !.merged = MergeDirConf(@, dir[d]),
                          !.asked = Overlay(@, file[d])]
    /\ UNCHANGED configChanges

(* The access hook: ruby_request_init_configuration, then                  *)
(* ruby_request_get_access_handler.                                        *)
ConfigureAccess ==
    /\ req.stage = "walk"
    /\ LET cfg   == ConfigOf(req.srv)
           notes == InitConfiguration(cfg, req.merged, req.notes)
       IN  req' = [req EXCEPT !.stage = "access", !.notes = notes,
                              !.access = GetAccessHandler(cfg, notes)]
    /\ UNCHANGED configChanges

(* The content handler: the notes are merged again, in place.              *)
ConfigureContent ==
    /\ req.stage = "access"
    /\ LET cfg   == ConfigOf(req.srv)
           notes == InitConfiguration(cfg, req.merged, req.notes)
       IN  req' = [req EXCEPT !.stage = "content",
                              !.notes = NotesAfterGetHandler(cfg, notes),
                              !.content = GetHandler(cfg, notes)]
    /\ UNCHANGED configChanges

EndRequest ==
    /\ req.stage = "content"
    /\ req' = NoRequest
    /\ UNCHANGED configChanges

ServeRequest ==
    \/ \E s \in Server : BeginRequest(s)
    \/ \E d \in Section : MergeSection(d)
    \/ ConfigureAccess
    \/ ConfigureContent
    \/ EndRequest

Next == Configure \/ ServeRequest

Spec == Init /\ [][Next]_vars

---------------------------------------------------------------------------

(* Every table, slot and resolution holds a value of its kind.             *)
TypeOK ==
    /\ phase \in {"config", "rejected", "serving"}
    /\ lines \in 0..MaxLines
    /\ created \in SUBSET Server
    /\ server \in [Server -> ServerConfig]
    /\ dir \in [Section -> Table]
    /\ file \in [Context -> Table]
    /\ req \in Request

---------------------------------------------------------------------------
(* What the file asks of a request.                                        *)

ServerFile == file[ConfigServer(req.srv)]

(* Some section of the request gives directive k.                          *)
InSection(k) == \E d \in req.walked : file[d][k] # NULL

(* A handler by the name the file gives it.                                *)
Named(h) ==
    LET cfg == ConfigOf(req.srv)
    IN  IF h \in cfg.declared THEN Handler(RouteOf(cfg.handlers[h])) ELSE Empty

(* The content handler of a request is the one RubyHandler names in the    *)
(* innermost section that has one, else in the server; without a           *)
(* RubyHandler it is the server's default route (module.cpp:419-423).  It  *)
(* holds as long as the server has no RubyAccessHandler, or a section      *)
(* decides, and no section gives a RubyDefaultHandler directive.           *)
ContentRoutedAsAsked ==
    req.stage = "content" =>
        /\ /\ req.asked["RubyHandler"] # NULL
           /\ ServerFile["RubyAccessHandler"] = NULL \/ InSection("RubyHandler")
           => req.content = Named(req.asked["RubyHandler"])
        /\ /\ req.asked["RubyHandler"] = NULL
           /\ ServerFile["RubyAccessHandler"] = NULL
           /\ \A p \in Part : ~ InSection(DefaultKey(p))
           => req.content = Handler([p \in Part |-> req.asked[DefaultKey(p)]])

(* The access handler of a request is the one RubyAccessHandler names in   *)
(* the innermost section that has one, else in the server, and there is    *)
(* none without that directive (module.cpp:565-568), as long as the server *)
(* has no RubyHandler or a section decides.                                *)
AccessRoutedAsAsked ==
    req.stage \in {"access", "content"} =>
        /\ /\ req.asked["RubyAccessHandler"] # NULL
           /\ ServerFile["RubyHandler"] = NULL \/ InSection("RubyAccessHandler")
           => req.access = Named(req.asked["RubyAccessHandler"])
        /\ /\ req.asked["RubyAccessHandler"] = NULL
           /\ ServerFile["RubyHandler"] = NULL
           => req.access = Empty

(* A user's variable that no named handler's table sets has, once the      *)
(* content handler has merged the notes again, the value of the innermost  *)
(* section that sets it, else the server's; one of the content handler's   *)
(* own table has its value there, unless a section or the access handler's *)
(* table sets it too (module.cpp:314-407).                                 *)
OptionPrecedence ==
    req.stage = "content" =>
        LET tableOf(slot) == HandlerTable(ConfigOf(req.srv), req.notes[slot])
        IN  \A k \in Option :
              tableOf("RubyAccessHandler")[k] = NULL =>
                /\ tableOf("RubyHandler")[k] = NULL
                      => req.notes[k] = req.asked[k]
                /\ tableOf("RubyHandler")[k] # NULL /\ ~ InSection(k)
                      => req.notes[k] = tableOf("RubyHandler")[k]

(* While no access handler takes part, the notes name the handler that     *)
(* runs (module.cpp:550).                                                  *)
NotesNameTheHandler ==
    req.stage = "content" /\ req.access = Empty /\ req.content.kind = "load"
        => RouteOf(req.notes) = req.content.route

(* The inductive invariant behind the four properties above.               *)

(* The tables hold what the file says, and nothing else.  The one field of *)
(* a server for both slots holds the one directive, if only one is given.  *)
StoredAsRead ==
    /\ \A s \in Server :
          /\ \A p \in Part : server[s].default[p] = file[s][DefaultKey(p)]
          /\ \A k \in Option : server[s].options[k] = file[s][k]
          /\ \A k \in Key \ Option : server[s].options[k] = NULL
          /\ \A h \in HandlerName, k \in Slots \union DefaultKeys :
                server[s].handlers[h][k] = NULL
          /\ file[s]["RubyAccessHandler"] = NULL
                => server[s].handler = file[s]["RubyHandler"]
          /\ file[s]["RubyHandler"] = NULL
                => server[s].handler = file[s]["RubyAccessHandler"]
    /\ \A d \in Section :
          /\ \A k \in Slots \union Option : dir[d][k] = file[d][k]
          /\ \A p \in Part : dir[d][DefaultKey(p)] = NULL

(* The merged sections of a request hold what the file asks, and leave to  *)
(* the server what no section gives.                                       *)
MergedAsAsked ==
    req.stage # "none" =>
        /\ phase = "serving"
        /\ \A k \in Slots \union Option :
              IF InSection(k)
              THEN req.asked[k] # NULL /\ req.merged[k] = req.asked[k]
              ELSE req.merged[k] = NULL /\ req.asked[k] = ServerFile[k]
        /\ \A p \in Part :
              /\ req.merged[DefaultKey(p)] = NULL
              /\ ~ InSection(DefaultKey(p))
                    => req.asked[DefaultKey(p)] = ServerFile[DefaultKey(p)]

(* The notes hold what both configurations merge to, however often they    *)
(* were merged, and the handlers found are the ones the notes name.        *)
NotesAsMerged ==
    LET cfg == ConfigOf(req.srv)
        tableOf(slot) == HandlerTable(cfg, SlotOf(cfg, req.merged, slot))
    IN  /\ req.stage = "walk" => req.notes = EmptyTable
        /\ req.stage \in {"access", "content"} =>
              /\ req.access = GetAccessHandler(cfg, req.notes)
              /\ \A slot \in Slots :
                    req.notes[slot] = SlotOf(cfg, req.merged, slot)
              /\ \A p \in Part : req.notes[DefaultKey(p)] = cfg.default[p]
              /\ \A k \in Option : req.notes[k] =
                    IF tableOf("RubyAccessHandler")[k] # NULL
                    THEN tableOf("RubyAccessHandler")[k]
                    ELSE IF tableOf("RubyHandler")[k] # NULL
                    THEN tableOf("RubyHandler")[k]
                    ELSE IF req.merged[k] # NULL
                    THEN req.merged[k] ELSE cfg.options[k]
        /\ req.stage = "content" =>
              /\ req.content = GetHandler(cfg, req.notes)
              /\ req.access = Empty /\ req.content.kind = "load"
                    => RouteOf(req.notes) = req.content.route

(* From a line of the file to the notes of a request, nothing a directive  *)
(* says is lost or moved.                                                  *)
RoutingInv == StoredAsRead /\ MergedAsAsked /\ NotesAsMerged

(* Declaring a handler again, or anything else the file says later, loses  *)
(* neither a declaration nor a parameter of a handler (mod_ruby.c:335).    *)
HandlersOnlyGrow ==
    [][\A s \in Server : \A h \in server[s].declared :
          /\ h \in server'[s].declared
          /\ \A k \in Key : server[s].handlers[h][k] # NULL
                            => server'[s].handlers[h][k] # NULL]_vars

---------------------------------------------------------------------------
(* What the code says, and does not do.                                    *)

(* "Look for RubyAccessHandler directive in dir_config or server_config.   *)
(* If not present, do nothing" (module.cpp:565-566).                       *)
AccessOnlyWhenAsked ==
    req.stage = "access" /\ req.asked["RubyAccessHandler"] = NULL
        => req.access = Empty

===========================================================================
