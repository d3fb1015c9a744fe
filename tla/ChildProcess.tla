--------------------------- MODULE ChildProcess ---------------------------
(***************************************************************************)
(* One Apache child with mod_ruby in it, from the child_init hook to the   *)
(* cleanup of its pool: it starts the Ruby VM, serves requests one at a    *)
(* time (prefork MPM) through the access hook and the content handlers,    *)
(* keeps the Ruby objects it made for the handlers, and shuts them down    *)
(* (src/src/module.cpp, src/src/mod_ruby.c).  A handler may run a nested   *)
(* request with internal_redirect, so requests form a stack.               *)
(*                                                                         *)
(* Ruby code is the environment: a handler's method, and what runs while   *)
(* its module is loaded and its object made, may set the status, write     *)
(* notes, start a nested request, return, or raise anything.               *)
(***************************************************************************)
EXTENDS ConfigTables, Naturals, Sequences

CONSTANTS
    Config,      \* ruby_config of the server
    Location,    \* places a request may ask for
    DirOptions,  \* merged ruby_dir_config options of each location
    Hook,        \* values of r->handler
    HTTP_OK,     \* r->status of a request without an error
    Status,      \* values of r->status
    MaxDepth,    \* bound: nested requests
    MaxObjects   \* bound: handler objects made by one child

ASSUME ConfigIsServerConfig == Config \in ServerConfig
ASSUME DirOptionsAreTables == DirOptions \in [Location -> Table]
(* What Directives builds: a section never sets a key of the default route *)
(* and a variable of the user never one of the module's own keys.          *)
ASSUME ConfigurationIsBuilt ==
    /\ \A loc \in Location, k \in DefaultKeys : DirOptions[loc][k] = NULL
    /\ \A k \in Key \ Option : Config.options[k] = NULL
    /\ \A h \in HandlerName, k \in Slots \union DefaultKeys :
           Config.handlers[h][k] = NULL
ASSUME HooksAreKnown == Hook \subseteq {"ruby-handler", "ruby-script-handler",
                                        "ruby-rhtml-handler", "other"}
ASSUME FreshStatus == HTTP_OK \in Status
ASSUME BoundsAreNat == MaxDepth \in Nat \ {0} /\ MaxObjects \in Nat

(* The exceptions the hooks tell apart; the rest, and logic_error, are     *)
(* "Error".                                                                *)
Utility == {"ModRuby::Redirect", "ModRuby::RequestTermination"}
Exception == Utility \union {"Error"}

(* The keys of the handlers map: Handler::id() of every complete route the *)
(* configuration can resolve to.                                           *)
Complete(routes) == {r \in routes : \A p \in Part : r[p] # NULL}
Routes == Complete({RouteOf(Config.handlers[h]) : h \in Config.declared}
                   \union {Config.default})
Object == 1..MaxObjects

(* What a hook returns to Apache: a code of its own or a status, which is  *)
(* none of these codes.                                                    *)
Code == {"OK", "DECLINED", "DONE"}
ASSUME StatusIsNoCode == Status \intersect Code = {}
ASSUME NullIsNothing ==
    /\ NULL \notin Object /\ NULL \notin Exception
    /\ NULL \notin Code /\ NULL \notin Status

VARIABLES
    child,        \* where the process is in its life
    rubyHandler,  \* ruby_handler is not NULL
    required,     \* modules rb_require has loaded
    handlers,     \* map from handler ids to objects
    registered,   \* Objects::objects, the array the collector scans
    made,         \* number of handler objects made
    shutdowns,    \* history: calls of shutdown on each object
    pending,      \* handlers the shutdown loop has yet to visit
    stack         \* requests, the innermost last

vm == <<rubyHandler, required, handlers, registered, made>>
vars == <<child, vm, shutdowns, pending, stack>>

Frame ==
    [loc      : Location,
     hook     : Hook,
     step     : {"access", "in access", "content", "in content", "finished"},
     notes    : Table,
     status   : Status,                     \* r->status
     rc       : Status,                     \* r->status when the hook began
     loading  : {"no", "requiring", "creating"},
     route    : Routes \union {NULL},       \* handler that loads or runs
     object   : Object \union {NULL},       \* its object, while that runs
     since    : 0..MaxObjects,              \* history: made, when its
                                            \* constructor was called
     ran      : BOOLEAN,                    \* history: its method was called
     raised   : Exception \union {NULL},    \* history: what ended a hook
     reported : BOOLEAN,                    \* history: an error was logged
     access   : Code \union Status \union {NULL},
     result   : Code \union Status \union {NULL}]

NewFrame(loc, hook, status) ==
    [loc |-> loc, hook |-> hook, step |-> "access", notes |-> EmptyTable,
     status |-> status, rc |-> status, loading |-> "no", route |-> NULL,
     object |-> NULL, since |-> 0, ran |-> FALSE,
     raised |-> NULL, reported |-> FALSE, access |-> NULL, result |-> NULL]

(* Apache gives a request the status of the one it continues; where that   *)
(* has no error yet, another module may meet one before our hooks, and the *)
(* request is for the page of that error.                                  *)
BeginsWith(status) == IF status = HTTP_OK THEN Status ELSE {status}

Top == stack[Len(stack)]
Put(i, f) == stack' = [stack EXCEPT ![i] = f]
Replace(f) == Put(Len(stack), f)

---------------------------------------------------------------------------
(* The Ruby library (ruby.cpp).  Its registry of objects is a singleton    *)
(* that is made when the first object is registered; the exceptions Ruby   *)
(* code raises reach C++ as ruby::Exception, with the name of their class. *)

Startup == required' = {} /\ registered' = {}
Require(module) == required' = required \union {module}
CreateObject == made < MaxObjects /\ made' = made + 1
Register(object) == registered' = registered \union {object}
FreeAll == registered' = {}

---------------------------------------------------------------------------

FreshProcess ==
    /\ Startup
    /\ handlers' = [r \in Routes |-> NULL]
    /\ made' = 0
    /\ shutdowns' = [o \in Object |-> 0]
    /\ pending' = {}
    /\ stack' = <<>>

Init ==
    /\ child = "none"
    /\ rubyHandler = FALSE
    /\ required = {}
    /\ handlers = [r \in Routes |-> NULL]
    /\ registered = {}
    /\ made = 0
    /\ shutdowns = [o \in Object |-> 0]
    /\ pending = {}
    /\ stack = <<>>

---------------------------------------------------------------------------
(* Life of the child.                                                      *)

(* ruby_child_init_hook: it ignores what ruby_init_module returns, so a    *)
(* child whose modruby/handler did not load serves without ruby_handler.   *)
(* The parent forks a new child for one that exited or crashed.            *)
InitModule(ok) ==
    /\ child \in {"none", "exited", "crashed"}
    /\ child' = "serving"
    /\ rubyHandler' = ok
    /\ FreshProcess

BeginRequest(loc, hook, status) ==
    /\ child = "serving"
    /\ stack = <<>>
    /\ status \in BeginsWith(HTTP_OK)
    /\ stack' = <<NewFrame(loc, hook, status)>>
    /\ UNCHANGED <<child, vm, shutdowns, pending>>

(* The pool of the child is destroyed: ruby_shutdown_module begins.        *)
StopChild ==
    /\ child = "serving"
    /\ stack = <<>>
    /\ child' = "stopping"
    /\ pending' = {r \in Routes : handlers[r] # NULL}
    /\ UNCHANGED <<vm, shutdowns, stack>>

(* Mistake: the first handler that raises ends the loop.                   *)
ShutdownHandlerStops(r, raised) ==
    /\ child = "stopping"
    /\ r \in pending
    /\ shutdowns' = [shutdowns EXCEPT ![handlers[r]] = @ + 1]
    /\ pending' = IF raised THEN {} ELSE pending \ {r}
    /\ UNCHANGED <<child, vm, stack>>

(* Mistake: nobody catches what a handler raises.                          *)
ShutdownHandlerUncaught(r, raised) ==
    /\ child = "stopping"
    /\ r \in pending
    /\ shutdowns' = [shutdowns EXCEPT ![handlers[r]] = @ + 1]
    /\ child' = IF raised THEN "crashed" ELSE child
    /\ pending' = pending \ {r}
    /\ UNCHANGED <<vm, stack>>

(* One turn of the loop over the handlers: whatever "shutdown" raises is   *)
(* logged and the loop goes on.                                            *)
ShutdownHandler(r, raised) ==
    /\ child = "stopping"
    /\ r \in pending
    /\ shutdowns' = [shutdowns EXCEPT ![handlers[r]] = @ + 1]
    /\ pending' = pending \ {r}
    /\ UNCHANGED <<child, vm, stack>>

(* The rest of ruby_shutdown_module: ModRuby::Handler#shutdown is empty,   *)
(* then free_all drops the registry and the VM is cleaned up.              *)
ShutdownVM ==
    /\ child = "stopping"
    /\ pending = {}
    /\ child' = "exited"
    /\ rubyHandler' = FALSE
    /\ FreeAll
    /\ UNCHANGED <<required, handlers, made, shutdowns, pending, stack>>

---------------------------------------------------------------------------
(* Entering a hook.  Both hooks that resolve a handler first merge the     *)
(* configuration into the notes of the request.                            *)

Resolving(f) ==
    /\ f.loading = "no"
    /\ \/ f.step = "access"
       \/ f.step = "content" /\ f.hook = "ruby-handler"

(* Mistake: the configuration merged for the access hook only.             *)
MergedNotesOnce(f) ==
    IF f.step = "access"
    THEN InitConfiguration(Config, DirOptions[f.loc], f.notes) ELSE f.notes

MergedNotes(f) == InitConfiguration(Config, DirOptions[f.loc], f.notes)

Resolve(f) ==
    IF f.step = "access" THEN GetAccessHandler(Config, MergedNotes(f))
    ELSE GetHandler(Config, MergedNotes(f))

(* Mistake: the status to compare with is never read.                      *)
EnteredUnset(f) ==
    [f EXCEPT !.rc = NULL,
              !.notes = IF f.step = "access" THEN MergedNotes(f)
                        ELSE NotesAfterGetHandler(Config, MergedNotes(f))]

(* The frame once the hook has merged the configuration.                   *)
Entered(f) ==
    [f EXCEPT !.rc = f.status,
              !.notes = IF f.step = "access" THEN MergedNotes(f)
                        ELSE NotesAfterGetHandler(Config, MergedNotes(f))]

(* The last hook has returned: nobody reads its rc or the notes again.     *)
Finished(f, code) == [f EXCEPT !.step = "finished", !.result = code,
                               !.rc = f.status, !.notes = EmptyTable]

(* A hook returns a code.  Apache goes on from the access hook to the      *)
(* content handler on OK and DECLINED only.                                *)
HookReturns(f, code) ==
    IF f.step \in {"content", "in content"}
    THEN Finished(f, code)
    ELSE IF code \in {"OK", "DECLINED"}
    THEN [f EXCEPT !.step = "content", !.access = code]
    ELSE Finished([f EXCEPT !.access = code], code)

(* Mistake: the access hook returns what the content handlers return.      *)
CaughtOK(f) == "OK"

(* What the catch blocks of a hook return, whatever was thrown: the access *)
(* hook ends the request, a content handler has produced its response.     *)
Caught(f) == IF f.step \in {"access", "in access"} THEN "DONE" ELSE "OK"

(* The hook is done with its handler.                                      *)
Left(f) == [f EXCEPT !.loading = "no", !.route = NULL, !.object = NULL,
                     !.since = 0]

(* The catch blocks: Redirect and RequestTermination end the request       *)
(* silently, any other exception is printed and logged.                    *)
Throw(f, exception) ==
    HookReturns([Left(f) EXCEPT !.raised = exception,
                                !.reported = @ \/ exception \notin Utility],
                Caught(f))

(* Mistake: the content handler does not say that it has no handler.       *)
HookEmptySilent ==
    /\ stack # <<>> /\ Resolving(Top)
    /\ Resolve(Top).kind = "empty"
    /\ Replace(HookReturns(Entered(Top),
                           IF Top.step = "access" THEN "DECLINED" ELSE "OK"))
    /\ UNCHANGED <<child, vm, shutdowns, pending>>

(* The empty handler: the access hook declines, the content handler says   *)
(* it failed to load one.                                                  *)
HookEmpty ==
    /\ stack # <<>> /\ Resolving(Top)
    /\ Resolve(Top).kind = "empty"
    /\ Replace(IF Top.step = "access"
               THEN HookReturns(Entered(Top), "DECLINED")
               ELSE HookReturns([Entered(Top) EXCEPT !.reported = TRUE], "OK"))
    /\ UNCHANGED <<child, vm, shutdowns, pending>>

(* An incomplete route: logic_error.                                       *)
HookUndefined ==
    /\ stack # <<>> /\ Resolving(Top)
    /\ Resolve(Top).kind = "undefined"
    /\ Replace(Throw(Entered(Top), "Error"))
    /\ UNCHANGED <<child, vm, shutdowns, pending>>

---------------------------------------------------------------------------
(* ruby_request_load_handler: the handler's module is required, its object *)
(* looked up, or made and stored.  The module's code and the constructor   *)
(* are Ruby code, which runs between these steps.                          *)

(* Ruby loads a file once, and not again while it is loading it.           *)
Loads(module) ==
    /\ module \notin required
    /\ \A i \in 1..Len(stack) :
          stack[i].loading = "requiring" => stack[i].route["Module"] # module

(* The handler's method is called with the request.                        *)
Calls(f, route, object) ==
    [f EXCEPT !.step = IF @ = "access" THEN "in access" ELSE "in content",
              !.loading = "no", !.since = 0,
              !.route = route, !.object = object, !.ran = TRUE]

(* Mistake: an object is made for every request.                           *)
LookUpAnew(f, route) ==
    [f EXCEPT !.loading = "creating", !.route = route, !.since = made]

(* The look-up of a loaded handler: its object is called, or made first.   *)
LookUp(f, route) ==
    IF handlers[route] # NULL
    THEN Calls(f, route, handlers[route])
    ELSE [f EXCEPT !.loading = "creating", !.route = route, !.since = made]

HookLoads ==
    /\ stack # <<>> /\ Resolving(Top)
    /\ LET res == Resolve(Top)
       IN  /\ res.kind = "load"
           /\ Replace(IF Loads(res.route["Module"])
                      THEN [Entered(Top) EXCEPT !.loading = "requiring",
                                                !.route = res.route]
                      ELSE LookUp(Entered(Top), res.route))
    /\ UNCHANGED <<child, vm, shutdowns, pending>>

RequireReturns ==
    /\ stack # <<>> /\ Top.loading = "requiring"
    /\ Require(Top.route["Module"])
    /\ Replace(LookUp(Top, Top.route))
    /\ UNCHANGED <<child, rubyHandler, handlers, registered, made,
                   shutdowns, pending>>

RequireRaises(exception) ==
    /\ stack # <<>> /\ Top.loading = "requiring"
    /\ Replace(Throw(Top, exception))
    /\ UNCHANGED <<child, vm, shutdowns, pending>>

(* Mistake: the object is not registered with the collector.               *)
StoreUnregistered(route) ==
    /\ made < MaxObjects
    /\ made' = made + 1
    /\ handlers' = [handlers EXCEPT ![route] = made + 1]
    /\ UNCHANGED registered

(* A new object is registered with the collector and stored, over what a   *)
(* nested request may have stored for the route meanwhile.                 *)
Store(route) ==
    /\ CreateObject
    /\ Register(made')
    /\ handlers' = [handlers EXCEPT ![route] = made']

CreateReturns ==
    /\ stack # <<>> /\ Top.loading = "creating"
    /\ Store(Top.route)
    /\ Replace(Calls(Top, Top.route, made'))
    /\ UNCHANGED <<child, rubyHandler, required, shutdowns, pending>>

(* The exception that replaces what a constructor raises has no type.      *)
CreateRaises ==
    /\ stack # <<>> /\ Top.loading = "creating"
    /\ Replace(Throw(Top, "Error"))
    /\ UNCHANGED <<child, vm, shutdowns, pending>>

---------------------------------------------------------------------------
(* ruby_generic_handler: rhtml and script call the one ruby_handler.       *)
Generic(f) == f.step = "content"
              /\ f.hook \in {"ruby-script-handler", "ruby-rhtml-handler"}

ScriptRuns ==
    /\ stack # <<>> /\ Generic(Top)
    /\ rubyHandler
    /\ Replace([Top EXCEPT !.step = "in content", !.rc = Top.status,
                           !.ran = TRUE])
    /\ UNCHANGED <<child, vm, shutdowns, pending>>

(* ... even when it is NULL.                                               *)
ScriptCrashes ==
    /\ stack # <<>> /\ Generic(Top)
    /\ ~ rubyHandler
    /\ child' = "crashed"
    /\ stack' = <<>>
    /\ UNCHANGED <<vm, shutdowns, pending>>

(* r->handler is none of ours: all three content handlers decline, and     *)
(* another module serves the request.                                      *)
ServedElsewhere ==
    /\ stack # <<>> /\ Top.step = "content" /\ Top.hook = "other"
    /\ Replace(Finished(Top, "DECLINED"))
    /\ UNCHANGED <<child, vm, shutdowns, pending>>

---------------------------------------------------------------------------
(* Ruby code running in the innermost request: a method, a module that is  *)
(* being loaded, or a constructor.  It reaches the requests whose handlers *)
(* got them, and by their "next" the ones nested in them.                  *)

RunsMethod(f) == f.step \in {"in access", "in content"}
RunsRuby(f) == RunsMethod(f) \/ f.loading # "no"
Running == stack # <<>> /\ RunsMethod(Top)
InRuby == stack # <<>> /\ RunsRuby(Top)
Held(i) == i > 1 \/ stack[i].ran

RubySetStatus(i, status) ==
    /\ InRuby /\ Held(i)
    /\ Put(i, [stack[i] EXCEPT !.status = status])
    /\ UNCHANGED <<child, vm, shutdowns, pending>>

RubySetNote(i, key, value) ==
    /\ InRuby /\ Held(i)
    /\ Put(i, [stack[i] EXCEPT !.notes[key] = value])
    /\ UNCHANGED <<child, vm, shutdowns, pending>>

(* m_internal_redirect: Apache processes a request of its own, hooks and   *)
(* all, before the method returns.                                         *)
RubyInternalRedirect(i, loc, hook, status) ==
    /\ InRuby /\ Held(i)
    /\ Len(stack) < MaxDepth
    /\ status \in BeginsWith(stack[i].status)
    /\ stack' = Append(stack, NewFrame(loc, hook, status))
    /\ UNCHANGED <<child, vm, shutdowns, pending>>

(* The end of a hook: a changed status is what it returns.                 *)
RubyReturn ==
    /\ Running
    /\ Replace(HookReturns(Left(Top),
                           IF Top.status # Top.rc THEN Top.status ELSE "OK"))
    /\ UNCHANGED <<child, vm, shutdowns, pending>>

(* Runner#setup rescues every exception of a script but those of its own   *)
(* rescue clause, so only an error reaches ruby_generic_handler.           *)
RubyRaise(exception) ==
    /\ Running
    /\ Top.step = "in content" /\ Top.hook # "ruby-handler"
          => exception \notin Utility
    /\ Replace(Throw(Top, exception))
    /\ UNCHANGED <<child, vm, shutdowns, pending>>

(* Apache finishes a request, or an internal redirect returns.             *)
EndRequest ==
    /\ stack # <<>> /\ Top.step = "finished"
    /\ stack' = SubSeq(stack, 1, Len(stack) - 1)
    /\ UNCHANGED <<child, vm, shutdowns, pending>>

---------------------------------------------------------------------------

Hooks ==
    \/ HookEmpty
    \/ HookUndefined
    \/ HookLoads
    \/ RequireReturns
    \/ \E e \in Exception : RequireRaises(e)
    \/ CreateReturns
    \/ CreateRaises
    \/ ScriptRuns
    \/ ScriptCrashes
    \/ ServedElsewhere

Ruby ==
    \/ \E i \in 1..Len(stack), s \in Status : RubySetStatus(i, s)
    \/ \E i \in 1..Len(stack), h \in HandlerName :
           RubySetNote(i, "RubyHandler", h)
    \/ \E i \in 1..Len(stack), loc \in Location, hook \in Hook, s \in Status :
           RubyInternalRedirect(i, loc, hook, s)
    \/ RubyReturn
    \/ \E e \in Exception : RubyRaise(e)

Next ==
    \/ \E ok \in BOOLEAN : InitModule(ok)
    \/ \E loc \in Location, hook \in Hook, s \in Status :
           BeginRequest(loc, hook, s)
    \/ Hooks
    \/ Ruby
    \/ EndRequest
    \/ StopChild
    \/ \E r \in Routes, raised \in BOOLEAN : ShutdownHandler(r, raised)
    \/ ShutdownVM

Spec == Init /\ [][Next]_vars

(* The shutdown of a child is a loop of the module over calls that return. *)
Fairness ==
    /\ WF_vars(\E r \in Routes, raised \in BOOLEAN : ShutdownHandler(r, raised))
    /\ WF_vars(ShutdownVM)

FairSpec == Spec /\ Fairness

---------------------------------------------------------------------------

(* The state of the process and of every request on the stack has its kind. *)
TypeOK ==
    /\ child \in {"none", "serving", "stopping", "exited", "crashed"}
    /\ rubyHandler \in BOOLEAN
    /\ required \in SUBSET Value
    /\ handlers \in [Routes -> Object \union {NULL}]
    /\ registered \in SUBSET Object
    /\ made \in 0..MaxObjects
    /\ shutdowns \in [Object -> Nat]
    /\ pending \in SUBSET Routes
    /\ stack \in Seq(Frame)
    /\ Len(stack) <= MaxDepth

(* A request whose access handler raised, could not be resolved, or        *)
(* changed the status is never served: no content handler, ours or another *)
(* module's, gets to it (module.cpp:859-966).                              *)
RefusedNeverServed ==
    \A i \in 1..Len(stack) :
        LET f == stack[i]
        IN  \/ f.step \in {"content", "in content"}
            \/ f.step = "finished" /\ f.result = "DECLINED"
            => /\ f.raised = NULL
               /\ f.access = "OK" => f.ran
               /\ f.step = "content" /\ f.loading = "no" => f.status = f.rc

(* Where the configuration gives a RubyHandler, the content handler that   *)
(* runs is that one, whatever the access handler or an earlier request     *)
(* wrote to the notes: the content hook merges the configuration again     *)
(* (module.cpp:632-638).                                                   *)
ConfiguredContentRuns ==
    \A i \in 1..Len(stack) :
        LET f    == stack[i]
            name == DirOptions[f.loc]["RubyHandler"]
        IN  f.step = "in content" /\ f.hook = "ruby-handler" /\ name # NULL
            => f.object = handlers[RouteOf(Config.handlers[name])]

(* While a child serves, the object of a route is never dropped or shared  *)
(* with another route.  It is replaced only by an object whose constructor *)
(* was running when it was made, in a request nested in that constructor,  *)
(* and never under a request that runs its method (module.cpp:429-461).    *)
OneObjectPerRoute ==
    [][child = "serving" =>
        \A r \in Routes :
            /\ handlers[r] # NULL /\ handlers'[r] # handlers[r] =>
                  /\ handlers'[r] # NULL
                  /\ Top.loading = "creating" /\ Top.route = r
                  /\ handlers[r] > Top.since
                  /\ \A i \in 1..Len(stack) : stack[i].object # handlers[r]
            /\ \A q \in Routes : handlers'[r] # NULL /\ q # r
                                 => handlers'[q] # handlers'[r]]_vars

(* While the VM is up, the collector sees every object C++ holds: the ones *)
(* in the map and the ones whose method is running, at any depth           *)
(* (ruby.cpp:22, ruby.cpp:113).                                            *)
HeldObjectsAreRooted ==
    child \in {"serving", "stopping"} =>
        /\ \A r \in Routes : handlers[r] # NULL => handlers[r] \in registered
        /\ \A i \in 1..Len(stack) :
              stack[i].object # NULL => stack[i].object \in registered

(* The object whose method runs is the one the map holds for its route, at *)
(* any depth and whatever nested requests stored (module.cpp:429-461).     *)
RunningRouteIsStored ==
    \A i \in 1..Len(stack) :
        stack[i].object # NULL =>
            /\ stack[i].route \in Routes
            /\ handlers[stack[i].route] = stack[i].object

(* When the child exits, every handler object of the map has been told to  *)
(* shut down, once, whatever the others raised, and no other object has    *)
(* (module.cpp:205-234).                                                   *)
ShutdownReachesAll ==
    child = "exited" =>
        \A o \in Object :
            shutdowns[o] = IF \E r \in Routes : handlers[r] = o THEN 1 ELSE 0

(* A request ends without any Ruby code having run for it only if that was *)
(* reported, another module served it, or a module that was being loaded   *)
(* ended it on purpose (module.cpp:640-651); and what ends a hook on       *)
(* purpose, Redirect or RequestTermination, is not reported as an error    *)
(* (module.cpp:671-685).                                                   *)
NothingFailsSilently ==
    \A i \in 1..Len(stack) :
        LET f == stack[i]
        IN  /\ f.step = "finished" =>
                  f.ran \/ f.reported \/ f.hook = "other" \/ f.raised \in Utility
            /\ f.raised \in Utility => ~ f.reported

(* The inductive invariant behind the properties above.                    *)

(* The route a hook loads or runs is the one the location names.           *)
NamedByLocation(f) ==
    LET name == DirOptions[f.loc]["RubyHandler"]
    IN  name # NULL => f.route = RouteOf(Config.handlers[name])

(* A request on the stack, when "map" is the map of objects and "last" the *)
(* last one made.                                                          *)
FrameInv(f, map, last) ==
    /\ \A p \in Part : f.notes[DefaultKey(p)] \in {NULL, Config.default[p]}
    /\ f.object # NULL =>
          /\ f.step \in {"in access", "in content"}
          /\ f.route \in Routes /\ map[f.route] = f.object
    /\ f.loading # "no" =>
          /\ f.step \in {"access", "content"}
          /\ f.step = "content" => f.hook = "ruby-handler"
          /\ f.route \in Routes
    /\ f.loading = "creating" =>
          /\ f.since <= last
          /\ map[f.route] # NULL => map[f.route] > f.since
    /\ f.step = "in content" /\ f.hook = "ruby-handler" => f.object # NULL
    /\ \/ f.step = "in content" /\ f.hook = "ruby-handler"
       \/ f.step = "content" /\ f.loading # "no"
       => NamedByLocation(f)
    /\ f.step = "content" /\ f.loading = "no" => f.status = f.rc
    /\ f.step \in {"in access", "in content"} \/ f.access = "OK" => f.ran
    /\ f.step # "finished" \/ f.result = "DECLINED" => f.raised = NULL
    /\ f.step # "finished" \/ f.raised \in Utility => ~ f.reported
    /\ f.step = "finished" =>
          f.ran \/ f.reported \/ f.hook = "other" \/ f.raised \in Utility

(* A nested request was started by Ruby code of the one below it, and no   *)
(* constructor runs inside a method of its own route.                      *)
NestingInv ==
    /\ \A i \in 1..Len(stack) : i < Len(stack) => RunsRuby(stack[i])
    /\ \A i, j \in 1..Len(stack) :
          j < i /\ stack[j].object # NULL /\ stack[i].loading = "creating"
          => stack[j].route # stack[i].route

(* The map, the registry and the shutdown loop agree on the objects made.  *)
ProcessInv ==
    /\ child # "serving" => stack = <<>>
    /\ \A r \in Routes : handlers[r] # NULL => handlers[r] \in 1..made
    /\ \A q, r \in Routes :
          handlers[r] # NULL /\ handlers[q] = handlers[r] => q = r
    /\ child \in {"serving", "stopping"} => registered = 1..made
    /\ child = "serving" => \A o \in Object : shutdowns[o] = 0
    /\ child = "stopping" =>
          /\ \A r \in pending : handlers[r] # NULL
          /\ \A o \in Object : shutdowns[o] =
                IF \E r \in Routes \ pending : handlers[r] = o THEN 1 ELSE 0
    /\ child = "exited" =>
          \A o \in Object : shutdowns[o] =
                IF \E r \in Routes : handlers[r] = o THEN 1 ELSE 0

(* The state of the process and of each request on its stack.              *)
ChildInv ==
    /\ ProcessInv
    /\ NestingInv
    /\ \A i \in 1..Len(stack) : FrameInv(stack[i], handlers, made)

(* A child that is told to stop exits (mod_ruby.c:30-33).                  *)
ShutdownCompletes == child = "stopping" ~> child = "exited"

===========================================================================
