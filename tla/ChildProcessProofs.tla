------------------------ MODULE ChildProcessProofs ------------------------
(***************************************************************************)
(* Theorems of ChildProcess, for every configuration, every set of         *)
(* locations and statuses, and any number of objects and nested requests.  *)
(***************************************************************************)
EXTENDS ChildProcess, SequenceTheorems, TLAPS

---------------------------------------------------------------------------
(* The functions of ConfigTables, as far as a child needs them: the types, *)
(* and what the merge does to the defaults and to a section's handler.     *)

LEMMA KeysKnown ==
    /\ "RubyHandler" \in Key /\ "RubyAccessHandler" \in Key
    /\ \A p \in Part : HandlerKey(p) \in Key /\ DefaultKey(p) \in Key
    /\ Option \subseteq Key
    /\ HandlerKeys \subseteq Key
  BY DEF Key, Slots, HandlerKeys, DefaultKeys

LEMMA EmptyTyped == EmptyTable \in Table /\ EmptyRoute \in Route
  BY DEF EmptyTable, EmptyRoute, Table, Route

LEMMA RouteOfTyped ==
    ASSUME NEW table \in Table
    PROVE  RouteOf(table) \in Route
  BY KeysKnown DEF RouteOf, Route, Table

LEMMA SlotsApart ==
    /\ Slots \intersect (HandlerKeys \union DefaultKeys \union Option) = {}
    /\ HandlerKeys \intersect DefaultKeys = {}
    /\ DefaultKeys \intersect Option = {}
    /\ HandlerKeys \intersect Option = {}
  BY OptionsAreUserKeys DEF Slots, HandlerKeys, DefaultKeys, HandlerKey,
     DefaultKey, Part

LEMMA HandlerIsNotEmpty ==
    ASSUME NEW route
    PROVE  /\ Handler(route) # Empty /\ Handler(route).route = route
           /\ Handler(route).kind = "load" <=>
                 \A p \in Part : route[p] # NULL
  BY DEF Handler, Empty

(* A configuration as the directives build it: its options are the user's, *)
(* its handlers have tables without slots and defaults.                    *)
Built(cfg) ==
    /\ cfg \in ServerConfig
    /\ \A k \in Key \ Option : cfg.options[k] = NULL
    /\ \A h \in HandlerName, k \in Slots \union DefaultKeys :
          cfg.handlers[h][k] = NULL

(* A handler's table over the notes leaves slots and defaults alone.       *)
LEMMA HandlerOverlay ==
    ASSUME NEW cfg, Built(cfg), NEW name, NEW notes \in Table
    PROVE  /\ Overlay(notes, HandlerTable(cfg, name)) \in Table
           /\ \A k \in Slots \union DefaultKeys :
                 Overlay(notes, HandlerTable(cfg, name))[k] = notes[k]
  <1>1. Slots \union DefaultKeys \subseteq Key
    BY DEF Key
  <1>2. HandlerTable(cfg, name) \in Table
    BY EmptyTyped DEF HandlerTable, Built, ServerConfig
  <1>3. \A k \in Slots \union DefaultKeys : HandlerTable(cfg, name)[k] = NULL
    BY <1>1 DEF HandlerTable, Built, ServerConfig, EmptyTable
  <1> QED BY <1>1, <1>2, <1>3 DEF Overlay, Table

LEMMA MergeVarTyped ==
    ASSUME NEW notes \in Table, NEW options \in Table, NEW var \in Key,
           NEW v \in Value \union {NULL}
    PROVE  MergeVar(notes, options, var, v) \in Table
  BY DEF MergeVar, Table

LEMMA MergeVarAt ==
    ASSUME NEW notes \in Table, NEW options, NEW var \in Key, NEW v,
           NEW k \in Key
    PROVE  MergeVar(notes, options, var, v)[k] =
               IF k # var THEN notes[k]
               ELSE IF options[var] # NULL THEN options[var]
               ELSE IF v # NULL THEN v ELSE notes[var]
  BY DEF MergeVar, Table

(* The merge of both configurations: the defaults are the server's, and a  *)
(* handler the section names is the one in the notes.                      *)
LEMMA InitConfigurationAt ==
    ASSUME NEW cfg, Built(cfg), NEW options \in Table, NEW notes \in Table,
           \A p \in Part : options[DefaultKey(p)] = NULL,
           \A p \in Part : notes[DefaultKey(p)] \in {NULL, cfg.default[p]}
    PROVE  LET result == InitConfiguration(cfg, options, notes)
           IN  /\ result \in Table
               /\ \A p \in Part : result[DefaultKey(p)] = cfg.default[p]
               /\ options["RubyHandler"] # NULL =>
                     result["RubyHandler"] = options["RubyHandler"]
  <1> DEFINE key(p)   == DefaultKey(p)
             merged   == MergeOptions(cfg, options, notes)
             module   == MergeVar(merged, options, key("Module"), cfg.default["Module"])
             class    == MergeVar(module, options, key("Class"), cfg.default["Class"])
             method   == MergeVar(class, options, key("Method"), cfg.default["Method"])
             content  == MergeVar(method, options, "RubyHandler", cfg.handler)
             loaded   == Overlay(content, HandlerTable(cfg, content["RubyHandler"]))
             access   == MergeVar(loaded, options, "RubyAccessHandler", cfg.handler)
             result   == Overlay(access, HandlerTable(cfg, access["RubyAccessHandler"]))
  <1>1. /\ cfg.options \in Table /\ cfg.handler \in Value \union {NULL}
        /\ \A p \in Part : cfg.default[p] \in Value \union {NULL}
    BY DEF Built, ServerConfig, Route
  <1>2. /\ Part = {"Module", "Class", "Method"}
        /\ \A p \in Part : key(p) \in Key /\ key(p) \in DefaultKeys
        /\ \A p, q \in Part : key(p) = key(q) => p = q
    BY KeysKnown DEF Part, DefaultKeys, DefaultKey
  <1>3. /\ "RubyHandler" \in Key /\ "RubyAccessHandler" \in Key
        /\ "RubyHandler" \in Slots /\ "RubyAccessHandler" \in Slots
        /\ \A p \in Part : key(p) \notin Slots /\ key(p) \notin Option
    BY <1>2, KeysKnown, SlotsApart DEF Slots
  <1>4. merged \in Table
    BY <1>1 DEF MergeOptions, Overlay, Table
  <1>5. \A p \in Part : merged[key(p)] \in {NULL, cfg.default[p]}
    <2> SUFFICES ASSUME NEW p \in Part PROVE merged[key(p)] \in {NULL, cfg.default[p]}
      OBVIOUS
    <2>1. cfg.options[key(p)] = NULL
      BY <1>2, <1>3 DEF Built
    <2>2. merged[key(p)] = notes[key(p)]
      BY <1>2, <2>1 DEF MergeOptions, Overlay
    <2> QED BY <2>2
  <1> HIDE DEF key, merged
  <1>6. /\ module \in Table /\ module[key("Module")] = cfg.default["Module"]
        /\ \A k \in Key : k # key("Module") => module[k] = merged[k]
    <2>1. key("Module") \in Key /\ options[key("Module")] = NULL
          /\ merged[key("Module")] \in {NULL, cfg.default["Module"]}
          /\ cfg.default["Module"] \in Value \union {NULL}
      BY <1>1, <1>2, <1>5 DEF key
    <2>3. module \in Table
      BY <1>4, <2>1, MergeVarTyped
    <2>4. \A k \in Key : module[k] = IF k # key("Module") THEN merged[k]
                           ELSE IF options[key("Module")] # NULL THEN options[key("Module")]
                           ELSE IF cfg.default["Module"] # NULL THEN cfg.default["Module"] ELSE merged[key("Module")]
      BY <1>4, <2>1, MergeVarAt
    <2> QED BY <2>1, <2>3, <2>4
  <1> HIDE DEF module
  <1>7. /\ class \in Table /\ class[key("Class")] = cfg.default["Class"]
        /\ \A k \in Key : k # key("Class") => class[k] = module[k]
    <2>1. key("Class") \in Key /\ options[key("Class")] = NULL
          /\ module[key("Class")] \in {NULL, cfg.default["Class"]}
          /\ cfg.default["Class"] \in Value \union {NULL}
      BY <1>1, <1>2, <1>5, <1>6 DEF key
    <2>2. module \in Table
      BY <1>6
    <2>3. class \in Table
      BY <2>1, <2>2, MergeVarTyped
    <2>4. \A k \in Key : class[k] = IF k # key("Class") THEN module[k]
                           ELSE IF options[key("Class")] # NULL THEN options[key("Class")]
                           ELSE IF cfg.default["Class"] # NULL THEN cfg.default["Class"] ELSE module[key("Class")]
      BY <2>1, <2>2, MergeVarAt
    <2> QED BY <2>1, <2>3, <2>4
  <1> HIDE DEF class
  <1>8. /\ method \in Table /\ method[key("Method")] = cfg.default["Method"]
        /\ \A k \in Key : k # key("Method") => method[k] = class[k]
    <2>1. key("Method") \in Key /\ options[key("Method")] = NULL
          /\ class[key("Method")] \in {NULL, cfg.default["Method"]}
          /\ cfg.default["Method"] \in Value \union {NULL}
      BY <1>1, <1>2, <1>5, <1>6, <1>7 DEF key
    <2>2. class \in Table
      BY <1>7
    <2>3. method \in Table
      BY <2>1, <2>2, MergeVarTyped
    <2>4. \A k \in Key : method[k] = IF k # key("Method") THEN class[k]
                           ELSE IF options[key("Method")] # NULL THEN options[key("Method")]
                           ELSE IF cfg.default["Method"] # NULL THEN cfg.default["Method"] ELSE class[key("Method")]
      BY <2>1, <2>2, MergeVarAt
    <2> QED BY <2>1, <2>3, <2>4
  <1> HIDE DEF method
  <1>9. \A p \in Part : method[key(p)] = cfg.default[p]
    BY <1>2, <1>6, <1>7, <1>8
  <1>10. /\ content \in Table
         /\ \A k \in Key : k # "RubyHandler" => content[k] = method[k]
         /\ options["RubyHandler"] # NULL =>
               content["RubyHandler"] = options["RubyHandler"]
    <2>1. method \in Table /\ "RubyHandler" \in Key /\ cfg.handler \in Value \union {NULL}
      BY <1>1, <1>3, <1>8
    <2>2. content \in Table
      BY <2>1, MergeVarTyped
    <2>3. \A k \in Key : content[k] = IF k # "RubyHandler" THEN method[k]
                           ELSE IF options["RubyHandler"] # NULL THEN options["RubyHandler"]
                           ELSE IF cfg.handler # NULL THEN cfg.handler ELSE method["RubyHandler"]
      BY <2>1, MergeVarAt
    <2> QED BY <2>1, <2>2, <2>3
  <1> HIDE DEF content
  <1>11. loaded \in Table /\ \A k \in Slots \union DefaultKeys : loaded[k] = content[k]
    BY <1>10, HandlerOverlay
  <1> HIDE DEF loaded
  <1>12. /\ access \in Table
         /\ \A k \in Key : k # "RubyAccessHandler" => access[k] = loaded[k]
    <2>1. /\ loaded \in Table /\ "RubyAccessHandler" \in Key
          /\ cfg.handler \in Value \union {NULL}
      BY <1>1, <1>3, <1>11
    <2>2. access \in Table
      BY <2>1, MergeVarTyped
    <2>3. \A k \in Key : access[k] = IF k # "RubyAccessHandler" THEN loaded[k]
                           ELSE IF options["RubyAccessHandler"] # NULL THEN options["RubyAccessHandler"]
                           ELSE IF cfg.handler # NULL THEN cfg.handler ELSE loaded["RubyAccessHandler"]
      BY <2>1, MergeVarAt
    <2> QED BY <2>1, <2>2, <2>3
  <1> HIDE DEF access
  <1>13. result \in Table /\ \A k \in Slots \union DefaultKeys : result[k] = access[k]
    BY <1>12, HandlerOverlay
  <1> HIDE DEF result
  <1>14. \A p \in Part : result[key(p)] = cfg.default[p]
    <2> SUFFICES ASSUME NEW p \in Part PROVE result[key(p)] = cfg.default[p]
      OBVIOUS
    <2>1. key(p) \in Key /\ key(p) # "RubyHandler" /\ key(p) # "RubyAccessHandler"
      BY <1>2, <1>3
    <2> QED BY <1>2, <1>9, <1>10, <1>11, <1>12, <1>13, <2>1
  <1>15. options["RubyHandler"] # NULL => result["RubyHandler"] = options["RubyHandler"]
    BY <1>3, <1>10, <1>11, <1>12, <1>13
  <1>16. InitConfiguration(cfg, options, notes) = result
    BY DEF InitConfiguration, MergeDefaults, merged, module, class, method,
           content, loaded, access, result, key
  <1> QED BY <1>13, <1>14, <1>15, <1>16 DEF key

(* Looking a handler up leaves the defaults and the slots alone.           *)
LEMMA GetHandlerAt ==
    ASSUME NEW cfg \in ServerConfig, NEW notes \in Table
    PROVE  /\ NotesAfterGetHandler(cfg, notes) \in Table
           /\ \A k \in Key \ HandlerKeys :
                 NotesAfterGetHandler(cfg, notes)[k] = notes[k]
  <1> DEFINE route == DefaultRoute(cfg, notes)
  <1>1. \A p \in Part : route[p] \in Value \union {NULL}
    BY KeysKnown DEF DefaultRoute, ServerConfig, Route, Table
  <1> HIDE DEF route
  <1>2. [k \in Key |-> IF \E p \in Part : HandlerKey(p) = k
                       THEN route[CHOOSE p \in Part : HandlerKey(p) = k]
                       ELSE notes[k]] \in Table
    <2>1. \A k \in Key : (\E p \in Part : HandlerKey(p) = k) =>
              route[CHOOSE p \in Part : HandlerKey(p) = k] \in Value \union {NULL}
      BY <1>1
    <2> QED BY <2>1 DEF Table
  <1> QED BY <1>2 DEF NotesAfterGetHandler, HandlerKeys, route

---------------------------------------------------------------------------
(* The configuration of the server, and what a hook finds in it.           *)

LEMMA ConfigBuilt ==
    /\ Built(Config)
    /\ \A loc \in Location :
          /\ DirOptions[loc] \in Table
          /\ \A p \in Part : DirOptions[loc][DefaultKey(p)] = NULL
  BY ConfigIsServerConfig, DirOptionsAreTables, ConfigurationIsBuilt
     DEF Built, DefaultKeys

(* The server's own default, in a frame whose notes were never given one.  *)
CleanDefaults(f) ==
    \A p \in Part : f.notes[DefaultKey(p)] \in {NULL, Config.default[p]}

LEMMA MergedNotesAt ==
    ASSUME NEW f \in Frame, CleanDefaults(f)
    PROVE  /\ MergedNotes(f) \in Table
           /\ \A p \in Part : MergedNotes(f)[DefaultKey(p)] = Config.default[p]
           /\ DirOptions[f.loc]["RubyHandler"] # NULL =>
                 MergedNotes(f)["RubyHandler"] = DirOptions[f.loc]["RubyHandler"]
  <1>1. f.loc \in Location /\ f.notes \in Table
    BY DEF Frame
  <1>2. "RubyHandler" \in Slots
    BY DEF Slots
  <1> QED BY <1>1, <1>2, ConfigBuilt, InitConfigurationAt
         DEF MergedNotes, CleanDefaults, SlotOf

LEMMA RoutesTyped == Routes \subseteq Route
  <1>1. \A h \in Config.declared : RouteOf(Config.handlers[h]) \in Route
    BY ConfigIsServerConfig, RouteOfTyped DEF ServerConfig
  <1>2. Config.default \in Route
    BY ConfigIsServerConfig DEF ServerConfig
  <1> QED BY <1>1, <1>2 DEF Routes, Complete

LEMMA CompleteRoutes ==
    /\ \A h \in Config.declared :
          Handler(RouteOf(Config.handlers[h])).kind = "load"
              => RouteOf(Config.handlers[h]) \in Routes
    /\ Handler(Config.default).kind = "load" => Config.default \in Routes
  BY HandlerIsNotEmpty DEF Routes, Complete

(* A hook that finds a complete route finds one of the server's, and the   *)
(* one the location names if it names one.                                 *)
LEMMA ResolveAt ==
    ASSUME NEW f \in Frame, CleanDefaults(f), Resolve(f).kind = "load"
    PROVE  /\ Resolve(f).route \in Routes
           /\ f.step # "access" /\ DirOptions[f.loc]["RubyHandler"] # NULL =>
                 Resolve(f).route =
                     RouteOf(Config.handlers[DirOptions[f.loc]["RubyHandler"]])
  <1> DEFINE notes == MergedNotes(f)
             named(slot) == RouteOf(Config.handlers[notes[slot]])
  <1>1. /\ notes \in Table
        /\ \A p \in Part : notes[DefaultKey(p)] = Config.default[p]
        /\ DirOptions[f.loc]["RubyHandler"] # NULL =>
              notes["RubyHandler"] = DirOptions[f.loc]["RubyHandler"]
    BY MergedNotesAt
  <1>2. Resolve(f) = IF f.step = "access" THEN GetAccessHandler(Config, notes)
                     ELSE GetHandler(Config, notes)
    BY DEF Resolve
  <1>3. Empty.kind # "load"
    BY DEF Empty
  <1> HIDE DEF notes
  <1>4. CASE f.step = "access"
    <2>1. /\ notes["RubyAccessHandler"] \in Config.declared
          /\ Resolve(f) = Handler(named("RubyAccessHandler"))
      BY <1>2, <1>3, <1>4 DEF GetAccessHandler
    <2> QED BY <1>4, <2>1, CompleteRoutes, HandlerIsNotEmpty
  <1>5. CASE f.step # "access" /\ notes["RubyHandler"] = NULL
    <2>1. DefaultRoute(Config, notes) = [p \in Part |-> Config.default[p]]
      BY <1>1 DEF DefaultRoute
    <2>2. Config.default = [p \in Part |-> Config.default[p]]
      BY ConfigIsServerConfig DEF ServerConfig, Route
    <2>3. Resolve(f) = Handler(Config.default)
      BY <1>2, <1>5, <2>1, <2>2 DEF GetHandler
    <2> QED BY <1>1, <1>5, <2>3, CompleteRoutes, HandlerIsNotEmpty
  <1>6. CASE f.step # "access" /\ notes["RubyHandler"] # NULL
    <2>1. /\ notes["RubyHandler"] \in Config.declared
          /\ Resolve(f) = Handler(named("RubyHandler"))
      BY <1>2, <1>3, <1>6 DEF GetHandler
    <2> QED BY <1>1, <2>1, CompleteRoutes, HandlerIsNotEmpty
  <1> QED BY <1>4, <1>5, <1>6

---------------------------------------------------------------------------
(* Frames.                                                                 *)

LEMMA NewFrameTyped ==
    ASSUME NEW loc \in Location, NEW hook \in Hook, NEW status \in Status
    PROVE  NewFrame(loc, hook, status) \in Frame
  BY EmptyTyped, BoundsAreNat DEF NewFrame, Frame

LEMMA BeginsTyped ==
    ASSUME NEW s \in Status, NEW status \in BeginsWith(s)
    PROVE  status \in Status
  BY DEF BeginsWith

LEMMA EnteredAt ==
    ASSUME NEW f \in Frame, CleanDefaults(f)
    PROVE  LET g == Entered(f)
           IN  /\ g \in Frame /\ CleanDefaults(g)
               /\ g.loc = f.loc /\ g.hook = f.hook /\ g.step = f.step
               /\ g.status = f.status /\ g.rc = f.status
               /\ g.loading = f.loading /\ g.route = f.route
               /\ g.object = f.object /\ g.ran = f.ran /\ g.raised = f.raised
               /\ g.reported = f.reported /\ g.access = f.access
               /\ g.result = f.result
  <1> DEFINE notes == MergedNotes(f)
             after == IF f.step = "access" THEN notes
                      ELSE NotesAfterGetHandler(Config, notes)
  <1>1. notes \in Table /\ \A p \in Part : notes[DefaultKey(p)] = Config.default[p]
    BY MergedNotesAt
  <1> HIDE DEF notes
  <1>2. \A p \in Part : DefaultKey(p) \in Key \ HandlerKeys
    BY KeysKnown, SlotsApart DEF DefaultKeys
  <1>3. NotesAfterGetHandler(Config, notes) \in Table
    BY <1>1, ConfigIsServerConfig, GetHandlerAt
  <1>4. \A p \in Part : NotesAfterGetHandler(Config, notes)[DefaultKey(p)]
                            = Config.default[p]
    BY <1>1, <1>2, ConfigIsServerConfig, GetHandlerAt
  <1>5. after \in Table /\ \A p \in Part : after[DefaultKey(p)] = Config.default[p]
    BY <1>1, <1>3, <1>4
  <1>6. Entered(f) = [f EXCEPT !.rc = f.status, !.notes = after]
    BY DEF Entered, notes
  <1> HIDE DEF after
  <1>7. /\ Entered(f).notes = after /\ Entered(f).rc = f.status
        /\ Entered(f) \in Frame
        /\ \A x \in {"loc", "hook", "step", "status", "loading", "route",
                     "object", "ran", "raised", "reported", "access",
                     "result"} : Entered(f)[x] = f[x]
    BY <1>5, <1>6, ZenonT(30) DEF Frame
  <1>8. CleanDefaults(Entered(f))
    BY <1>5, <1>7 DEF CleanDefaults
  <1> QED BY <1>7, <1>8

LEMMA FinishedAt ==
    ASSUME NEW f \in Frame, NEW code \in Code \union Status
    PROVE  LET g == Finished(f, code)
           IN  /\ g \in Frame
               /\ g.step = "finished" /\ g.result = code
               /\ g.notes = EmptyTable /\ g.hook = f.hook
               /\ g.loading = f.loading /\ g.route = f.route
               /\ g.object = f.object /\ g.ran = f.ran /\ g.raised = f.raised
               /\ g.reported = f.reported /\ g.access = f.access
  BY EmptyTyped, ZenonT(30) DEF Finished, Frame

LEMMA LeftAt ==
    ASSUME NEW f \in Frame
    PROVE  LET g == Left(f)
           IN  /\ g \in Frame
               /\ g.loading = "no" /\ g.route = NULL /\ g.object = NULL
               /\ g.loc = f.loc /\ g.hook = f.hook /\ g.step = f.step
               /\ g.notes = f.notes /\ g.status = f.status /\ g.rc = f.rc
               /\ g.ran = f.ran /\ g.raised = f.raised
               /\ g.reported = f.reported /\ g.access = f.access
  <1>1. 0 \in 0..MaxObjects
    BY BoundsAreNat
  <1>2. Left(f) \in Frame
    BY <1>1 DEF Left, Frame
  <1> QED BY <1>2 DEF Left, Frame

LEMMA AccessTyped ==
    ASSUME NEW f \in Frame, NEW code \in Code \union Status
    PROVE  [f EXCEPT !.access = code] \in Frame
  BY DEF Frame

LEMMA HookReturnsTyped ==
    ASSUME NEW f \in Frame, NEW code \in Code \union Status
    PROVE  HookReturns(f, code) \in Frame
  <1>1. [f EXCEPT !.access = code] \in Frame
    BY AccessTyped
  <1>2. [f EXCEPT !.step = "content", !.access = code] \in Frame
    BY DEF Frame
  <1> QED BY <1>1, <1>2, FinishedAt DEF HookReturns

(* What a throwing hook returns, before Apache looks at it.                *)
Thrown(f, e) == [Left(f) EXCEPT !.raised = e,
                                !.reported = @ \/ e \notin Utility]

LEMMA ThrownAt ==
    ASSUME NEW f \in Frame, NEW e \in Exception
    PROVE  LET g == Thrown(f, e)
           IN  /\ g \in Frame /\ g.raised = e
               /\ g.reported <=> f.reported \/ e \notin Utility
               /\ g.loading = "no" /\ g.object = NULL
               /\ g.hook = f.hook /\ g.step = f.step
               /\ g.ran = f.ran /\ g.access = f.access
  <1> DEFINE l == Left(f)
  <1>1. /\ l \in Frame /\ l.loading = "no" /\ l.object = NULL
        /\ l.hook = f.hook /\ l.step = f.step
        /\ l.ran = f.ran /\ l.access = f.access /\ l.reported = f.reported
    BY LeftAt
  <1> HIDE DEF l
  <1>2. Thrown(f, e) = [l EXCEPT !.raised = e, !.reported = @ \/ e \notin Utility]
    BY DEF Thrown, l
  <1> QED BY <1>1, <1>2, ZenonT(30) DEF Frame

LEMMA ThrowTyped ==
    ASSUME NEW f \in Frame, NEW e \in Exception
    PROVE  Throw(f, e) \in Frame
  <1>1. Caught(f) \in Code
    BY DEF Caught, Code
  <1>2. Throw(f, e) = HookReturns(Thrown(f, e), Caught(f))
    BY DEF Throw, Thrown
  <1> QED BY <1>1, <1>2, ThrownAt, HookReturnsTyped

LEMMA CallsTyped ==
    ASSUME NEW f \in Frame, NEW route \in Routes, NEW object \in Object
    PROVE  Calls(f, route, object) \in Frame
  <1> DEFINE step == IF f.step = "access" THEN "in access" ELSE "in content"
  <1>1. 0 \in 0..MaxObjects
    BY BoundsAreNat
  <1>2. step \in {"in access", "in content"}
    OBVIOUS
  <1>3. Calls(f, route, object) =
            [f EXCEPT !.step = step, !.loading = "no", !.since = 0,
                      !.route = route, !.object = object, !.ran = TRUE]
    BY DEF Calls
  <1> HIDE DEF step
  <1> QED BY <1>1, <1>2, <1>3, ZenonT(30) DEF Frame

LEMMA CallsLoading ==
    ASSUME NEW f \in Frame, NEW route, NEW object
    PROVE  Calls(f, route, object).loading = "no"
  BY DEF Calls, Frame

(* A hook whose handler has to be loaded, or made.                         *)
Requiring(f, route) == [f EXCEPT !.loading = "requiring", !.route = route]
Creating(f, route, n) ==
    [f EXCEPT !.loading = "creating", !.route = route, !.since = n]

LEMMA RequiringAt ==
    ASSUME NEW f \in Frame, NEW route \in Routes
    PROVE  LET g == Requiring(f, route)
           IN  /\ g \in Frame
               /\ g.loading = "requiring" /\ g.route = route
               /\ g.step = f.step /\ g.loc = f.loc /\ g.hook = f.hook
               /\ g.notes = f.notes /\ g.object = f.object /\ g.ran = f.ran
               /\ g.raised = f.raised /\ g.reported = f.reported
               /\ g.access = f.access
  BY DEF Frame, Requiring

LEMMA CreatingAt ==
    ASSUME NEW f \in Frame, NEW route \in Routes, NEW n \in 0..MaxObjects
    PROVE  LET g == Creating(f, route, n)
           IN  /\ g \in Frame
               /\ g.loading = "creating" /\ g.route = route /\ g.since = n
               /\ g.step = f.step /\ g.loc = f.loc /\ g.hook = f.hook
               /\ g.notes = f.notes /\ g.object = f.object /\ g.ran = f.ran
               /\ g.raised = f.raised /\ g.reported = f.reported
               /\ g.access = f.access
  BY DEF Frame, Creating

---------------------------------------------------------------------------
(* The stack.                                                              *)

LEMMA TopTyped ==
    ASSUME stack \in Seq(Frame), stack # <<>>
    PROVE  /\ Top \in Frame /\ Len(stack) \in Nat \ {0}
           /\ Len(stack) \in 1..Len(stack)
  BY DEF Top

LEMMA StackPut ==
    ASSUME stack \in Seq(Frame), NEW i \in 1..Len(stack), NEW g \in Frame,
           Put(i, g)
    PROVE  /\ stack' \in Seq(Frame) /\ Len(stack') = Len(stack)
           /\ \A j \in 1..Len(stack) :
                 stack'[j] = IF j = i THEN g ELSE stack[j]
  BY DEF Put

LEMMA StackPushed ==
    ASSUME stack \in Seq(Frame), NEW g \in Frame, stack' = Append(stack, g)
    PROVE  /\ stack' \in Seq(Frame) /\ Len(stack') = Len(stack) + 1
           /\ \A i \in 1..Len(stack') :
                 stack'[i] = IF i = Len(stack) + 1 THEN g ELSE stack[i]
  OBVIOUS

LEMMA StackPopped ==
    ASSUME stack \in Seq(Frame), stack # <<>>,
           stack' = SubSeq(stack, 1, Len(stack) - 1)
    PROVE  /\ stack' \in Seq(Frame) /\ Len(stack') = Len(stack) - 1
           /\ \A i \in 1..Len(stack') : stack'[i] = stack[i] /\ i \in 1..Len(stack)
  <1> DEFINE n == Len(stack) - 1
  <1>1. n \in Nat /\ Len(stack) = n + 1 /\ \A i \in 1..n : stack[i] \in Frame
    OBVIOUS
  <1>2. /\ stack' = SubSeq(stack, 1, n)
        /\ \A i \in 1..Len(stack) : stack[i] \in Frame
    OBVIOUS
  <1> HIDE DEF n
  <1>3. /\ SubSeq(stack, 1, n) \in Seq(Frame)
        /\ Len(SubSeq(stack, 1, n)) = IF 1 <= n THEN n - 1 + 1 ELSE 0
        /\ \A i \in 1..n - 1 + 1 : SubSeq(stack, 1, n)[i] = stack[1 + i - 1]
    BY <1>1, SubSeqProperties
  <1>4. Len(SubSeq(stack, 1, n)) = n
    BY <1>1, <1>3
  <1>5. \A i \in 1..n : SubSeq(stack, 1, n)[i] = stack[i] /\ i \in 1..Len(stack)
    BY <1>1, <1>3
  <1>6. Len(stack') = n /\ stack' \in Seq(Frame)
    BY <1>2, <1>3, <1>4
  <1>7. \A i \in 1..n : stack'[i] = stack[i] /\ i \in 1..Len(stack)
    BY <1>2, <1>5
  <1> QED BY <1>1, <1>6, <1>7

---------------------------------------------------------------------------
(* The type invariant.  A frame's notes keep the default route clean, so   *)
(* that a hook resolves to a route of the server.                          *)

CleanStack == \A i \in 1..Len(stack) : CleanDefaults(stack[i])

LEMMA InvIsClean == ChildInv => CleanStack
  BY DEF ChildInv, FrameInv, CleanStack, CleanDefaults

LEMMA StoreTyped ==
    ASSUME TypeOK, NEW route \in Routes, Store(route)
    PROVE  /\ handlers' \in [Routes -> Object \union {NULL}]
           /\ registered' \in SUBSET Object /\ made' \in 0..MaxObjects
           /\ made' = made + 1 /\ made' \in Object
           /\ registered' = registered \union {made'}
           /\ \A r \in Routes :
                 handlers'[r] = IF r = route THEN made' ELSE handlers[r]
  <1>1. /\ made' = made + 1 /\ made + 1 \in Object
        /\ made + 1 \in 0..MaxObjects
    BY BoundsAreNat DEF Store, CreateObject, TypeOK, Object
  <1>2. /\ registered' = registered \union {made'}
        /\ handlers' = [handlers EXCEPT ![route] = made']
    BY DEF Store, Register
  <1> QED BY <1>1, <1>2 DEF TypeOK

LEMMA ModuleTyped ==
    ASSUME NEW route \in Routes
    PROVE  route["Module"] \in Value
  BY RoutesTyped DEF Routes, Complete, Route, Part

LEMMA LookUpTyped ==
    ASSUME TypeOK, NEW f \in Frame, NEW route \in Routes
    PROVE  LookUp(f, route) \in Frame
  <1>1. CASE handlers[route] # NULL
    <2>1. handlers[route] \in Object
      BY <1>1 DEF TypeOK
    <2> QED BY <1>1, <2>1, CallsTyped DEF LookUp
  <1>2. CASE handlers[route] = NULL
    BY <1>2, CreatingAt DEF LookUp, Creating, TypeOK
  <1> QED BY <1>1, <1>2

(* A hook, or Ruby code, that replaces a frame keeps the stack.            *)
LEMMA PutTyped ==
    ASSUME TypeOK, NEW i \in 1..Len(stack), NEW g \in Frame, Put(i, g)
    PROVE  stack' \in Seq(Frame) /\ Len(stack') <= MaxDepth
  BY StackPut DEF TypeOK

LEMMA ReplacedTyped ==
    ASSUME TypeOK, stack # <<>>, NEW g \in Frame, Replace(g)
    PROVE  stack' \in Seq(Frame) /\ Len(stack') <= MaxDepth
  BY TopTyped, PutTyped DEF Replace, TypeOK

(* The frames Ruby code writes to.                                         *)
LEMMA SetStatusTyped ==
    ASSUME NEW f \in Frame, NEW status \in Status
    PROVE  [f EXCEPT !.status = status] \in Frame
  BY DEF Frame

LEMMA SetNoteTyped ==
    ASSUME NEW f \in Frame, NEW h \in HandlerName
    PROVE  /\ [f EXCEPT !.notes["RubyHandler"] = h] \in Frame
           /\ \A p \in Part :
                 [f EXCEPT !.notes["RubyHandler"] = h].notes[DefaultKey(p)]
                     = f.notes[DefaultKey(p)]
  BY KeysKnown DEF Frame, Table, Value, DefaultKey

(* Routes of frames that load a handler are routes of the server.          *)
LoadingStack ==
    \A i \in 1..Len(stack) : stack[i].loading # "no" => stack[i].route \in Routes

LEMMA InvIsLoading == ChildInv => LoadingStack
  BY DEF ChildInv, FrameInv, LoadingStack

(* Every step of a child keeps its types, as long as the notes of the      *)
(* requests are clean.                                                     *)
THEOREM TypeStep ==
    TypeOK /\ CleanStack /\ LoadingStack /\ [Next]_vars => TypeOK'
  <1> SUFFICES ASSUME TypeOK, CleanStack, LoadingStack, [Next]_vars
               PROVE  TypeOK'
    OBVIOUS
  <1>1. stack # <<>> => /\ Top \in Frame /\ CleanDefaults(Top)
                        /\ Top.loading # "no" => Top.route \in Routes
    BY TopTyped DEF TypeOK, CleanStack, LoadingStack, Top
  <1>2. ASSUME UNCHANGED <<child, vm, shutdowns, pending>>,
               stack' \in Seq(Frame), Len(stack') <= MaxDepth
        PROVE  TypeOK'
    BY <1>2 DEF TypeOK, vm
  <1>3. ASSUME NEW ok \in BOOLEAN, InitModule(ok)
        PROVE  TypeOK'
    BY <1>3, BoundsAreNat DEF InitModule, FreshProcess, Startup, TypeOK
  <1>4. ASSUME NEW loc \in Location, NEW hook \in Hook, NEW s \in Status,
               BeginRequest(loc, hook, s)
        PROVE  TypeOK'
    <2>1. stack' \in Seq(Frame) /\ Len(stack') <= MaxDepth
      BY <1>4, NewFrameTyped, BoundsAreNat DEF BeginRequest
    <2> QED BY <1>2, <1>4, <2>1 DEF BeginRequest
  <1>5. CASE HookEmpty
    <2>1. Entered(Top) \in Frame
      BY <1>1, <1>5, EnteredAt DEF HookEmpty
    <2>2. [Entered(Top) EXCEPT !.reported = TRUE] \in Frame
      BY <2>1 DEF Frame
    <2>3. PICK g \in Frame : Replace(g)
      BY <1>5, <2>1, <2>2, HookReturnsTyped DEF HookEmpty, Code
    <2> QED BY <1>2, <1>5, <2>3, ReplacedTyped DEF HookEmpty
  <1>6. CASE HookUndefined
    <2>1. Throw(Entered(Top), "Error") \in Frame
      BY <1>1, <1>6, EnteredAt, ThrowTyped DEF HookUndefined, Exception
    <2> QED BY <1>2, <1>6, <2>1, ReplacedTyped DEF HookUndefined
  <1>7. CASE HookLoads
    <2> DEFINE route == Resolve(Top).route
               e == Entered(Top)
    <2>1. /\ stack # <<>> /\ route \in Routes /\ e \in Frame
          /\ Replace(IF Loads(route["Module"])
                     THEN [e EXCEPT !.loading = "requiring", !.route = route]
                     ELSE LookUp(e, route))
          /\ UNCHANGED <<child, vm, shutdowns, pending>>
      BY <1>1, <1>7, ResolveAt, EnteredAt DEF HookLoads
    <2> HIDE DEF route, e
    <2>2. PICK g \in Frame : Replace(g)
      BY <2>1, RequiringAt, LookUpTyped DEF Requiring
    <2> QED BY <1>2, <2>1, <2>2, ReplacedTyped
  <1>8. CASE RequireReturns
    <2>1. /\ stack # <<>> /\ Top \in Frame /\ Top.route \in Routes
          /\ required' = required \union {Top.route["Module"]}
          /\ Replace(LookUp(Top, Top.route))
          /\ UNCHANGED <<child, rubyHandler, handlers, registered, made,
                         shutdowns, pending>>
      BY <1>1, <1>8 DEF RequireReturns, Require
    <2>2. stack' \in Seq(Frame) /\ Len(stack') <= MaxDepth
      BY <2>1, LookUpTyped, ReplacedTyped
    <2>3. required' \in SUBSET Value
      BY <2>1, ModuleTyped DEF TypeOK
    <2> QED BY <2>1, <2>2, <2>3 DEF TypeOK
  <1>9. ASSUME NEW e \in Exception, RequireRaises(e)
        PROVE  TypeOK'
    BY <1>1, <1>2, <1>9, ThrowTyped, ReplacedTyped DEF RequireRaises
  <1>10. CASE CreateReturns
    <2> DEFINE g == Calls(Top, Top.route, made')
    <2>1. /\ stack # <<>> /\ Top \in Frame /\ Top.route \in Routes
          /\ Store(Top.route) /\ Replace(g)
          /\ UNCHANGED <<child, rubyHandler, required, shutdowns, pending>>
      BY <1>1, <1>10 DEF CreateReturns
    <2>2. g \in Frame
      BY <2>1, StoreTyped, CallsTyped
    <2> HIDE DEF g
    <2>3. stack' \in Seq(Frame) /\ Len(stack') <= MaxDepth
      BY <2>1, <2>2, ReplacedTyped
    <2> QED BY <2>1, <2>3, StoreTyped DEF TypeOK
  <1>11. CASE CreateRaises
    <2>1. "Error" \in Exception
      BY DEF Exception
    <2> QED BY <1>1, <1>2, <1>11, <2>1, ThrowTyped, ReplacedTyped
           DEF CreateRaises
  <1>12. CASE ScriptRuns
    <2>1. [Top EXCEPT !.step = "in content", !.rc = Top.status, !.ran = TRUE]
              \in Frame
      BY <1>1, <1>12 DEF ScriptRuns, Frame
    <2> QED BY <1>2, <1>12, <2>1, ReplacedTyped DEF ScriptRuns
  <1>13. CASE ScriptCrashes
    BY <1>13, BoundsAreNat DEF ScriptCrashes, TypeOK, vm
  <1>14. CASE ServedElsewhere
    <2>1. Finished(Top, "DECLINED") \in Frame
      BY <1>1, <1>14, FinishedAt DEF ServedElsewhere, Code
    <2> QED BY <1>2, <1>14, <2>1, ReplacedTyped DEF ServedElsewhere
  <1>15. ASSUME NEW i \in 1..Len(stack), NEW s \in Status, RubySetStatus(i, s)
         PROVE  TypeOK'
    <2>1. stack[i] \in Frame
      BY DEF TypeOK
    <2>2. PICK g \in Frame : Put(i, g)
      BY <1>15, <2>1, SetStatusTyped DEF RubySetStatus
    <2> QED BY <1>2, <1>15, <2>2, PutTyped DEF RubySetStatus
  <1>16. ASSUME NEW i \in 1..Len(stack), NEW h \in HandlerName,
                RubySetNote(i, "RubyHandler", h)
         PROVE  TypeOK'
    <2>1. stack[i] \in Frame
      BY DEF TypeOK
    <2>2. PICK g \in Frame : Put(i, g)
      BY <1>16, <2>1, SetNoteTyped DEF RubySetNote
    <2> QED BY <1>2, <1>16, <2>2, PutTyped DEF RubySetNote
  <1>17. ASSUME NEW i \in 1..Len(stack), NEW loc \in Location,
                NEW hook \in Hook, NEW s \in Status,
                RubyInternalRedirect(i, loc, hook, s)
         PROVE  TypeOK'
    <2>1. stack' \in Seq(Frame) /\ Len(stack') = Len(stack) + 1
      BY <1>17, NewFrameTyped, StackPushed DEF RubyInternalRedirect, TypeOK
    <2>2. Len(stack') <= MaxDepth
      BY <1>17, <2>1, BoundsAreNat DEF RubyInternalRedirect, TypeOK
    <2> QED BY <1>2, <1>17, <2>1, <2>2 DEF RubyInternalRedirect
  <1>18. CASE RubyReturn
    <2>1. stack # <<>> /\ Left(Top) \in Frame
      BY <1>1, <1>18, LeftAt DEF RubyReturn, Running, RunsMethod
    <2>2. (IF Top.status # Top.rc THEN Top.status ELSE "OK")
              \in Code \union Status
      BY <1>1, <2>1 DEF Frame, Code
    <2>3. PICK g \in Frame : Replace(g)
      BY <1>18, <2>1, <2>2, HookReturnsTyped DEF RubyReturn
    <2> QED BY <1>2, <1>18, <2>1, <2>3, ReplacedTyped DEF RubyReturn
  <1>19. ASSUME NEW e \in Exception, RubyRaise(e)
         PROVE  TypeOK'
    <2>1. stack # <<>> /\ Throw(Top, e) \in Frame
      BY <1>1, <1>19, ThrowTyped DEF RubyRaise, Running
    <2> QED BY <1>2, <1>19, <2>1, ReplacedTyped DEF RubyRaise
  <1>20. CASE EndRequest
    <2>1. stack' \in Seq(Frame) /\ Len(stack') = Len(stack) - 1
      BY <1>20, StackPopped DEF EndRequest, TypeOK
    <2>2. Len(stack') <= MaxDepth
      BY <2>1, BoundsAreNat DEF TypeOK
    <2> QED BY <1>2, <1>20, <2>1, <2>2 DEF EndRequest
  <1>21. CASE StopChild
    BY <1>21 DEF StopChild, TypeOK, vm
  <1>22. ASSUME NEW r \in Routes, NEW raised \in BOOLEAN,
                ShutdownHandler(r, raised)
         PROVE  TypeOK'
    <2>1. shutdowns' \in [Object -> Nat]
      <3>1. /\ shutdowns \in [Object -> Nat]
            /\ shutdowns' = [shutdowns EXCEPT
                                ![handlers[r]] = shutdowns[handlers[r]] + 1]
        BY <1>22 DEF ShutdownHandler, TypeOK
      <3>2. CASE handlers[r] \in Object
        BY <3>1, <3>2
      <3>3. CASE handlers[r] \notin Object
        BY <3>1, <3>3
      <3> QED BY <3>2, <3>3
    <2> QED BY <1>22, <2>1 DEF ShutdownHandler, TypeOK, vm
  <1>23. CASE ShutdownVM
    BY <1>23 DEF ShutdownVM, FreeAll, TypeOK
  <1>24. CASE UNCHANGED vars
    BY <1>24 DEF vars, vm, TypeOK
  <1> QED BY <1>3, <1>4, <1>5, <1>6, <1>7, <1>8, <1>9, <1>10, <1>11, <1>12,
             <1>13, <1>14, <1>15, <1>16, <1>17, <1>18, <1>19, <1>20, <1>21,
             <1>22, <1>23, <1>24 DEF Next, Hooks, Ruby

---------------------------------------------------------------------------
(* The part of the inductive invariant that is about one request.          *)

LEMMA EmptyDefaults ==
    \A p \in Part : EmptyTable[DefaultKey(p)] = NULL
  BY KeysKnown DEF EmptyTable

LEMMA NewFrameInv ==
    ASSUME NEW loc, NEW hook, NEW status, NEW map, NEW last
    PROVE  FrameInv(NewFrame(loc, hook, status), map, last)
  <1> DEFINE f == NewFrame(loc, hook, status)
  <1>1. /\ f.notes = EmptyTable /\ f.object = NULL /\ f.step = "access"
        /\ f.loading = "no" /\ f.access = NULL /\ f.raised = NULL
        /\ ~ f.reported
    BY DEF NewFrame
  <1>2. NULL # "OK" /\ NULL \notin Utility
    BY NullIsNothing DEF Code, Exception
  <1> HIDE DEF f
  <1>3. FrameInv(f, map, last)
    BY <1>1, <1>2, EmptyDefaults DEF FrameInv
  <1> QED BY <1>3 DEF f

(* A hook that is entered.                                                 *)
LEMMA EnteredInv ==
    ASSUME NEW f \in Frame, NEW map, NEW last, FrameInv(f, map, last),
           f.loading = "no", f.step \in {"access", "content"}
    PROVE  FrameInv(Entered(f), map, last) /\ CleanDefaults(f)
  <1>1. CleanDefaults(f)
    BY DEF CleanDefaults, FrameInv
  <1> DEFINE g == Entered(f)
  <1>2. /\ CleanDefaults(g) /\ g.step = f.step /\ g.status = g.rc
        /\ g.loading = f.loading /\ g.object = f.object /\ g.ran = f.ran
        /\ g.raised = f.raised /\ g.reported = f.reported
        /\ g.access = f.access
    BY <1>1, EnteredAt
  <1> HIDE DEF g
  <1>3. FrameInv(g, map, last)
    BY <1>2 DEF FrameInv, CleanDefaults
  <1> QED BY <1>1, <1>3 DEF g

(* The last hook of a request returns.                                     *)
LEMMA FinishedInv ==
    ASSUME NEW f \in Frame, NEW code \in Code \union Status,
           NEW map, NEW last,
           f.loading = "no", f.object = NULL,
           f.access = "OK" => f.ran,
           code = "DECLINED" => f.raised = NULL,
           f.raised \in Utility => ~ f.reported,
           f.ran \/ f.reported \/ f.hook = "other" \/ f.raised \in Utility
    PROVE  FrameInv(Finished(f, code), map, last)
  <1> DEFINE g == Finished(f, code)
  <1>1. /\ g.step = "finished" /\ g.result = code /\ g.notes = EmptyTable
        /\ g.hook = f.hook /\ g.loading = "no" /\ g.object = NULL
        /\ g.ran = f.ran /\ g.raised = f.raised
        /\ g.reported = f.reported /\ g.access = f.access
    BY FinishedAt
  <1> HIDE DEF g
  <1> QED BY <1>1, EmptyDefaults DEF FrameInv, g

(* A hook that ends with an exception, at any point.                       *)
LEMMA ThrowInv ==
    ASSUME NEW f \in Frame, NEW e \in Exception, NEW map, NEW last,
           FrameInv(f, map, last), f.step # "finished"
    PROVE  FrameInv(Throw(f, e), map, last)
  <1> DEFINE t == Thrown(f, e)
             d == [t EXCEPT !.access = "DONE"]
  <1>1. /\ t \in Frame /\ t.raised = e
        /\ t.reported <=> f.reported \/ e \notin Utility
        /\ t.loading = "no" /\ t.object = NULL /\ t.hook = f.hook
        /\ t.step = f.step /\ t.ran = f.ran /\ t.access = f.access
    BY ThrownAt
  <1>2. ~ f.reported /\ (f.access = "OK" => f.ran)
    BY DEF FrameInv
  <1>3. Throw(f, e) = HookReturns(t, Caught(f))
    BY DEF Throw, Thrown
  <1> HIDE DEF t
  <1>4. CASE f.step \in {"content", "in content"}
    <2>1. Throw(f, e) = Finished(t, "OK")
      BY <1>1, <1>3, <1>4 DEF HookReturns, Caught
    <2> QED BY <1>1, <1>2, <2>1, FinishedInv DEF Code
  <1>5. CASE f.step \notin {"content", "in content"}
    <2>1. f.step \in {"access", "in access"}
      BY <1>5 DEF Frame
    <2>2. Throw(f, e) = Finished(d, "DONE")
      BY <1>1, <1>3, <1>5, <2>1 DEF HookReturns, Caught
    <2>3. /\ d \in Frame /\ d.access = "DONE" /\ d.raised = t.raised
          /\ d.reported = t.reported /\ d.loading = t.loading
          /\ d.object = t.object /\ d.hook = t.hook /\ d.ran = t.ran
      BY <1>1, ZenonT(30) DEF Frame, Code
    <2> HIDE DEF d
    <2> QED BY <1>1, <1>2, <2>2, <2>3, FinishedInv DEF Code
  <1> QED BY <1>4, <1>5

(* A method that returns.                                                  *)
LEMMA ReturnInv ==
    ASSUME NEW f \in Frame, NEW map, NEW last, FrameInv(f, map, last),
           RunsMethod(f),
           NEW code, code = IF f.status # f.rc THEN f.status ELSE "OK"
    PROVE  FrameInv(HookReturns(Left(f), code), map, last)
  <1> DEFINE l == Left(f)
             c == [l EXCEPT !.step = "content", !.access = code]
             d == [l EXCEPT !.access = code]
  <1>1. f.ran /\ f.raised = NULL /\ ~ f.reported /\ CleanDefaults(f)
    BY DEF RunsMethod, FrameInv, CleanDefaults
  <1>2. /\ l \in Frame /\ l.loading = "no" /\ l.object = NULL
        /\ l.step = f.step /\ l.notes = f.notes /\ l.status = f.status
        /\ l.rc = f.rc /\ l.ran = f.ran /\ l.raised = f.raised
        /\ l.reported = f.reported /\ l.hook = f.hook /\ l.access = f.access
    BY LeftAt
  <1>3. code \in Code \union Status /\ NULL \notin Utility
    BY NullIsNothing DEF Frame, Code, Exception
  <1>4. code \in {"OK", "DECLINED"} => code = "OK" /\ f.status = f.rc
    BY StatusIsNoCode DEF Frame, Code
  <1> HIDE DEF l
  <1>5. CASE f.step = "in content"
    <2>1. HookReturns(l, code) = Finished(l, code)
      BY <1>2, <1>5 DEF HookReturns
    <2> QED BY <1>1, <1>2, <1>3, <2>1, FinishedInv DEF l
  <1>6. CASE f.step = "in access" /\ code \in {"OK", "DECLINED"}
    <2>1. HookReturns(l, code) = c
      BY <1>2, <1>6 DEF HookReturns
    <2>2. /\ c.step = "content" /\ c.access = code /\ c.notes = l.notes
          /\ c.loading = l.loading /\ c.object = l.object /\ c.ran = l.ran
          /\ c.raised = l.raised /\ c.reported = l.reported
          /\ c.status = l.status /\ c.rc = l.rc
      BY <1>2 DEF Frame
    <2> HIDE DEF c
    <2>3. FrameInv(c, map, last)
      BY <1>1, <1>2, <1>4, <1>6, <2>2 DEF FrameInv, CleanDefaults
    <2> QED BY <2>1, <2>3 DEF l
  <1>7. CASE f.step = "in access" /\ code \notin {"OK", "DECLINED"}
    <2>1. HookReturns(l, code) = Finished(d, code)
      BY <1>2, <1>7 DEF HookReturns
    <2>2. d \in Frame
      BY <1>2, <1>3, AccessTyped
    <2>3. /\ d.loading = l.loading /\ d.object = l.object
          /\ d.ran = l.ran /\ d.raised = l.raised /\ d.hook = l.hook
          /\ d.reported = l.reported
      BY <1>2 DEF Frame
    <2> HIDE DEF d
    <2> QED BY <1>1, <1>2, <1>3, <2>1, <2>2, <2>3, FinishedInv DEF l
  <1> QED BY <1>5, <1>6, <1>7 DEF RunsMethod

(* The hook that the configuration of the location, or of the server, and  *)
(* a route given for it: the route is right for FrameInv.                  *)
Resolves(f, route) ==
    /\ f.step \in {"access", "content"}
    /\ f.step = "content" =>
          /\ f.hook = "ruby-handler"
          /\ DirOptions[f.loc]["RubyHandler"] # NULL =>
                route = RouteOf(Config.handlers[DirOptions[f.loc]["RubyHandler"]])

(* A handler's method is called with its object, which the map holds.      *)
LEMMA CallsInv ==
    ASSUME NEW f \in Frame, NEW route \in Routes, NEW object \in Object,
           NEW map, NEW last, FrameInv(f, map, last), Resolves(f, route),
           NEW new, NEW next, new[route] = object
    PROVE  FrameInv(Calls(f, route, object), new, next)
  <1> DEFINE step == IF f.step = "access" THEN "in access" ELSE "in content"
             g == Calls(f, route, object)
  <1>1. /\ f.step = "access" => step = "in access"
        /\ f.step # "access" => step = "in content"
        /\ g = [f EXCEPT !.step = step, !.loading = "no", !.since = 0,
                         !.route = route, !.object = object, !.ran = TRUE]
    BY DEF Calls
  <1> HIDE DEF step, g
  <1>2. /\ g.step = step /\ g.loading = "no" /\ g.route = route
        /\ g.object = object /\ g.ran /\ g.loc = f.loc /\ g.hook = f.hook
        /\ g.notes = f.notes /\ g.raised = f.raised
        /\ g.reported = f.reported
    BY <1>1 DEF Frame
  <1>3. /\ f.step = "access" => g.step = "in access"
        /\ f.step # "access" => g.step = "in content"
        /\ g.loading = "no" /\ g.route = route /\ g.object = object
        /\ g.ran /\ g.loc = f.loc /\ g.hook = f.hook
        /\ g.notes = f.notes /\ g.raised = f.raised
        /\ g.reported = f.reported
    BY <1>1, <1>2
  <1>4. /\ f.raised = NULL /\ ~ f.reported
        /\ \A p \in Part : f.notes[DefaultKey(p)] \in {NULL, Config.default[p]}
    BY DEF FrameInv, Resolves
  <1>5. object # NULL
    BY NullIsNothing
  <1>6. FrameInv(g, new, next)
    BY <1>3, <1>4, <1>5 DEF FrameInv, NamedByLocation, Resolves
  <1> QED BY <1>6 DEF g

(* A hook that begins to load its handler.                                 *)
LEMMA RequiringInv ==
    ASSUME NEW f \in Frame, NEW route \in Routes, NEW map, NEW last,
           FrameInv(f, map, last), Resolves(f, route), f.object = NULL
    PROVE  FrameInv(Requiring(f, route), map, last)
  <1> DEFINE g == Requiring(f, route)
  <1>1. /\ g.loading = "requiring" /\ g.route = route
        /\ g.step = f.step /\ g.loc = f.loc /\ g.hook = f.hook
        /\ g.notes = f.notes /\ g.object = f.object /\ g.ran = f.ran
        /\ g.raised = f.raised /\ g.reported = f.reported
        /\ g.access = f.access
    BY RequiringAt
  <1> HIDE DEF g
  <1>2. FrameInv(g, map, last)
    BY <1>1 DEF FrameInv, NamedByLocation, Resolves
  <1> QED BY <1>2 DEF g

(* A look-up calls the object of the map, or begins to make one where the  *)
(* map has none.                                                           *)
LEMMA LookUpInv ==
    ASSUME TypeOK, NEW f \in Frame, NEW route \in Routes,
           FrameInv(f, handlers, made), Resolves(f, route), f.object = NULL
    PROVE  LET g == LookUp(f, route)
           IN  /\ FrameInv(g, handlers, made)
               /\ g.loading = "creating" => handlers[g.route] = NULL
  <1> DEFINE g == LookUp(f, route)
  <1>1. CASE handlers[route] # NULL
    <2>1. handlers[route] \in Object
      BY <1>1 DEF TypeOK
    <2>2. g = Calls(f, route, handlers[route])
      BY <1>1 DEF LookUp
    <2>3. g.loading = "no"
      BY <2>2, CallsLoading
    <2> QED BY <2>1, <2>2, <2>3, CallsInv
  <1>2. CASE handlers[route] = NULL
    <2>1. g = Creating(f, route, made)
      BY <1>2 DEF LookUp, Creating
    <2>2. made \in 0..MaxObjects /\ made <= made
      BY BoundsAreNat DEF TypeOK
    <2>3. /\ g.loading = "creating" /\ g.route = route /\ g.since = made
          /\ g.step = f.step /\ g.loc = f.loc /\ g.hook = f.hook
          /\ g.notes = f.notes /\ g.object = f.object /\ g.ran = f.ran
          /\ g.raised = f.raised /\ g.reported = f.reported
          /\ g.access = f.access
      BY <2>1, <2>2, CreatingAt
    <2> HIDE DEF g
    <2>4. FrameInv(g, handlers, made)
      BY <1>2, <2>2, <2>3 DEF FrameInv, NamedByLocation, Resolves
    <2> QED BY <1>2, <2>3, <2>4 DEF g
  <1> QED BY <1>1, <1>2

(* Another request stores an object, under a route whose method this one   *)
(* does not run.                                                           *)
LEMMA FrameInvStored ==
    ASSUME NEW f \in Frame, NEW map, NEW last \in Nat, FrameInv(f, map, last),
           NEW route, NEW new,
           \A r \in Routes : new[r] = IF r = route THEN last + 1 ELSE map[r],
           f.object # NULL => f.route # route
    PROVE  FrameInv(f, new, last + 1)
  <1>1. f.since \in Nat
    <2>1. f.since \in 0..MaxObjects
      BY DEF Frame
    <2> QED BY <2>1, BoundsAreNat
  <1>2. f.object # NULL => f.route \in Routes /\ new[f.route] = f.object
    BY DEF FrameInv
  <1>3. f.loading = "creating" =>
            /\ f.since <= last + 1
            /\ new[f.route] # NULL => new[f.route] > f.since
    <2> SUFFICES ASSUME f.loading = "creating"
                 PROVE  /\ f.since <= last + 1
                        /\ new[f.route] # NULL => new[f.route] > f.since
      OBVIOUS
    <2>1. /\ f.route \in Routes /\ f.since <= last
          /\ map[f.route] # NULL => map[f.route] > f.since
      BY DEF FrameInv
    <2>2. CASE f.route = route
      BY <1>1, <2>1, <2>2
    <2>3. CASE f.route # route
      BY <1>1, <2>1, <2>3
    <2> QED BY <2>2, <2>3
  <1> QED BY <1>2, <1>3 DEF FrameInv

---------------------------------------------------------------------------
(* The part of the inductive invariant that is about the stack.            *)

Frames ==
    /\ NestingInv
    /\ \A i \in 1..Len(stack) : FrameInv(stack[i], handlers, made)

LEMMA TopInv ==
    ASSUME TypeOK, Frames, stack # <<>>
    PROVE  Top \in Frame /\ FrameInv(Top, handlers, made)
  BY TopTyped DEF TypeOK, Frames, Top

(* A hook, or the Ruby code of the top, replaces it.                       *)
LEMMA FramesReplaced ==
    ASSUME TypeOK, Frames, stack # <<>>, NEW g \in Frame, Replace(g),
           FrameInv(g, handlers, made), UNCHANGED <<handlers, made>>,
           g.loading = "creating" => handlers[g.route] = NULL
    PROVE  Frames'
  <1> DEFINE n == Len(stack)
  <1>1. /\ n \in Nat \ {0} /\ Len(stack') = n
        /\ \A j \in 1..n : stack'[j] = IF j = n THEN g ELSE stack[j]
    BY TopTyped, StackPut DEF Replace, TypeOK
  <1>2. \A j \in 1..n : FrameInv(stack'[j], handlers', made')
    BY <1>1 DEF Frames
  <1>3. \A j \in 1..n : j < n => RunsRuby(stack'[j])
    BY <1>1 DEF Frames, NestingInv
  <1>4. ASSUME NEW i \in 1..n, NEW j \in 1..n, j < i,
               stack'[j].object # NULL, stack'[i].loading = "creating"
        PROVE  stack'[j].route # stack'[i].route
    <2>1. stack'[j] = stack[j] /\ j # n
      BY <1>1, <1>4
    <2>2. CASE i = n
      <3>1. stack'[i] = g
        BY <1>1, <2>2
      <3>2. handlers[stack[j].route] = stack[j].object
        BY <1>4, <2>1, ZenonT(30) DEF Frames, FrameInv
      <3> QED BY <1>4, <2>1, <3>1, <3>2
    <2>3. CASE i # n
      <3>1. stack'[i] = stack[i]
        BY <1>1, <2>3
      <3> QED BY <1>4, <2>1, <3>1 DEF Frames, NestingInv
    <2> QED BY <2>2, <2>3
  <1> QED BY <1>1, <1>2, <1>3, <1>4 DEF Frames, NestingInv

(* Ruby code writes to a request, wherever its hooks are.                  *)
LEMMA FramesWritten ==
    ASSUME TypeOK, Frames, NEW i \in 1..Len(stack), NEW g \in Frame, Put(i, g),
           FrameInv(g, handlers, made), UNCHANGED <<handlers, made>>,
           g.step = stack[i].step, g.loading = stack[i].loading,
           g.route = stack[i].route, g.object = stack[i].object
    PROVE  Frames'
  <1> DEFINE n == Len(stack)
  <1>1. /\ Len(stack') = n
        /\ \A j \in 1..n : stack'[j] = IF j = i THEN g ELSE stack[j]
    BY StackPut DEF TypeOK
  <1>2. \A j \in 1..n : FrameInv(stack'[j], handlers', made')
    BY <1>1 DEF Frames
  <1>3. \A j \in 1..n : /\ stack'[j].loading = stack[j].loading
                        /\ stack'[j].route = stack[j].route
                        /\ stack'[j].object = stack[j].object
                        /\ RunsRuby(stack'[j]) <=> RunsRuby(stack[j])
    BY <1>1 DEF RunsRuby, RunsMethod
  <1> QED BY <1>1, <1>2, <1>3 DEF Frames, NestingInv

LEMMA FramesPushed ==
    ASSUME TypeOK, Frames, NEW g \in Frame, stack' = Append(stack, g),
           FrameInv(g, handlers, made), UNCHANGED <<handlers, made>>,
           g.loading = "no", stack # <<>> => RunsRuby(Top)
    PROVE  Frames'
  <1> DEFINE n == Len(stack)
  <1>1. /\ n \in Nat /\ Len(stack') = n + 1
        /\ \A j \in 1..n + 1 :
              stack'[j] = IF j = n + 1 THEN g ELSE stack[j]
    BY StackPushed DEF TypeOK
  <1>2. \A j \in 1..n + 1 : FrameInv(stack'[j], handlers', made')
    BY <1>1 DEF Frames
  <1>3. n # 0 => RunsRuby(stack[n])
    BY DEF TypeOK, Top
  <1>4. \A j \in 1..n + 1 : j < n + 1 => RunsRuby(stack'[j])
    BY <1>1, <1>3 DEF Frames, NestingInv
  <1>5. ASSUME NEW i \in 1..n + 1, NEW j \in 1..n + 1, j < i,
               stack'[j].object # NULL, stack'[i].loading = "creating"
        PROVE  stack'[j].route # stack'[i].route
    <2>1. i # n + 1
      BY <1>1, <1>5
    <2>2. /\ i \in 1..n /\ j \in 1..n
          /\ stack'[i] = stack[i] /\ stack'[j] = stack[j]
      BY <1>1, <1>5, <2>1
    <2> QED BY <1>5, <2>2 DEF Frames, NestingInv
  <1> QED BY <1>1, <1>2, <1>4, <1>5 DEF Frames, NestingInv

LEMMA FramesPopped ==
    ASSUME TypeOK, Frames, stack # <<>>,
           stack' = SubSeq(stack, 1, Len(stack) - 1),
           UNCHANGED <<handlers, made>>
    PROVE  Frames'
  <1>1. /\ Len(stack') = Len(stack) - 1 /\ Len(stack) \in Nat
        /\ \A i \in 1..Len(stack') : stack'[i] = stack[i] /\ i \in 1..Len(stack)
    BY StackPopped DEF TypeOK
  <1>2. \A i \in 1..Len(stack') : FrameInv(stack'[i], handlers', made')
    BY <1>1 DEF Frames
  <1>3. \A i \in 1..Len(stack') : i < Len(stack)
    BY <1>1
  <1>4. \A i \in 1..Len(stack') : i < Len(stack') => RunsRuby(stack'[i])
    BY <1>1, <1>3 DEF Frames, NestingInv
  <1>5. \A i, j \in 1..Len(stack') :
            j < i /\ stack'[j].object # NULL /\ stack'[i].loading = "creating"
            => stack'[j].route # stack'[i].route
    BY <1>1 DEF Frames, NestingInv
  <1> QED BY <1>2, <1>4, <1>5 DEF Frames, NestingInv

LEMMA FramesKept ==
    ASSUME Frames, UNCHANGED <<stack, handlers, made>>
    PROVE  Frames'
  BY DEF Frames, NestingInv

LEMMA NoFrames ==
    ASSUME stack' = <<>>
    PROVE  Frames'
  BY DEF Frames, NestingInv

---------------------------------------------------------------------------
(* The process's part of the inductive invariant.                          *)

(* A step inside a request that makes no object.                           *)
LEMMA ProcessKept ==
    ASSUME ProcessInv, child = "serving", UNCHANGED child,
           UNCHANGED <<handlers, registered, made, shutdowns>>
    PROVE  ProcessInv'
  BY DEF ProcessInv

(* A stored object is new: the map stays one-to-one, and all of it is      *)
(* registered.                                                             *)
LEMMA StoreProcess ==
    ASSUME TypeOK, ProcessInv, child = "serving", UNCHANGED <<child, shutdowns>>,
           NEW route \in Routes, Store(route)
    PROVE  ProcessInv'
  <1>1. /\ made' = made + 1 /\ made' \in Object /\ made \in Nat
        /\ registered' = registered \union {made'}
        /\ \A r \in Routes :
              handlers'[r] = IF r = route THEN made' ELSE handlers[r]
    BY StoreTyped, BoundsAreNat DEF TypeOK
  <1>2. \A r \in Routes : handlers[r] # NULL =>
            handlers[r] \in 1..made /\ handlers[r] # made'
    BY <1>1 DEF ProcessInv
  <1>3. \A r \in Routes : handlers'[r] # NULL => handlers'[r] \in 1..made'
    BY <1>1, <1>2
  <1>4. \A q, r \in Routes :
            handlers'[r] # NULL /\ handlers'[q] = handlers'[r] => q = r
    BY <1>1, <1>2, NullIsNothing DEF ProcessInv
  <1>5. registered' = 1..made'
    <2>1. registered = 1..made
      BY DEF ProcessInv
    <2> QED BY <1>1, <2>1
  <1> QED BY <1>3, <1>4, <1>5 DEF ProcessInv

(* The object a constructor made is stored and its method called.          *)
LEMMA StoreFrames ==
    ASSUME TypeOK, Frames, stack # <<>>, Top.loading = "creating",
           Store(Top.route), Replace(Calls(Top, Top.route, made'))
    PROVE  Frames'
  <1> DEFINE n == Len(stack)
             route == Top.route
             g == Calls(Top, route, made')
  <1>1. /\ Top \in Frame /\ FrameInv(Top, handlers, made)
        /\ n \in Nat \ {0} /\ stack[n] = Top
    BY TopInv, TopTyped DEF TypeOK, Top
  <1>2. route \in Routes /\ Resolves(Top, route)
    BY <1>1 DEF FrameInv, Resolves, NamedByLocation
  <1>3. /\ made \in Nat /\ made' = made + 1 /\ made' \in Object
        /\ \A r \in Routes :
              handlers'[r] = IF r = route THEN made' ELSE handlers[r]
    BY <1>2, StoreTyped, BoundsAreNat DEF TypeOK
  <1>4. g \in Frame /\ g.loading = "no" /\ FrameInv(g, handlers', made')
    <2>1. g \in Frame /\ g.loading = "no"
      BY <1>1, <1>2, <1>3, CallsTyped, CallsLoading
    <2>2. handlers'[route] = made'
      BY <1>2, <1>3
    <2> HIDE DEF route
    <2>3. FrameInv(g, handlers', made')
      BY <1>1, <1>2, <1>3, <2>2, CallsInv
    <2> QED BY <2>1, <2>3
  <1> HIDE DEF g
  <1>5. /\ Len(stack') = n
        /\ \A j \in 1..n : stack'[j] = IF j = n THEN g ELSE stack[j]
    BY <1>1, <1>4, StackPut DEF Replace, TypeOK, g
  <1>6. ASSUME NEW j \in 1..n
        PROVE  FrameInv(stack'[j], handlers', made')
    <2>1. CASE j = n
      BY <1>4, <1>5, <2>1
    <2>2. CASE j # n
      <3>1. stack'[j] = stack[j] /\ stack[j] \in Frame
        BY <1>5, <2>2 DEF TypeOK
      <3>2. FrameInv(stack[j], handlers, made)
        BY DEF Frames
      <3>3. stack[j].object # NULL => stack[j].route # route
        BY <1>1, <2>2 DEF Frames, NestingInv
      <3>4. \A r \in Routes :
                handlers'[r] = IF r = route THEN made + 1 ELSE handlers[r]
        BY <1>3
      <3> HIDE DEF route
      <3>5. FrameInv(stack[j], handlers', made + 1)
        BY <1>3, <3>1, <3>2, <3>3, <3>4, FrameInvStored, ZenonT(30)
      <3> QED BY <1>3, <3>1, <3>5
    <2> QED BY <2>1, <2>2
  <1>7. \A j \in 1..n : j < n => RunsRuby(stack'[j])
    BY <1>5 DEF Frames, NestingInv
  <1>8. ASSUME NEW i \in 1..n, NEW j \in 1..n, j < i,
               stack'[j].object # NULL, stack'[i].loading = "creating"
        PROVE  stack'[j].route # stack'[i].route
    <2>1. i # n
      BY <1>4, <1>5, <1>8
    <2>2. stack'[i] = stack[i] /\ stack'[j] = stack[j]
      BY <1>5, <1>8, <2>1
    <2> QED BY <1>8, <2>2 DEF Frames, NestingInv
  <1> QED BY <1>5, <1>6, <1>7, <1>8 DEF Frames, NestingInv

---------------------------------------------------------------------------
(* The inductive step.                                                     *)

(* Every step of a child keeps the map, the registry, the requests and the *)
(* shutdown counts in agreement.                                           *)
THEOREM ChildStep == TypeOK /\ ChildInv /\ [Next]_vars => ChildInv'
  <1> SUFFICES ASSUME TypeOK, ProcessInv, Frames, [Next]_vars
               PROVE  ProcessInv' /\ Frames'
    BY DEF ChildInv, Frames
  <1>1. stack # <<>> => /\ child = "serving"
                        /\ Top \in Frame /\ FrameInv(Top, handlers, made)
    BY TopInv DEF ProcessInv
  (* A hook or Ruby code replaces the top frame, and nothing else changes. *)
  <1>2. ASSUME NEW g \in Frame, Replace(g), FrameInv(g, handlers, made),
               stack # <<>>, UNCHANGED <<child, vm, shutdowns, pending>>,
               g.loading = "creating" => handlers[g.route] = NULL
        PROVE  ProcessInv' /\ Frames'
    <2>1. ProcessInv'
      BY <1>1, <1>2, ProcessKept DEF vm
    <2> QED BY <1>2, <2>1, FramesReplaced DEF vm
  (* A hook that returns is done with loading.                             *)
  <1>3. ASSUME NEW f \in Frame, f.loading = "no", NEW code \in Code \union Status
        PROVE  HookReturns(f, code).loading = "no"
    <2>1. Finished(f, code).loading = "no"
      BY <1>3, FinishedAt
    <2>2. [f EXCEPT !.step = "content", !.access = code].loading = "no"
      BY <1>3 DEF Frame
    <2>3. Finished([f EXCEPT !.access = code], code).loading = "no"
      <3>1. [f EXCEPT !.access = code].loading = "no"
        BY <1>3 DEF Frame
      <3> QED BY <1>3, <3>1, AccessTyped, FinishedAt
    <2> QED BY <2>1, <2>2, <2>3 DEF HookReturns
  (* A hook that ends with an exception replaces the top frame.            *)
  <1>4. ASSUME NEW f \in Frame, FrameInv(f, handlers, made),
               f.step # "finished", NEW e \in Exception, stack # <<>>,
               Replace(Throw(f, e)), UNCHANGED <<child, vm, shutdowns, pending>>
        PROVE  ProcessInv' /\ Frames'
    <2>1. Throw(f, e) = HookReturns(Thrown(f, e), Caught(f))
      BY DEF Throw, Thrown
    <2>2. Caught(f) \in Code
      BY DEF Caught, Code
    <2>3. Thrown(f, e) \in Frame /\ Thrown(f, e).loading = "no"
      BY <1>4, ThrownAt
    <2>4. Throw(f, e).loading = "no"
      BY <1>3, <2>1, <2>2, <2>3
    <2> QED BY <1>2, <1>4, <2>4, ThrowTyped, ThrowInv
  (* The hook that is entered, where it resolves a handler.                *)
  <1>5. stack # <<>> /\ Resolving(Top) =>
            LET g == Entered(Top)
            IN  /\ g \in Frame /\ FrameInv(g, handlers, made)
                /\ g.step = Top.step /\ g.step \in {"access", "content"}
                /\ g.hook = Top.hook /\ g.loc = Top.loc
                /\ g.loading = "no" /\ g.object = NULL
                /\ g.step = "content" => g.hook = "ruby-handler"
                /\ CleanDefaults(Top)
    <2> SUFFICES ASSUME stack # <<>>, Resolving(Top)
                 PROVE  LET g == Entered(Top)
                        IN  /\ g \in Frame /\ FrameInv(g, handlers, made)
                            /\ g.step = Top.step /\ g.step \in {"access", "content"}
                            /\ g.hook = Top.hook /\ g.loc = Top.loc
                            /\ g.loading = "no" /\ g.object = NULL
                            /\ g.step = "content" => g.hook = "ruby-handler"
                            /\ CleanDefaults(Top)
      OBVIOUS
    <2>1. /\ Top.loading = "no" /\ Top.step \in {"access", "content"}
          /\ Top.step = "content" => Top.hook = "ruby-handler"
      BY DEF Resolving
    <2>2. FrameInv(Entered(Top), handlers, made) /\ CleanDefaults(Top)
      BY <1>1, <2>1, EnteredInv
    <2>3. Top.object = NULL
      BY <1>1, <2>1 DEF FrameInv
    <2> DEFINE g == Entered(Top)
    <2>4. /\ g \in Frame /\ g.step = Top.step /\ g.hook = Top.hook
          /\ g.loc = Top.loc /\ g.loading = Top.loading /\ g.object = Top.object
      BY <1>1, <2>2, EnteredAt
    <2> HIDE DEF g
    <2>5. FrameInv(g, handlers, made)
      BY <2>2 DEF g
    <2>6. /\ g \in Frame /\ FrameInv(g, handlers, made)
          /\ g.step = Top.step /\ g.step \in {"access", "content"}
          /\ g.hook = Top.hook /\ g.loc = Top.loc
          /\ g.loading = "no" /\ g.object = NULL
          /\ g.step = "content" => g.hook = "ruby-handler"
          /\ CleanDefaults(Top)
      BY <2>1, <2>2, <2>3, <2>4, <2>5
    <2> QED BY <2>6 DEF g
  <1>6. ASSUME NEW ok \in BOOLEAN, InitModule(ok)
        PROVE  ProcessInv' /\ Frames'
    <2>1. /\ child' = "serving" /\ handlers' = [r \in Routes |-> NULL]
          /\ registered' = {} /\ made' = 0 /\ stack' = <<>>
          /\ shutdowns' = [o \in Object |-> 0]
      BY <1>6 DEF InitModule, FreshProcess, Startup
    <2> QED BY <2>1, NoFrames DEF ProcessInv
  <1>7. ASSUME NEW loc \in Location, NEW hook \in Hook, NEW s \in Status,
               BeginRequest(loc, hook, s)
        PROVE  ProcessInv' /\ Frames'
    <2>1. /\ stack = <<>> /\ stack' = Append(stack, NewFrame(loc, hook, s))
          /\ child = "serving" /\ UNCHANGED <<child, vm, shutdowns, pending>>
      BY <1>7 DEF BeginRequest
    <2>2. ProcessInv'
      BY <2>1, ProcessKept DEF vm
    <2>3. NewFrame(loc, hook, s).loading = "no"
      BY DEF NewFrame
    <2> QED BY <2>1, <2>2, <2>3, NewFrameTyped, NewFrameInv, FramesPushed DEF vm
  <1>8. CASE HookEmpty
    <2> DEFINE e == Entered(Top)
               r == [e EXCEPT !.reported = TRUE]
               c == [e EXCEPT !.step = "content", !.access = "DECLINED"]
    <2>1. /\ stack # <<>> /\ Resolving(Top)
          /\ Replace(IF Top.step = "access" THEN HookReturns(e, "DECLINED")
                     ELSE HookReturns(r, "OK"))
          /\ UNCHANGED <<child, vm, shutdowns, pending>>
      BY <1>8 DEF HookEmpty
    <2>2. /\ e \in Frame /\ FrameInv(e, handlers, made) /\ e.step = Top.step
          /\ e.step \in {"access", "content"} /\ e.loading = "no"
          /\ e.object = NULL /\ e.rc = e.status
      BY <1>1, <1>5, <2>1, EnteredAt
    <2> HIDE DEF e
    <2>3. "OK" \in Code /\ "DECLINED" \in Code
      BY DEF Code
    <2>4. CASE e.step = "access"
      <3>1. HookReturns(e, "DECLINED") = c
        BY <2>4 DEF HookReturns
      <3>2. c \in Frame
        BY <2>2, <2>3, ZenonT(30) DEF Frame
      <3>3. /\ c.step = "content" /\ c.access = "DECLINED"
            /\ c.notes = e.notes /\ c.loading = e.loading
            /\ c.object = e.object /\ c.ran = e.ran /\ c.raised = e.raised
            /\ c.reported = e.reported /\ c.rc = e.rc /\ c.status = e.status
        BY <2>2 DEF Frame
      <3> HIDE DEF c
      <3>4. FrameInv(c, handlers, made)
        BY <2>2, <2>4, <3>3 DEF FrameInv
      <3> QED BY <1>2, <2>1, <2>2, <2>4, <3>1, <3>2, <3>3, <3>4
    <2>5. CASE e.step = "content"
      <3>1. r.step = e.step
        BY <2>2 DEF Frame
      <3>2. HookReturns(r, "OK") = Finished(r, "OK")
        BY <2>5, <3>1 DEF HookReturns
      <3>3. /\ r \in Frame /\ r.loading = e.loading /\ r.object = e.object
            /\ r.access = e.access /\ r.ran = e.ran /\ r.raised = e.raised
            /\ r.reported
        BY <2>2, ZenonT(30) DEF Frame
      <3>4. e.raised = NULL /\ NULL \notin Utility /\ (e.access = "OK" => e.ran)
        BY <2>2, <2>5, NullIsNothing DEF FrameInv, Exception
      <3> HIDE DEF r
      <3>5. FrameInv(Finished(r, "OK"), handlers, made)
        BY <2>2, <2>3, <3>3, <3>4, FinishedInv
      <3>6. Finished(r, "OK") \in Frame /\ Finished(r, "OK").loading = "no"
        BY <2>2, <2>3, <3>3, FinishedAt
      <3> QED BY <1>2, <2>1, <2>2, <2>5, <3>2, <3>5, <3>6
    <2> QED BY <2>2, <2>4, <2>5
  <1>9. CASE HookUndefined
    <2>1. "Error" \in Exception
      BY DEF Exception
    <2>2. /\ stack # <<>> /\ Resolving(Top)
          /\ Replace(Throw(Entered(Top), "Error"))
          /\ UNCHANGED <<child, vm, shutdowns, pending>>
      BY <1>9 DEF HookUndefined
    <2> QED BY <1>4, <1>5, <2>1, <2>2
  <1>10. CASE HookLoads
    <2> DEFINE route == Resolve(Top).route
               e == Entered(Top)
    <2>1. /\ stack # <<>> /\ Resolving(Top) /\ Resolve(Top).kind = "load"
          /\ Replace(IF Loads(route["Module"])
                     THEN Requiring(e, route) ELSE LookUp(e, route))
          /\ UNCHANGED <<child, vm, shutdowns, pending>>
      BY <1>10 DEF HookLoads, Requiring
    <2>2. /\ e \in Frame /\ FrameInv(e, handlers, made)
          /\ e.step = Top.step /\ e.step \in {"access", "content"}
          /\ e.hook = Top.hook /\ e.loc = Top.loc
          /\ e.loading = "no" /\ e.object = NULL
          /\ e.step = "content" => e.hook = "ruby-handler"
          /\ CleanDefaults(Top)
      BY <1>5, <2>1
    <2>3. route \in Routes /\ Resolves(e, route)
      BY <1>1, <2>1, <2>2, ResolveAt DEF Resolves
    <2> HIDE DEF route, e
    <2>4. CASE Loads(route["Module"])
      <3>1. /\ Requiring(e, route) \in Frame
            /\ Requiring(e, route).loading = "requiring"
            /\ FrameInv(Requiring(e, route), handlers, made)
        BY <2>2, <2>3, RequiringAt, RequiringInv
      <3> QED BY <1>2, <2>1, <2>4, <3>1
    <2>5. CASE ~ Loads(route["Module"])
      BY <1>2, <2>1, <2>2, <2>3, <2>5, LookUpTyped, LookUpInv
    <2> QED BY <2>4, <2>5
  <1>11. CASE RequireReturns
    <2> DEFINE g == LookUp(Top, Top.route)
    <2>1. /\ stack # <<>> /\ Top.loading = "requiring" /\ Replace(g)
          /\ UNCHANGED <<child, handlers, registered, made, shutdowns>>
      BY <1>11 DEF RequireReturns
    <2>2. Top.route \in Routes /\ Resolves(Top, Top.route) /\ Top.object = NULL
      BY <1>1, <2>1 DEF FrameInv, Resolves, NamedByLocation
    <2>3. /\ g \in Frame /\ FrameInv(g, handlers, made)
          /\ g.loading = "creating" => handlers[g.route] = NULL
      BY <1>1, <2>1, <2>2, LookUpTyped, LookUpInv
    <2> HIDE DEF g
    <2>4. ProcessInv'
      BY <1>1, <2>1, ProcessKept
    <2> QED BY <2>1, <2>3, <2>4, FramesReplaced
  <1>12. ASSUME NEW e \in Exception, RequireRaises(e)
         PROVE  ProcessInv' /\ Frames'
    <2>1. /\ stack # <<>> /\ Top.loading = "requiring"
          /\ Replace(Throw(Top, e))
          /\ UNCHANGED <<child, vm, shutdowns, pending>>
      BY <1>12 DEF RequireRaises
    <2>2. Top.step # "finished"
      BY <1>1, <2>1 DEF FrameInv
    <2> QED BY <1>1, <1>4, <2>1, <2>2
  <1>13. CASE CreateReturns
    <2>1. /\ stack # <<>> /\ Top.loading = "creating" /\ Store(Top.route)
          /\ Replace(Calls(Top, Top.route, made'))
          /\ UNCHANGED <<child, shutdowns>>
      BY <1>13 DEF CreateReturns
    <2>2. Top.route \in Routes
      BY <1>1, <2>1 DEF FrameInv
    <2> QED BY <1>1, <2>1, <2>2, StoreProcess, StoreFrames
  <1>14. CASE CreateRaises
    <2>1. /\ stack # <<>> /\ Top.loading = "creating"
          /\ Replace(Throw(Top, "Error"))
          /\ UNCHANGED <<child, vm, shutdowns, pending>>
      BY <1>14 DEF CreateRaises
    <2>2. Top.step # "finished" /\ "Error" \in Exception
      BY <1>1, <2>1 DEF FrameInv, Exception
    <2> QED BY <1>1, <1>4, <2>1, <2>2
  <1>15. CASE ScriptRuns
    <2> DEFINE g == [Top EXCEPT !.step = "in content", !.rc = Top.status,
                                !.ran = TRUE]
    <2>1. /\ stack # <<>> /\ Generic(Top) /\ Replace(g)
          /\ UNCHANGED <<child, vm, shutdowns, pending>>
      BY <1>15 DEF ScriptRuns
    <2>2. /\ Top.step = "content" /\ Top.hook # "ruby-handler"
      BY <2>1 DEF Generic
    <2>3. Top.loading = "no" /\ Top.object = NULL
      BY <1>1, <2>1, <2>2 DEF FrameInv
    <2>4. g \in Frame
      BY <1>1, <2>1 DEF Frame
    <2>5. /\ g.step = "in content" /\ g.ran /\ g.loading = Top.loading
          /\ g.object = Top.object /\ g.notes = Top.notes /\ g.hook = Top.hook
          /\ g.raised = Top.raised /\ g.reported = Top.reported
      BY <1>1, <2>1 DEF Frame
    <2> HIDE DEF g
    <2>6. FrameInv(g, handlers, made)
      BY <1>1, <2>1, <2>2, <2>3, <2>5 DEF FrameInv
    <2> QED BY <1>2, <2>1, <2>3, <2>4, <2>5, <2>6
  <1>16. CASE ScriptCrashes
    <2>1. /\ child' = "crashed" /\ stack' = <<>>
          /\ UNCHANGED <<vm, shutdowns, pending>>
      BY <1>16 DEF ScriptCrashes
    <2> QED BY <2>1, NoFrames DEF ProcessInv, vm
  <1>17. CASE ServedElsewhere
    <2>1. /\ stack # <<>> /\ Top.step = "content" /\ Top.hook = "other"
          /\ Replace(Finished(Top, "DECLINED"))
          /\ UNCHANGED <<child, vm, shutdowns, pending>>
      BY <1>17 DEF ServedElsewhere
    <2>2. /\ Top.raised = NULL /\ NULL \notin Utility
          /\ Top.loading = "no" /\ Top.object = NULL
          /\ Top.access = "OK" => Top.ran
      BY <1>1, <2>1, NullIsNothing DEF FrameInv, Exception
    <2>3. "DECLINED" \in Code
      BY DEF Code
    <2>4. /\ Finished(Top, "DECLINED") \in Frame
          /\ Finished(Top, "DECLINED").loading = "no"
      BY <1>1, <2>1, <2>2, <2>3, FinishedAt
    <2>5. FrameInv(Finished(Top, "DECLINED"), handlers, made)
      BY <1>1, <2>1, <2>2, <2>3, FinishedInv
    <2> QED BY <1>2, <2>1, <2>4, <2>5
  (* Ruby code writes to a request that runs Ruby code, or to a nested one *)
  (* that Apache is done with.                                             *)
  <1>18. ASSUME NEW i \in 1..Len(stack), InRuby
         PROVE  /\ stack # <<>> /\ child = "serving" /\ stack[i] \in Frame
                /\ FrameInv(stack[i], handlers, made) /\ RunsRuby(stack[i])
    <2>1. stack # <<>> /\ RunsRuby(stack[Len(stack)])
      BY <1>18 DEF InRuby, Top
    <2>2. RunsRuby(stack[i])
      <3>1. CASE i = Len(stack)
        BY <2>1, <3>1
      <3>2. CASE i # Len(stack)
        BY <3>2 DEF Frames, NestingInv, TypeOK
      <3> QED BY <3>1, <3>2
    <2> QED BY <1>1, <2>1, <2>2 DEF TypeOK, Frames
  <1>19. ASSUME NEW i \in 1..Len(stack), NEW s \in Status, RubySetStatus(i, s)
         PROVE  ProcessInv' /\ Frames'
    <2> DEFINE f == stack[i]
               g == [f EXCEPT !.status = s]
    <2>1. /\ InRuby /\ Put(i, g) /\ UNCHANGED <<child, vm, shutdowns, pending>>
      BY <1>19 DEF RubySetStatus
    <2>2. /\ child = "serving" /\ f \in Frame
          /\ FrameInv(f, handlers, made) /\ RunsRuby(f)
      BY <1>18, <2>1
    <2>3. g \in Frame
      BY <2>2, SetStatusTyped
    <2> HIDE DEF f
    <2>4. /\ g.loc = f.loc /\ g.hook = f.hook /\ g.step = f.step
          /\ g.notes = f.notes /\ g.loading = f.loading /\ g.route = f.route
          /\ g.object = f.object /\ g.since = f.since /\ g.ran = f.ran
          /\ g.raised = f.raised /\ g.reported = f.reported
          /\ g.access = f.access /\ g.result = f.result
      BY <2>2 DEF Frame
    <2> HIDE DEF g
    <2>5. FrameInv(g, handlers, made)
      BY <2>2, <2>4 DEF FrameInv, NamedByLocation, RunsRuby, RunsMethod
    <2>6. ProcessInv'
      BY <2>1, <2>2, ProcessKept DEF vm
    <2> USE DEF f
    <2> QED BY <2>1, <2>3, <2>4, <2>5, <2>6, FramesWritten DEF vm
  <1>20. ASSUME NEW i \in 1..Len(stack), NEW h \in HandlerName,
                RubySetNote(i, "RubyHandler", h)
         PROVE  ProcessInv' /\ Frames'
    <2> DEFINE f == stack[i]
               g == [f EXCEPT !.notes["RubyHandler"] = h]
    <2>1. /\ InRuby /\ Put(i, g) /\ UNCHANGED <<child, vm, shutdowns, pending>>
      BY <1>20 DEF RubySetNote
    <2>2. /\ child = "serving" /\ f \in Frame
          /\ FrameInv(f, handlers, made) /\ RunsRuby(f)
      BY <1>18, <2>1
    <2>3. /\ g \in Frame
          /\ \A p \in Part : g.notes[DefaultKey(p)] = f.notes[DefaultKey(p)]
      BY <2>2, SetNoteTyped
    <2> HIDE DEF f
    <2>4. /\ g.loc = f.loc /\ g.hook = f.hook /\ g.step = f.step
          /\ g.status = f.status /\ g.rc = f.rc
          /\ g.loading = f.loading /\ g.route = f.route
          /\ g.object = f.object /\ g.since = f.since /\ g.ran = f.ran
          /\ g.raised = f.raised /\ g.reported = f.reported
          /\ g.access = f.access /\ g.result = f.result
      BY <2>2 DEF Frame
    <2> HIDE DEF g
    <2>5. FrameInv(g, handlers, made)
      BY <2>2, <2>3, <2>4 DEF FrameInv, NamedByLocation
    <2>6. ProcessInv'
      BY <2>1, <2>2, ProcessKept DEF vm
    <2> USE DEF f
    <2> QED BY <2>1, <2>3, <2>4, <2>5, <2>6, FramesWritten DEF vm
  <1>21. ASSUME NEW i \in 1..Len(stack), NEW loc \in Location,
                NEW hook \in Hook, NEW s \in Status,
                RubyInternalRedirect(i, loc, hook, s)
         PROVE  ProcessInv' /\ Frames'
    <2>1. /\ stack' = Append(stack, NewFrame(loc, hook, s)) /\ InRuby
          /\ stack # <<>> /\ RunsRuby(Top)
          /\ UNCHANGED <<child, vm, shutdowns, pending>>
      BY <1>21 DEF RubyInternalRedirect, InRuby
    <2>2. ProcessInv'
      BY <1>1, <2>1, ProcessKept DEF vm
    <2>3. NewFrame(loc, hook, s).loading = "no"
      BY DEF NewFrame
    <2> QED BY <2>1, <2>2, <2>3, NewFrameTyped, NewFrameInv, FramesPushed DEF vm
  <1>22. CASE RubyReturn
    <2> DEFINE code == IF Top.status # Top.rc THEN Top.status ELSE "OK"
               g == HookReturns(Left(Top), code)
    <2>1. /\ stack # <<>> /\ RunsMethod(Top) /\ Replace(g)
          /\ UNCHANGED <<child, vm, shutdowns, pending>>
      BY <1>22 DEF RubyReturn, Running
    <2>2. code \in Code \union Status
      BY <1>1, <2>1 DEF Frame, Code
    <2>3. FrameInv(g, handlers, made)
      BY <1>1, <2>1, ReturnInv
    <2> HIDE DEF code
    <2>4. Left(Top) \in Frame /\ Left(Top).loading = "no"
      BY <1>1, <2>1, LeftAt
    <2>5. g \in Frame /\ g.loading = "no"
      BY <1>3, <2>2, <2>4, HookReturnsTyped
    <2> QED BY <1>2, <2>1, <2>3, <2>5
  <1>23. ASSUME NEW e \in Exception, RubyRaise(e)
         PROVE  ProcessInv' /\ Frames'
    <2>1. /\ stack # <<>> /\ RunsMethod(Top) /\ Replace(Throw(Top, e))
          /\ UNCHANGED <<child, vm, shutdowns, pending>>
      BY <1>23 DEF RubyRaise, Running
    <2>2. Top.step # "finished"
      BY <2>1 DEF RunsMethod
    <2> QED BY <1>1, <1>4, <2>1, <2>2
  <1>24. CASE EndRequest
    <2>1. ProcessInv'
      BY <1>1, <1>24, ProcessKept DEF EndRequest, vm
    <2> QED BY <1>24, <2>1, FramesPopped DEF EndRequest, vm
  <1>25. CASE StopChild
    <2>1. /\ child = "serving" /\ child' = "stopping" /\ stack' = <<>>
          /\ pending' = {r \in Routes : handlers[r] # NULL}
          /\ UNCHANGED <<handlers, registered, made, shutdowns>>
      BY <1>25 DEF StopChild, vm
    <2>2. \A o \in Object, r \in Routes \ pending' : handlers[r] # o
      BY <2>1, NullIsNothing
    <2>3. \A o \in Object : shutdowns[o] = 0
      BY <2>1 DEF ProcessInv
    <2>4. ProcessInv'
      BY <2>1, <2>2, <2>3 DEF ProcessInv
    <2> QED BY <2>1, <2>4, NoFrames
  <1>26. ASSUME NEW r \in Routes, NEW raised \in BOOLEAN,
                ShutdownHandler(r, raised)
         PROVE  ProcessInv' /\ Frames'
    <2> DEFINE o == handlers[r]
    <2>1. /\ child = "stopping" /\ r \in pending /\ pending' = pending \ {r}
          /\ shutdowns' = [shutdowns EXCEPT ![o] = shutdowns[o] + 1]
          /\ UNCHANGED <<child, handlers, registered, made, stack>>
      BY <1>26 DEF ShutdownHandler, vm
    <2>2. o # NULL /\ o \in Object
      BY <2>1 DEF ProcessInv, TypeOK
    <2>3. \A q \in Routes : handlers[q] = o => q = r
      BY <2>2 DEF ProcessInv
    <2>4. \A p \in Object : shutdowns[p] =
              IF \E q \in Routes \ pending : handlers[q] = p THEN 1 ELSE 0
      BY <2>1 DEF ProcessInv
    <2>5. shutdowns[o] = 0
      BY <2>1, <2>2, <2>3, <2>4
    <2>6. \A p \in Object :
              shutdowns'[p] = IF p = o THEN 1 ELSE shutdowns[p]
      BY <2>1, <2>2, <2>5 DEF TypeOK
    <2>7. \A p \in Object : shutdowns'[p] =
              IF \E q \in Routes \ pending' : handlers[q] = p THEN 1 ELSE 0
      <3> SUFFICES ASSUME NEW p \in Object
                   PROVE  shutdowns'[p] =
                              IF \E q \in Routes \ pending' : handlers[q] = p
                              THEN 1 ELSE 0
        OBVIOUS
      <3>1. CASE p = o
        <4>1. r \in Routes \ pending' /\ handlers[r] = p
          BY <2>1, <3>1
        <4> QED BY <2>6, <3>1, <4>1
      <3>2. CASE p # o
        <4>1. (\E q \in Routes \ pending' : handlers[q] = p)
                  <=> (\E q \in Routes \ pending : handlers[q] = p)
          BY <2>1, <3>2
        <4> QED BY <2>4, <2>6, <3>2, <4>1
      <3> QED BY <3>1, <3>2
    <2>8. ProcessInv'
      BY <2>1, <2>7 DEF ProcessInv
    <2> QED BY <2>1, <2>8, FramesKept
  <1>27. CASE ShutdownVM
    <2>1. /\ child = "stopping" /\ pending = {} /\ child' = "exited"
          /\ UNCHANGED <<handlers, made, shutdowns, stack>>
      BY <1>27 DEF ShutdownVM, FreeAll
    <2>2. ProcessInv'
      BY <2>1 DEF ProcessInv
    <2> QED BY <2>1, <2>2, FramesKept
  <1>28. CASE UNCHANGED vars
    <2>1. UNCHANGED <<child, handlers, registered, made, shutdowns, pending,
                      stack>>
      BY <1>28 DEF vars, vm
    <2>2. ProcessInv'
      BY <2>1 DEF ProcessInv
    <2> QED BY <2>1, <2>2, FramesKept
  <1> QED BY <1>6, <1>7, <1>8, <1>9, <1>10, <1>11, <1>12, <1>13, <1>14,
             <1>15, <1>16, <1>17, <1>19, <1>20, <1>21, <1>22, <1>23, <1>24,
             <1>25, <1>26, <1>27, <1>28 DEF Next, Hooks, Ruby

---------------------------------------------------------------------------
(* The theorems.                                                           *)

LEMMA InitTyped == Init => TypeOK
  <1> SUFFICES ASSUME Init PROVE TypeOK
    OBVIOUS
  <1>1. stack \in Seq(Frame) /\ Len(stack) <= MaxDepth
    BY BoundsAreNat DEF Init
  <1>2. handlers \in [Routes -> Object \union {NULL}]
    BY DEF Init
  <1>3. made \in 0..MaxObjects /\ shutdowns \in [Object -> Nat]
    BY BoundsAreNat DEF Init
  <1> QED BY <1>1, <1>2, <1>3 DEF Init, TypeOK

LEMMA InitChild == Init => ChildInv
  BY DEF Init, ChildInv, ProcessInv, NestingInv

(* Every reachable state has its types, and the map, the registry, the     *)
(* requests and the shutdown counts agree.  The two are proved together:   *)
(* that a hook stores its object under a route of the server rests on the  *)
(* notes of the request (module.cpp:274-461).                              *)
THEOREM Inductive == Spec => [](TypeOK /\ ChildInv)
  <1>1. Init => TypeOK /\ ChildInv
    BY InitTyped, InitChild
  <1>2. TypeOK /\ ChildInv /\ [Next]_vars => TypeOK' /\ ChildInv'
    BY TypeStep, ChildStep, InvIsClean, InvIsLoading
  <1> QED BY <1>1, <1>2, PTL DEF Spec

(* The state of the process and of every request has its kind.             *)
THEOREM Typed == Spec => []TypeOK
  BY Inductive, PTL

(* The inductive invariant holds in every reachable state.                 *)
THEOREM ChildInvHolds == Spec => []ChildInv
  BY Inductive, PTL

(* A request the access hook refused is never served, by Ruby or by any    *)
(* other module (module.cpp:859-966).                                      *)
THEOREM RefusedIsNotServed == Spec => []RefusedNeverServed
  <1>1. ChildInv => RefusedNeverServed
    BY DEF ChildInv, FrameInv, RefusedNeverServed
  <1> QED BY <1>1, Inductive, PTL

(* The content handler that runs is the one the configuration names        *)
(* (module.cpp:632-638).                                                   *)
THEOREM ConfiguredRuns == Spec => []ConfiguredContentRuns
  <1>1. ChildInv => ConfiguredContentRuns
    BY DEF ChildInv, FrameInv, NamedByLocation, ConfiguredContentRuns
  <1> QED BY <1>1, Inductive, PTL

(* A running method's object is the one the map holds for its route, at    *)
(* any depth (module.cpp:429-461).                                         *)
THEOREM RunningIsStored == Spec => []RunningRouteIsStored
  <1>1. ChildInv => RunningRouteIsStored
    BY DEF ChildInv, FrameInv, RunningRouteIsStored
  <1> QED BY <1>1, Inductive, PTL

(* The collector sees every object the module holds (ruby.cpp:113).        *)
THEOREM HeldAreRooted == Spec => []HeldObjectsAreRooted
  <1>1. TypeOK /\ ChildInv => HeldObjectsAreRooted
    <2> SUFFICES ASSUME TypeOK, ChildInv, child \in {"serving", "stopping"}
                 PROVE  /\ \A r \in Routes : handlers[r] # NULL =>
                              handlers[r] \in registered
                        /\ \A i \in 1..Len(stack) : stack[i].object # NULL =>
                              stack[i].object \in registered
      BY DEF HeldObjectsAreRooted
    <2>1. \A r \in Routes : handlers[r] # NULL => handlers[r] \in registered
      BY DEF ChildInv, ProcessInv
    <2>2. ASSUME NEW i \in 1..Len(stack), stack[i].object # NULL
          PROVE  stack[i].object \in registered
      <3>1. /\ stack[i].route \in Routes
            /\ handlers[stack[i].route] = stack[i].object
        BY <2>2 DEF ChildInv, FrameInv
      <3> QED BY <2>1, <2>2, <3>1
    <2> QED BY <2>1, <2>2
  <1> QED BY <1>1, Inductive, PTL

(* When the child exits, every object of the map was shut down exactly     *)
(* once, and no other (module.cpp:205-234).                                *)
THEOREM ShutdownIsComplete == Spec => []ShutdownReachesAll
  <1>1. ChildInv => ShutdownReachesAll
    BY DEF ChildInv, ProcessInv, ShutdownReachesAll
  <1> QED BY <1>1, Inductive, PTL

(* A request for which no Ruby code ran was reported, served elsewhere, or *)
(* ended on purpose; and what ends on purpose is not reported              *)
(* (module.cpp:640-685).                                                   *)
THEOREM FailuresAreReported == Spec => []NothingFailsSilently
  <1>1. ChildInv => NothingFailsSilently
    BY DEF ChildInv, FrameInv, NothingFailsSilently
  <1> QED BY <1>1, Inductive, PTL

(* A step of a serving child changes the map in CreateReturns only.        *)
LEMMA OnlyCreateStores ==
    ASSUME Next, child = "serving", ~ CreateReturns
    PROVE  UNCHANGED handlers
  BY DEF Next, Hooks, Ruby, InitModule, BeginRequest, HookEmpty,
         HookUndefined, HookLoads, RequireReturns, RequireRaises,
         CreateRaises, ScriptRuns, ScriptCrashes, ServedElsewhere,
         RubySetStatus, RubySetNote, RubyInternalRedirect, RubyReturn,
         RubyRaise, EndRequest, StopChild, ShutdownHandler, ShutdownVM, vm

(* The object of a route is replaced only by one whose constructor was     *)
(* running when it was made, and never under a request that runs its       *)
(* method (module.cpp:429-461).                                            *)
THEOREM OneObject == Spec => OneObjectPerRoute
  <1> DEFINE Replaced(r) ==
                 /\ handlers'[r] # NULL
                 /\ Top.loading = "creating" /\ Top.route = r
                 /\ handlers[r] > Top.since
                 /\ \A i \in 1..Len(stack) : stack[i].object # handlers[r]
             Step ==
                 child = "serving" =>
                     \A r \in Routes :
                         /\ handlers[r] # NULL /\ handlers'[r] # handlers[r]
                                => Replaced(r)
                         /\ \A q \in Routes : handlers'[r] # NULL /\ q # r
                                              => handlers'[q] # handlers'[r]
  <1>1. TypeOK /\ ChildInv /\ TypeOK' /\ ChildInv' /\ [Next]_vars => [Step]_vars
    <2> SUFFICES ASSUME TypeOK, ChildInv, ChildInv', Next, child = "serving",
                        NEW r \in Routes
                 PROVE  /\ handlers[r] # NULL /\ handlers'[r] # handlers[r]
                               => Replaced(r)
                        /\ \A q \in Routes : handlers'[r] # NULL /\ q # r
                                             => handlers'[q] # handlers'[r]
      OBVIOUS
    <2>1. \A q \in Routes : handlers'[r] # NULL /\ q # r
                            => handlers'[q] # handlers'[r]
      BY DEF ChildInv, ProcessInv
    <2>2. ASSUME handlers[r] # NULL, handlers'[r] # handlers[r]
          PROVE  Replaced(r)
      <3>1. CreateReturns
        BY <2>2, OnlyCreateStores
      <3>2. /\ stack # <<>> /\ Top.loading = "creating" /\ Store(Top.route)
        BY <3>1 DEF CreateReturns
      <3>3. Top \in Frame /\ FrameInv(Top, handlers, made)
        BY <3>2, TopInv DEF ChildInv, Frames
      <3>4. Top.route \in Routes /\ Top.object = NULL
        BY <3>2, <3>3 DEF FrameInv
      <3>5. /\ made' \in Object
            /\ \A q \in Routes :
                  handlers'[q] = IF q = Top.route THEN made' ELSE handlers[q]
        BY <3>2, <3>4, StoreTyped
      <3>6. Top.route = r /\ handlers'[r] # NULL
        BY <2>2, <3>4, <3>5, NullIsNothing
      <3>7. handlers[r] > Top.since
        BY <2>2, <3>2, <3>3, <3>6 DEF FrameInv
      <3>8. ASSUME NEW i \in 1..Len(stack), stack[i].object = handlers[r]
            PROVE  FALSE
        <4>1. /\ stack[i].route \in Routes
              /\ handlers[stack[i].route] = stack[i].object
          BY <2>2, <3>8 DEF ChildInv, FrameInv
        <4>2. stack[i].route = r
          BY <2>2, <3>8, <4>1 DEF ChildInv, ProcessInv
        <4>3. i # Len(stack)
          BY <2>2, <3>4, <3>8 DEF Top
        <4>4. stack[Len(stack)] = Top /\ Len(stack) \in 1..Len(stack)
          BY <3>2, TopTyped DEF Top, TypeOK
        <4>5. i < Len(stack)
          BY <4>3 DEF TypeOK
        <4>6. stack[i].route # Top.route
          BY <2>2, <3>2, <3>8, <4>4, <4>5 DEF ChildInv, NestingInv
        <4> QED BY <3>6, <4>2, <4>6
      <3> QED BY <3>2, <3>6, <3>7, <3>8
    <2> QED BY <2>1, <2>2
  <1> HIDE DEF Step
  <1>2. Spec => [][Step]_vars
    BY <1>1, Inductive, PTL DEF Spec
  <1> QED BY <1>2 DEF OneObjectPerRoute, Step

===========================================================================
