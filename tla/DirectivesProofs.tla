------------------------- MODULE DirectivesProofs -------------------------
(***************************************************************************)
(* Theorems of Directives, for every set of servers, sections, handlers,   *)
(* options and values and for files of every length: the type invariant    *)
(* and the routing of requests.                                            *)
(***************************************************************************)
EXTENDS Directives, TLAPS

---------------------------------------------------------------------------
(* The keys.                                                               *)

LEMMA KeysKnown ==
    /\ "RubyHandler" \in Key /\ "RubyAccessHandler" \in Key
    /\ \A p \in Part : HandlerKey(p) \in Key /\ DefaultKey(p) \in Key
    /\ Option \subseteq Key
    /\ HandlerKeys \subseteq Key
  BY DEF Key, Slots, HandlerKeys, DefaultKeys

LEMMA EmptyTyped == EmptyTable \in Table /\ EmptyRoute \in Route
  BY DEF EmptyTable, EmptyRoute, Table, Route

---------------------------------------------------------------------------
(* What the merging functions return.                                      *)

LEMMA OverlayTyped ==
    ASSUME NEW base \in Table, NEW over \in Table
    PROVE  Overlay(base, over) \in Table
  BY DEF Overlay, Table

LEMMA MergeVarTyped ==
    ASSUME NEW notes \in Table, NEW options \in Table, NEW var \in Key,
           NEW v \in Value \union {NULL}
    PROVE  MergeVar(notes, options, var, v) \in Table
  BY DEF MergeVar, Table

LEMMA HandlerTableTyped ==
    ASSUME NEW cfg \in ServerConfig, NEW name
    PROVE  HandlerTable(cfg, name) \in Table
  <1>1. CASE name \in cfg.declared
    BY <1>1 DEF HandlerTable, ServerConfig
  <1>2. CASE name \notin cfg.declared
    BY <1>2, EmptyTyped DEF HandlerTable
  <1> QED BY <1>1, <1>2

LEMMA MergeDefaultsTyped ==
    ASSUME NEW cfg \in ServerConfig, NEW options \in Table, NEW notes \in Table
    PROVE  MergeDefaults(cfg, options, notes) \in Table
  <1>1. /\ cfg.default["Module"] \in Value \union {NULL}
        /\ cfg.default["Class"] \in Value \union {NULL}
        /\ cfg.default["Method"] \in Value \union {NULL}
    BY DEF ServerConfig, Route, Part
  <1>2. /\ DefaultKey("Module") \in Key /\ DefaultKey("Class") \in Key
        /\ DefaultKey("Method") \in Key
    BY KeysKnown DEF Part
  <1> DEFINE withModule == MergeVar(notes, options, DefaultKey("Module"),
                                    cfg.default["Module"])
             withClass  == MergeVar(withModule, options, DefaultKey("Class"),
                                    cfg.default["Class"])
  <1>3. withModule \in Table
    BY <1>1, <1>2, MergeVarTyped
  <1>4. withClass \in Table
    <2> HIDE DEF withModule
    <2> QED BY <1>1, <1>2, <1>3, MergeVarTyped
  <1>5. MergeVar(withClass, options, DefaultKey("Method"),
                 cfg.default["Method"]) \in Table
    <2> HIDE DEF withClass
    <2> QED BY <1>1, <1>2, <1>4, MergeVarTyped
  <1> QED BY <1>5 DEF MergeDefaults

LEMMA InitConfigurationTyped ==
    ASSUME NEW cfg \in ServerConfig, NEW options \in Table, NEW notes \in Table
    PROVE  InitConfiguration(cfg, options, notes) \in Table
  <1> DEFINE merged   == MergeOptions(cfg, options, notes)
             defaults == MergeDefaults(cfg, options, merged)
             content  == MergeVar(defaults, options, "RubyHandler", cfg.handler)
             loaded   == Overlay(content,
                                 HandlerTable(cfg, content["RubyHandler"]))
             access   == MergeVar(loaded, options, "RubyAccessHandler",
                                  cfg.handler)
  <1>1. cfg.options \in Table /\ cfg.handler \in Value \union {NULL}
    BY DEF ServerConfig
  <1>2. merged \in Table
    BY <1>1, OverlayTyped DEF MergeOptions
  <1>3. defaults \in Table
    <2> HIDE DEF merged
    <2> QED BY <1>2, MergeDefaultsTyped
  <1>4. content \in Table
    <2> HIDE DEF defaults
    <2> QED BY <1>1, <1>3, KeysKnown, MergeVarTyped
  <1>5. loaded \in Table
    <2> HIDE DEF content
    <2> QED BY <1>4, HandlerTableTyped, OverlayTyped
  <1>6. access \in Table
    <2> HIDE DEF loaded
    <2> QED BY <1>1, <1>5, KeysKnown, MergeVarTyped
  <1>7. Overlay(access, HandlerTable(cfg, access["RubyAccessHandler"])) \in Table
    <2> HIDE DEF access
    <2> QED BY <1>6, HandlerTableTyped, OverlayTyped
  <1> QED BY <1>7 DEF InitConfiguration

LEMMA HandlerTyped ==
    ASSUME NEW route \in Route
    PROVE  Handler(route) \in Resolution
  BY DEF Handler, Resolution

LEMMA RouteOfTyped ==
    ASSUME NEW table \in Table
    PROVE  RouteOf(table) \in Route
  BY KeysKnown DEF RouteOf, Route, Table

LEMMA DefaultRouteTyped ==
    ASSUME NEW cfg \in ServerConfig, NEW notes \in Table
    PROVE  DefaultRoute(cfg, notes) \in Route
  BY KeysKnown DEF DefaultRoute, Route, Table, ServerConfig

LEMMA EmptyIsResolution == Empty \in Resolution
  BY EmptyTyped DEF Empty, Resolution

LEMMA GetHandlerTyped ==
    ASSUME NEW cfg \in ServerConfig, NEW notes \in Table
    PROVE  /\ GetHandler(cfg, notes) \in Resolution
           /\ GetAccessHandler(cfg, notes) \in Resolution
           /\ NotesAfterGetHandler(cfg, notes) \in Table
  <1>1. \A h \in cfg.declared : Handler(RouteOf(cfg.handlers[h])) \in Resolution
    BY RouteOfTyped, HandlerTyped DEF ServerConfig
  <1>2. Handler(DefaultRoute(cfg, notes)) \in Resolution
    BY DefaultRouteTyped, HandlerTyped
  <1>3. GetHandler(cfg, notes) \in Resolution
    BY <1>1, <1>2, EmptyIsResolution DEF GetHandler
  <1>4. GetAccessHandler(cfg, notes) \in Resolution
    BY <1>1, EmptyIsResolution DEF GetAccessHandler
  <1>5. NotesAfterGetHandler(cfg, notes) \in Table
    <2> DEFINE route == DefaultRoute(cfg, notes)
    <2>1. route \in Route
      BY DefaultRouteTyped
    <2>2. \A k \in Key : (\E p \in Part : HandlerKey(p) = k) =>
              route[CHOOSE p \in Part : HandlerKey(p) = k] \in Value \union {NULL}
      BY <2>1 DEF Route
    <2> HIDE DEF route
    <2>3. [k \in Key |->
              IF \E p \in Part : HandlerKey(p) = k
              THEN route[CHOOSE p \in Part : HandlerKey(p) = k]
              ELSE notes[k]] \in Table
      BY <2>2 DEF Table
    <2> QED BY <2>3 DEF NotesAfterGetHandler, route
  <1> QED BY <1>3, <1>4, <1>5

---------------------------------------------------------------------------
(* What the merging functions compute, key by key.                         *)

LEMMA SlotsApart ==
    /\ Slots \intersect (HandlerKeys \union DefaultKeys \union Option) = {}
    /\ HandlerKeys \intersect DefaultKeys = {}
    /\ DefaultKeys \intersect Option = {}
    /\ HandlerKeys \intersect Option = {}
  BY OptionsAreUserKeys DEF Slots, HandlerKeys, DefaultKeys, HandlerKey,
     DefaultKey, Part

LEMMA OverlayAt ==
    ASSUME NEW base, NEW over, NEW k \in Key
    PROVE  Overlay(base, over)[k] = IF over[k] # NULL THEN over[k] ELSE base[k]
  BY DEF Overlay

LEMMA MergeVarAt ==
    ASSUME NEW notes \in Table, NEW options, NEW var \in Key, NEW v,
           NEW k \in Key
    PROVE  MergeVar(notes, options, var, v)[k] =
               IF k # var THEN notes[k]
               ELSE IF options[var] # NULL THEN options[var]
               ELSE IF v # NULL THEN v ELSE notes[var]
  BY DEF MergeVar, Table

(* Without a default in the sections, the server's defaults are merged and *)
(* nothing else changes.                                                   *)
LEMMA MergeDefaultsAt ==
    ASSUME NEW cfg \in ServerConfig, NEW options \in Table, NEW notes \in Table,
           \A p \in Part : options[DefaultKey(p)] = NULL,
           \A p \in Part : notes[DefaultKey(p)] \in {NULL, cfg.default[p]}
    PROVE  /\ \A p \in Part : MergeDefaults(cfg, options, notes)[DefaultKey(p)]
                                  = cfg.default[p]
           /\ \A k \in Key \ DefaultKeys :
                 MergeDefaults(cfg, options, notes)[k] = notes[k]
  <1>1. /\ cfg.default["Module"] \in Value \union {NULL}
        /\ cfg.default["Class"] \in Value \union {NULL}
        /\ cfg.default["Method"] \in Value \union {NULL}
    BY DEF ServerConfig, Route, Part
  <1>2. /\ DefaultKey("Module") \in Key /\ DefaultKey("Class") \in Key
        /\ DefaultKey("Method") \in Key
    BY KeysKnown DEF Part
  <1>3. /\ DefaultKey("Module") # DefaultKey("Class")
        /\ DefaultKey("Module") # DefaultKey("Method")
        /\ DefaultKey("Class") # DefaultKey("Method")
    BY DEF DefaultKey
  <1>4. /\ DefaultKeys = {DefaultKey("Module"), DefaultKey("Class"),
                          DefaultKey("Method")}
        /\ Part = {"Module", "Class", "Method"}
    BY DEF DefaultKeys, Part
  <1> DEFINE withModule == MergeVar(notes, options, DefaultKey("Module"),
                                    cfg.default["Module"])
             withClass  == MergeVar(withModule, options, DefaultKey("Class"),
                                    cfg.default["Class"])
             withMethod == MergeVar(withClass, options, DefaultKey("Method"),
                                    cfg.default["Method"])
  <1>5. withModule \in Table
    BY <1>1, <1>2, MergeVarTyped
  <1>6. \A k \in Key : withModule[k] =
            IF k = DefaultKey("Module") THEN cfg.default["Module"] ELSE notes[k]
    BY <1>2, <1>4, MergeVarAt
  <1> HIDE DEF withModule
  <1>7. withClass \in Table
    BY <1>1, <1>2, <1>5, MergeVarTyped
  <1>8. \A k \in Key : withClass[k] =
            IF k = DefaultKey("Class") THEN cfg.default["Class"]
            ELSE withModule[k]
    BY <1>2, <1>3, <1>4, <1>5, <1>6, MergeVarAt
  <1> HIDE DEF withClass
  <1>9. \A k \in Key : withMethod[k] =
            IF k = DefaultKey("Method") THEN cfg.default["Method"]
            ELSE withClass[k]
    BY <1>2, <1>3, <1>4, <1>6, <1>7, <1>8, MergeVarAt
  <1> HIDE DEF withMethod
  <1>10. withMethod = MergeDefaults(cfg, options, notes)
    BY DEF MergeDefaults, withModule, withClass, withMethod
  <1> QED BY <1>2, <1>3, <1>4, <1>6, <1>8, <1>9, <1>10

(* A configuration as the directives build it: its options are the user's, *)
(* its handlers have tables without slots and defaults.                    *)
Built(cfg) ==
    /\ cfg \in ServerConfig
    /\ \A k \in Key \ Option : cfg.options[k] = NULL
    /\ \A h \in HandlerName, k \in Slots \union DefaultKeys :
          cfg.handlers[h][k] = NULL

LEMMA HandlerTableAt ==
    ASSUME NEW cfg, Built(cfg), NEW name,
           NEW k \in Slots \union DefaultKeys
    PROVE  HandlerTable(cfg, name)[k] = NULL
  <1>1. k \in Key
    BY DEF Key
  <1>2. CASE name \in cfg.declared
    BY <1>2 DEF HandlerTable, Built, ServerConfig
  <1>3. CASE name \notin cfg.declared
    BY <1>1, <1>3 DEF HandlerTable, EmptyTable
  <1> QED BY <1>2, <1>3

(* The notes after the merge of both configurations: both slots, the       *)
(* defaults, the user's variables and the route of a handler.              *)
LEMMA InitConfigurationAt ==
    ASSUME NEW cfg, Built(cfg), NEW options \in Table, NEW notes \in Table,
           \A p \in Part : options[DefaultKey(p)] = NULL,
           \A p \in Part : notes[DefaultKey(p)] \in {NULL, cfg.default[p]}
    PROVE  LET result  == InitConfiguration(cfg, options, notes)
               content == HandlerTable(cfg, result["RubyHandler"])
               access  == HandlerTable(cfg, result["RubyAccessHandler"])
           IN  /\ result \in Table
               /\ \A slot \in Slots :
                     result[slot] = IF SlotOf(cfg, options, slot) # NULL
                                    THEN SlotOf(cfg, options, slot)
                                    ELSE notes[slot]
               /\ \A p \in Part : result[DefaultKey(p)] = cfg.default[p]
               /\ \A k \in Option \union HandlerKeys :
                     result[k] =
                       IF access[k] # NULL THEN access[k]
                       ELSE IF content[k] # NULL THEN content[k]
                       ELSE IF options[k] # NULL THEN options[k]
                       ELSE IF cfg.options[k] # NULL THEN cfg.options[k]
                       ELSE notes[k]
  <1> DEFINE merged   == MergeOptions(cfg, options, notes)
             defaults == MergeDefaults(cfg, options, merged)
             content  == MergeVar(defaults, options, "RubyHandler", cfg.handler)
             loaded   == Overlay(content,
                                 HandlerTable(cfg, content["RubyHandler"]))
             access   == MergeVar(loaded, options, "RubyAccessHandler",
                                  cfg.handler)
             result   == Overlay(access,
                                 HandlerTable(cfg, access["RubyAccessHandler"]))
             slotOf(slot) == IF SlotOf(cfg, options, slot) # NULL
                             THEN SlotOf(cfg, options, slot) ELSE notes[slot]
             rh == slotOf("RubyHandler")
             ah == slotOf("RubyAccessHandler")
  <1>1. /\ cfg \in ServerConfig
        /\ cfg.options \in Table /\ cfg.handler \in Value \union {NULL}
    BY DEF Built, ServerConfig
  <1>2. /\ "RubyHandler" \in Key /\ "RubyAccessHandler" \in Key
        /\ "RubyHandler" \in Slots /\ "RubyAccessHandler" \in Slots
        /\ Slots \subseteq Key /\ DefaultKeys \subseteq Key
        /\ Option \union HandlerKeys \subseteq Key
        /\ Slots = {"RubyHandler", "RubyAccessHandler"}
        /\ \A p \in Part : DefaultKey(p) \in DefaultKeys
    BY KeysKnown DEF Slots, Key, DefaultKeys
  <1>3. /\ Slots \intersect (HandlerKeys \union DefaultKeys \union Option) = {}
        /\ DefaultKeys \intersect (HandlerKeys \union Option) = {}
    BY SlotsApart
  <1>4. merged \in Table
    BY <1>1, OverlayTyped DEF MergeOptions
  <1>5. \A k \in Key : merged[k] =
            IF options[k] # NULL THEN options[k]
            ELSE IF cfg.options[k] # NULL THEN cfg.options[k] ELSE notes[k]
    BY OverlayAt DEF MergeOptions
  <1>6. \A k \in Slots \union DefaultKeys : cfg.options[k] = NULL
    BY <1>2, <1>3 DEF Built
  <1> HIDE DEF merged
  <1>7. \A p \in Part : merged[DefaultKey(p)] \in {NULL, cfg.default[p]}
    BY <1>2, <1>5, <1>6
  <1>8. defaults \in Table
    BY <1>1, <1>4, MergeDefaultsTyped
  <1>9. /\ \A p \in Part : defaults[DefaultKey(p)] = cfg.default[p]
        /\ \A k \in Key \ DefaultKeys : defaults[k] = merged[k]
    BY <1>1, <1>4, <1>7, MergeDefaultsAt
  <1> HIDE DEF defaults
  <1>10. content \in Table
    BY <1>1, <1>2, <1>8, MergeVarTyped
  <1>11. content["RubyHandler"] = rh
    <2>1. defaults["RubyHandler"] = merged["RubyHandler"]
      BY <1>2, <1>3, <1>9
    <2>2. merged["RubyHandler"] = IF options["RubyHandler"] # NULL
                                  THEN options["RubyHandler"]
                                  ELSE notes["RubyHandler"]
      BY <1>2, <1>5, <1>6
    <2>3. content["RubyHandler"] =
              IF options["RubyHandler"] # NULL THEN options["RubyHandler"]
              ELSE IF cfg.handler # NULL THEN cfg.handler
              ELSE defaults["RubyHandler"]
      BY <1>2, <1>8, MergeVarAt
    <2> QED BY <2>1, <2>2, <2>3 DEF SlotOf
  <1>12. \A k \in Key : k # "RubyHandler" => content[k] = defaults[k]
    BY <1>2, <1>8, MergeVarAt
  <1> HIDE DEF content
  <1>13. loaded \in Table
    BY <1>1, <1>10, HandlerTableTyped, OverlayTyped
  <1>14. \A k \in Key : loaded[k] =
            IF HandlerTable(cfg, rh)[k] # NULL THEN HandlerTable(cfg, rh)[k]
            ELSE content[k]
    BY <1>11, OverlayAt
  <1> HIDE DEF loaded
  <1>15. \A k \in Slots \union DefaultKeys : loaded[k] = content[k]
    BY <1>2, <1>14, HandlerTableAt
  <1>16. access \in Table
    BY <1>1, <1>2, <1>13, MergeVarTyped
  <1>17. access["RubyAccessHandler"] = ah
    <2>1. loaded["RubyAccessHandler"] = merged["RubyAccessHandler"]
      BY <1>2, <1>3, <1>9, <1>12, <1>15
    <2>2. merged["RubyAccessHandler"] =
              IF options["RubyAccessHandler"] # NULL
              THEN options["RubyAccessHandler"] ELSE notes["RubyAccessHandler"]
      BY <1>2, <1>5, <1>6
    <2>3. access["RubyAccessHandler"] =
              IF options["RubyAccessHandler"] # NULL
              THEN options["RubyAccessHandler"]
              ELSE IF cfg.handler # NULL THEN cfg.handler
              ELSE loaded["RubyAccessHandler"]
      BY <1>2, <1>13, MergeVarAt
    <2> QED BY <2>1, <2>2, <2>3 DEF SlotOf
  <1>18. \A k \in Key : k # "RubyAccessHandler" => access[k] = loaded[k]
    BY <1>2, <1>13, MergeVarAt
  <1> HIDE DEF access
  <1>19. result \in Table
    BY <1>1, <1>16, HandlerTableTyped, OverlayTyped
  <1>20. \A k \in Key : result[k] =
            IF HandlerTable(cfg, ah)[k] # NULL THEN HandlerTable(cfg, ah)[k]
            ELSE access[k]
    BY <1>17, OverlayAt
  <1>21. \A k \in Slots \union DefaultKeys : result[k] = access[k]
    BY <1>2, <1>20, HandlerTableAt
  <1> HIDE DEF result
  <1>22. \A slot \in Slots : result[slot] = slotOf(slot)
    <2>1. result["RubyAccessHandler"] = ah
      BY <1>2, <1>17, <1>21
    <2>2. result["RubyHandler"] = rh
      BY <1>2, <1>11, <1>15, <1>18, <1>21
    <2> QED BY <1>2, <2>1, <2>2
  <1>23. \A p \in Part : result[DefaultKey(p)] = cfg.default[p]
    <2> SUFFICES ASSUME NEW p \in Part, NEW k, k = DefaultKey(p)
                 PROVE  result[k] = cfg.default[p]
      OBVIOUS
    <2>1. k \in DefaultKeys
      BY <1>2
    <2>2. k \in Key /\ k # "RubyHandler" /\ k # "RubyAccessHandler"
      BY <1>2, <1>3, <2>1
    <2>3. result[k] = access[k]
      BY <1>21, <2>1
    <2>4. access[k] = loaded[k]
      BY <1>18, <2>2
    <2>5. loaded[k] = content[k]
      BY <1>15, <2>1
    <2>6. content[k] = defaults[k]
      BY <1>12, <2>2
    <2>7. defaults[k] = cfg.default[p]
      BY <1>9
    <2> QED BY <2>3, <2>4, <2>5, <2>6, <2>7
  <1>24. ASSUME NEW k \in Option \union HandlerKeys
         PROVE  result[k] =
                  IF HandlerTable(cfg, ah)[k] # NULL
                  THEN HandlerTable(cfg, ah)[k]
                  ELSE IF HandlerTable(cfg, rh)[k] # NULL
                  THEN HandlerTable(cfg, rh)[k]
                  ELSE IF options[k] # NULL THEN options[k]
                  ELSE IF cfg.options[k] # NULL THEN cfg.options[k]
                  ELSE notes[k]
    <2>1. k \in Key /\ k \notin Slots /\ k \notin DefaultKeys
      BY <1>2, <1>3
    <2>2. access[k] = loaded[k] /\ content[k] = merged[k]
      BY <1>2, <1>9, <1>12, <1>18, <2>1
    <2> QED BY <1>5, <1>14, <1>20, <2>1, <2>2
  <1>25. result = InitConfiguration(cfg, options, notes)
    BY DEF InitConfiguration, merged, defaults, content, loaded, access, result
  <1>26. result["RubyHandler"] = rh /\ result["RubyAccessHandler"] = ah
    BY <1>2, <1>22
  <1> QED BY <1>19, <1>22, <1>23, <1>24, <1>25, <1>26

(* Merging again, into notes that were merged before, or into fresh ones.  *)
LEMMA MergedAgainAt ==
    ASSUME NEW cfg, Built(cfg), NEW options \in Table, NEW notes \in Table,
           \A p \in Part : options[DefaultKey(p)] = NULL,
           \A p \in Part : notes[DefaultKey(p)] \in {NULL, cfg.default[p]},
           \A slot \in Slots :
               notes[slot] \in {NULL, SlotOf(cfg, options, slot)}
    PROVE  LET result  == InitConfiguration(cfg, options, notes)
               content == HandlerTable(cfg, SlotOf(cfg, options, "RubyHandler"))
               access  == HandlerTable(cfg,
                              SlotOf(cfg, options, "RubyAccessHandler"))
           IN  /\ result \in Table
               /\ \A slot \in Slots : result[slot] = SlotOf(cfg, options, slot)
               /\ \A p \in Part : result[DefaultKey(p)] = cfg.default[p]
               /\ \A k \in Option \union HandlerKeys :
                     result[k] =
                       IF access[k] # NULL THEN access[k]
                       ELSE IF content[k] # NULL THEN content[k]
                       ELSE IF options[k] # NULL THEN options[k]
                       ELSE IF cfg.options[k] # NULL THEN cfg.options[k]
                       ELSE notes[k]
  <1> DEFINE result == InitConfiguration(cfg, options, notes)
  <1>1. "RubyHandler" \in Slots /\ "RubyAccessHandler" \in Slots
    BY DEF Slots
  <1>2. \A slot \in Slots : result[slot] = SlotOf(cfg, options, slot)
    BY InitConfigurationAt
  <1>3. /\ result["RubyHandler"] = SlotOf(cfg, options, "RubyHandler")
        /\ result["RubyAccessHandler"] = SlotOf(cfg, options, "RubyAccessHandler")
    BY <1>1, <1>2
  <1> QED BY <1>2, <1>3, InitConfigurationAt

LEMMA HandlerIsNotEmpty ==
    ASSUME NEW route
    PROVE  /\ Handler(route) # Empty /\ Handler(route).route = route
           /\ Handler(route).kind = "load" <=>
                 \A p \in Part : route[p] # NULL
  BY DEF Handler, Empty

(* What looking the handlers up depends on, and what it leaves alone.      *)
LEMMA GetHandlerAt ==
    ASSUME NEW cfg, NEW notes \in Table
    PROVE  LET after == NotesAfterGetHandler(cfg, notes)
           IN  /\ \A k \in Key \ HandlerKeys : after[k] = notes[k]
               /\ GetHandler(cfg, after) = GetHandler(cfg, notes)
               /\ GetAccessHandler(cfg, after) = GetAccessHandler(cfg, notes)
               /\ notes["RubyHandler"] # NULL => after = notes
               /\ /\ notes["RubyHandler"] = NULL
                  /\ GetHandler(cfg, notes).kind = "load"
                  => RouteOf(after) = GetHandler(cfg, notes).route
  <1> DEFINE after == NotesAfterGetHandler(cfg, notes)
             route == DefaultRoute(cfg, notes)
  <1>1. \A k \in Key \ HandlerKeys : after[k] = notes[k]
    BY DEF NotesAfterGetHandler, HandlerKeys
  <1>2. /\ "RubyHandler" \in Key \ HandlerKeys
        /\ "RubyAccessHandler" \in Key \ HandlerKeys
        /\ \A p \in Part : DefaultKey(p) \in Key \ HandlerKeys
    BY KeysKnown, SlotsApart DEF Slots, DefaultKeys
  <1>3. /\ notes["RubyHandler"] # NULL => after = notes
        /\ notes["RubyHandler"] = NULL /\ Handler(route).kind = "load" =>
              after = [k \in Key |->
                          IF \E p \in Part : HandlerKey(p) = k
                          THEN route[CHOOSE p \in Part : HandlerKey(p) = k]
                          ELSE notes[k]]
    BY DEF NotesAfterGetHandler
  <1> HIDE DEF after
  <1>4. DefaultRoute(cfg, after) = route
    BY <1>1, <1>2 DEF DefaultRoute
  <1>5. GetHandler(cfg, after) = GetHandler(cfg, notes)
    BY <1>1, <1>2, <1>4 DEF GetHandler
  <1>6. GetAccessHandler(cfg, after) = GetAccessHandler(cfg, notes)
    BY <1>1, <1>2 DEF GetAccessHandler
  <1>7. ASSUME notes["RubyHandler"] = NULL,
               GetHandler(cfg, notes).kind = "load"
        PROVE  RouteOf(after) = GetHandler(cfg, notes).route
    <2>1. GetHandler(cfg, notes) = Handler(route)
      BY <1>7 DEF GetHandler
    <2>2. \A p \in Part : HandlerKey(p) \in Key
      BY KeysKnown
    <2>3. \A p, q \in Part : HandlerKey(p) = HandlerKey(q) => p = q
      BY DEF HandlerKey, Part
    <2>4. route = [p \in Part |-> route[p]]
      BY DEF DefaultRoute
    <2> HIDE DEF route
    <2>5. \A p \in Part : (CHOOSE q \in Part : HandlerKey(q) = HandlerKey(p)) = p
      BY <2>3
    <2>6. \A p \in Part : after[HandlerKey(p)] = route[p]
      BY <1>3, <1>7, <2>1, <2>2, <2>5
    <2>7. RouteOf(after) = route
      BY <2>4, <2>6 DEF RouteOf
    <2> QED BY <2>1, <2>7, HandlerIsNotEmpty
  <1> QED BY <1>1, <1>3, <1>5, <1>6, <1>7 DEF after

---------------------------------------------------------------------------
(* The type invariant.                                                     *)

LEMMA ServerConfigTyped == NewServerConfig \in ServerConfig
  BY EmptyTyped DEF NewServerConfig, ServerConfig

LEMMA NoRequestTyped == NoRequest \in Request
  BY EmptyTyped, EmptyIsResolution, GlobalIsServer DEF NoRequest, Request

LEMMA ConfigOfTyped ==
    ASSUME TypeOK, NEW s \in Server
    PROVE  ConfigServer(s) \in Server /\ ConfigOf(s) \in ServerConfig
  BY GlobalIsServer DEF TypeOK, ConfigOf, ConfigServer

(* Setting one entry of one table.                                         *)
LEMMA EntryTyped ==
    ASSUME NEW S, NEW f \in [S -> Table], NEW c \in S,
           NEW k \in Key, NEW v \in Value \union {NULL}
    PROVE  [f EXCEPT ![c][k] = v] \in [S -> Table]
  BY DEF Table

LEMMA ServerEntryTyped ==
    ASSUME NEW cfg \in ServerConfig, NEW v \in Value \union {NULL}
    PROVE  /\ \A p \in Part : [cfg EXCEPT !.default[p] = v] \in ServerConfig
           /\ \A k \in Key : [cfg EXCEPT !.options[k] = v] \in ServerConfig
           /\ [cfg EXCEPT !.handler = v] \in ServerConfig
           /\ \A h \in HandlerName, k \in Key :
                 [cfg EXCEPT !.handlers[h][k] = v] \in ServerConfig
           /\ \A h \in HandlerName :
                 [cfg EXCEPT !.declared = @ \union {h},
                             !.handlers[h] = EmptyTable] \in ServerConfig
  <1>1. ASSUME NEW p \in Part
        PROVE  [cfg EXCEPT !.default[p] = v] \in ServerConfig
    BY DEF ServerConfig, Route
  <1>2. ASSUME NEW k \in Key
        PROVE  [cfg EXCEPT !.options[k] = v] \in ServerConfig
    BY DEF ServerConfig, Table
  <1>3. [cfg EXCEPT !.handler = v] \in ServerConfig
    BY DEF ServerConfig
  <1>4. ASSUME NEW h \in HandlerName, NEW k \in Key
        PROVE  [cfg EXCEPT !.handlers[h][k] = v] \in ServerConfig
    BY DEF ServerConfig, Table
  <1>5. ASSUME NEW h \in HandlerName
        PROVE  [cfg EXCEPT !.declared = @ \union {h},
                           !.handlers[h] = EmptyTable] \in ServerConfig
    BY EmptyTyped DEF ServerConfig
  <1> QED BY <1>1, <1>2, <1>3, <1>4, <1>5

(* A directive line gives a server, or none, a new configuration.          *)
LEMMA ServerTyped ==
    ASSUME TypeOK, NEW s \in Server, NEW cfg \in ServerConfig,
           server' = server \/ server' = [server EXCEPT ![s] = cfg]
    PROVE  server' \in [Server -> ServerConfig]
  BY DEF TypeOK

(* Every directive line and every step of a request keeps the types.       *)
THEOREM TypeStep == TypeOK /\ [Next]_vars => TypeOK'
  <1> SUFFICES ASSUME TypeOK, [Next]_vars PROVE TypeOK'
    OBVIOUS
  <1> USE DEF TypeOK
  <1>1. ASSUME NEW ctx \in Context, ReadLine(ctx)
        PROVE  /\ lines' \in 0..MaxLines /\ created' \in SUBSET Server
               /\ req' \in Request
    BY <1>1, MaxLinesIsNat, SectionsHaveHosts DEF ReadLine, Context
  <1>2. ASSUME NEW ctx \in Context, NEW p \in Part, NEW v \in Text,
               SetDefaultHandler(ctx, p, v)
        PROVE  TypeOK'
    <2>1. HandlerKey(p) \in Key /\ DefaultKey(p) \in Key /\ v \in Value
      BY KeysKnown DEF Value
    <2>2. server' \in [Server -> ServerConfig]
      <3>1. CASE ctx \in Server
        <4>1. server[ctx] \in ServerConfig
          BY <3>1
        <4>2. [server[ctx] EXCEPT !.default[p] = v] \in ServerConfig
          BY <4>1, <2>1, ServerEntryTyped
        <4>3. server' = server \/ server' = [server EXCEPT ![ctx] = [server[ctx] EXCEPT !.default[p] = v]]
          BY <1>2 DEF SetDefaultHandler
        <4> QED BY <3>1, <4>2, <4>3, ServerTyped
      <3>2. CASE ctx \notin Server
        BY <1>2, <3>2 DEF SetDefaultHandler
      <3> QED BY <3>1, <3>2
    <2>3. dir' \in [Section -> Table] /\ file' \in [Context -> Table]
      <3>1. [file EXCEPT ![ctx][DefaultKey(p)] = v] \in [Context -> Table]
        BY <2>1, EntryTyped
      <3>2. ctx \in Section =>
                [dir EXCEPT ![ctx][HandlerKey(p)] = v] \in [Section -> Table]
        BY <2>1, EntryTyped
      <3> QED BY <1>2, <3>1, <3>2 DEF SetDefaultHandler
    <2> QED BY <1>1, <1>2, <2>2, <2>3 DEF SetDefaultHandler
  <1>3. ASSUME NEW ctx \in Context, NEW k \in Option, NEW v \in Text,
               SetConfigVar(ctx, k, v)
        PROVE  TypeOK'
    <2>1. k \in Key /\ v \in Value
      BY KeysKnown DEF Value
    <2>2. server' \in [Server -> ServerConfig]
      <3>1. CASE ctx \in Server
        <4>1. server[ctx] \in ServerConfig
          BY <3>1
        <4>2. [server[ctx] EXCEPT !.options[k] = v] \in ServerConfig
          BY <4>1, <2>1, ServerEntryTyped
        <4>3. server' = server \/ server' = [server EXCEPT ![ctx] = [server[ctx] EXCEPT !.options[k] = v]]
          BY <1>3 DEF SetConfigVar
        <4> QED BY <3>1, <4>2, <4>3, ServerTyped
      <3>2. CASE ctx \notin Server
        BY <1>3, <3>2 DEF SetConfigVar
      <3> QED BY <3>1, <3>2
    <2>3. dir' \in [Section -> Table] /\ file' \in [Context -> Table]
      <3>1. [file EXCEPT ![ctx][k] = v] \in [Context -> Table]
        BY <2>1, EntryTyped
      <3>2. ctx \in Section =>
                [dir EXCEPT ![ctx][k] = v] \in [Section -> Table]
        BY <2>1, EntryTyped
      <3> QED BY <1>3, <3>1, <3>2 DEF SetConfigVar
    <2> QED BY <1>1, <1>3, <2>2, <2>3 DEF SetConfigVar
  <1>4. ASSUME NEW ctx \in Context, NEW h \in HandlerName,
               SetHandler(ctx, h) \/ SetAccessHandler(ctx, h)
        PROVE  TypeOK'
    <2>1. "RubyHandler" \in Key /\ "RubyAccessHandler" \in Key /\ h \in Value
      BY KeysKnown DEF Value
    <2>2. server' \in [Server -> ServerConfig]
      <3>1. CASE ctx \in Server
        <4>1. server[ctx] \in ServerConfig
          BY <3>1
        <4>2. [server[ctx] EXCEPT !.handler = h] \in ServerConfig
          BY <4>1, <2>1, ServerEntryTyped
        <4>3. server' = server \/ server' = [server EXCEPT ![ctx] = [server[ctx] EXCEPT !.handler = h]]
          BY <1>4 DEF SetHandler, SetAccessHandler
        <4> QED BY <3>1, <4>2, <4>3, ServerTyped
      <3>2. CASE ctx \notin Server
        BY <1>4, <3>2 DEF SetHandler, SetAccessHandler
      <3> QED BY <3>1, <3>2
    <2>3. dir' \in [Section -> Table] /\ file' \in [Context -> Table]
      BY <1>4, <2>1, EntryTyped DEF SetHandler, SetAccessHandler
    <2> QED BY <1>1, <1>4, <2>2, <2>3 DEF SetHandler, SetAccessHandler
  <1>5. ASSUME NEW ctx \in Context, NEW h \in HandlerName, Declare(ctx, h)
        PROVE  TypeOK'
    <2>1. server' \in [Server -> ServerConfig]
      <3>1. CASE ctx \in Server
        <4>1. server[ctx] \in ServerConfig
          BY <3>1
        <4>2. [server[ctx] EXCEPT !.declared = @ \union {h}, !.handlers[h] = EmptyTable] \in ServerConfig
          BY <4>1, ServerEntryTyped
        <4>3. server' = server \/ server' = [server EXCEPT ![ctx] = [server[ctx] EXCEPT !.declared = @ \union {h}, !.handlers[h] = EmptyTable]]
          BY <1>5 DEF Declare
        <4> QED BY <3>1, <4>2, <4>3, ServerTyped
      <3>2. CASE ctx \notin Server
        BY <1>5, <3>2 DEF Declare
      <3> QED BY <3>1, <3>2
    <2> QED BY <1>1, <1>5, <2>1 DEF Declare
  <1>6. ASSUME NEW ctx \in Context, NEW h \in HandlerName,
               NEW k \in HandlerKeys \union Option, NEW v \in Text,
               SetHandlerParam(ctx, h, k, v)
        PROVE  TypeOK'
    <2>1. k \in Key /\ v \in Value
      BY KeysKnown DEF Value
    <2>2. server' \in [Server -> ServerConfig]
      <3>1. CASE ctx \in Server
        <4>1. server[ctx] \in ServerConfig
          BY <3>1
        <4>2. [server[ctx] EXCEPT !.handlers[h][k] = v] \in ServerConfig
          BY <4>1, <2>1, ServerEntryTyped
        <4>3. server' = server \/ server' = [server EXCEPT ![ctx] = [server[ctx] EXCEPT !.handlers[h][k] = v]]
          BY <1>6 DEF SetHandlerParam
        <4> QED BY <3>1, <4>2, <4>3, ServerTyped
      <3>2. CASE ctx \notin Server
        BY <1>6, <3>2 DEF SetHandlerParam
      <3> QED BY <3>1, <3>2
    <2> QED BY <1>1, <1>6, <2>2 DEF SetHandlerParam
  <1>7. CASE FinishConfig
    BY <1>7 DEF FinishConfig
  <1>8. ASSUME NEW s \in Server, BeginRequest(s)
        PROVE  TypeOK'
    <2>1. file[ConfigServer(s)] \in Table
      BY ConfigOfTyped DEF Context
    <2>2. req' \in Request
      BY <1>8, <2>1, NoRequestTyped DEF BeginRequest, Request
    <2> QED BY <1>8, <2>2 DEF BeginRequest, configChanges
  <1>9. ASSUME NEW d \in Section, MergeSection(d)
        PROVE  TypeOK'
    <2>1. /\ MergeDirConf(req.merged, dir[d]) \in Table
          /\ Overlay(req.asked, file[d]) \in Table
      BY OverlayTyped DEF MergeDirConf, Request, Context
    <2>2. req' \in Request
      BY <1>9, <2>1 DEF MergeSection, Request
    <2> QED BY <1>9, <2>2 DEF MergeSection, configChanges
  <1>10. CASE ConfigureAccess
    <2> DEFINE cfg == ConfigOf(req.srv)
               notes == InitConfiguration(cfg, req.merged, req.notes)
    <2>1. cfg \in ServerConfig
      BY ConfigOfTyped DEF Request
    <2>2. notes \in Table
      <3> HIDE DEF cfg
      <3> QED BY <2>1, InitConfigurationTyped DEF Request
    <2>3. GetAccessHandler(cfg, notes) \in Resolution
      <3> HIDE DEF cfg, notes
      <3> QED BY <2>1, <2>2, GetHandlerTyped
    <2>4. req' = [req EXCEPT !.stage = "access", !.notes = notes,
                             !.access = GetAccessHandler(cfg, notes)]
      BY <1>10 DEF ConfigureAccess
    <2>5. req' \in Request
      <3> HIDE DEF cfg, notes
      <3> QED BY <2>2, <2>3, <2>4 DEF Request
    <2> QED BY <1>10, <2>5 DEF ConfigureAccess, configChanges
  <1>11. CASE ConfigureContent
    <2> DEFINE cfg == ConfigOf(req.srv)
               notes == InitConfiguration(cfg, req.merged, req.notes)
    <2>1. cfg \in ServerConfig
      BY ConfigOfTyped DEF Request
    <2>2. notes \in Table
      <3> HIDE DEF cfg
      <3> QED BY <2>1, InitConfigurationTyped DEF Request
    <2>3. /\ GetHandler(cfg, notes) \in Resolution
          /\ NotesAfterGetHandler(cfg, notes) \in Table
      <3> HIDE DEF cfg, notes
      <3> QED BY <2>1, <2>2, GetHandlerTyped
    <2>4. req' = [req EXCEPT !.stage = "content",
                             !.notes = NotesAfterGetHandler(cfg, notes),
                             !.content = GetHandler(cfg, notes)]
      BY <1>11 DEF ConfigureContent
    <2>5. req' \in Request
      <3> HIDE DEF cfg, notes
      <3> QED BY <2>3, <2>4 DEF Request
    <2> QED BY <1>11, <2>5 DEF ConfigureContent, configChanges
  <1>12. CASE EndRequest
    BY <1>12, NoRequestTyped DEF EndRequest, configChanges
  <1>13. CASE UNCHANGED vars
    BY <1>13 DEF vars
  <1> QED BY <1>2, <1>3, <1>4, <1>5, <1>6, <1>7, <1>8, <1>9, <1>10, <1>11,
             <1>12, <1>13 DEF Next, Configure, ServeRequest

LEMMA TypeInit == Init => TypeOK
  <1> SUFFICES ASSUME Init PROVE TypeOK
    OBVIOUS
  <1> QED BY EmptyTyped, ServerConfigTyped, NoRequestTyped, MaxLinesIsNat,
             GlobalIsServer DEF Init, TypeOK

(* Whatever the configuration file and the requests, every table, slot and *)
(* resolution holds a value of its kind.                                   *)
THEOREM Typed == Spec => []TypeOK
  BY TypeInit, TypeStep, PTL DEF Spec

---------------------------------------------------------------------------
(* Reading the file keeps the tables as the file says.                     *)

(* While the file is read no request is there to be configured.            *)
LEMMA NoRequestWhileReading ==
    ASSUME RoutingInv, phase = "config", req' = req
    PROVE  MergedAsAsked' /\ NotesAsMerged'
  <1>1. req.stage = "none"
    BY DEF RoutingInv, MergedAsAsked
  <1> QED BY <1>1 DEF MergedAsAsked, NotesAsMerged

LEMMA StoreDefault ==
    ASSUME TypeOK, StoredAsRead, NEW ctx \in Context, NEW p \in Part,
           NEW v \in Text, SetDefaultHandler(ctx, p, v)
    PROVE  StoredAsRead'
  <1>1. /\ server \in [Server -> ServerConfig] /\ dir \in [Section -> Table]
        /\ file \in [Context -> Table]
    BY DEF TypeOK
  <1>2. /\ HandlerKey(p) \in Key \ (Slots \union Option \union DefaultKeys)
        /\ DefaultKey(p) \in Key \ (Slots \union Option)
        /\ \A q \in Part : DefaultKey(q) \in DefaultKeys
        /\ "RubyHandler" \in Slots /\ "RubyAccessHandler" \in Slots
    BY KeysKnown, SlotsApart DEF HandlerKeys, DefaultKeys, Slots
  <1>3. \A q \in Part : DefaultKey(q) = DefaultKey(p) => q = p
    BY DEF DefaultKey, Part
  <1>4. file' = [file EXCEPT ![ctx][DefaultKey(p)] = v]
    BY DEF SetDefaultHandler
  <1>5. /\ \A c \in Context, k \in Slots \union Option : file'[c][k] = file[c][k]
        /\ \A c \in Context, q \in Part : file'[c][DefaultKey(q)] =
              IF c = ctx /\ q = p THEN v ELSE file[c][DefaultKey(q)]
    BY <1>1, <1>2, <1>3, <1>4, KeysKnown DEF Table, Key
  <1>6. ASSUME NEW s \in Server
        PROVE  /\ \A q \in Part : server'[s].default[q] =
                     IF s = ctx /\ q = p THEN v ELSE server[s].default[q]
               /\ server'[s].options = server[s].options
               /\ server'[s].handlers = server[s].handlers
               /\ server'[s].handler = server[s].handler
    BY <1>1, ContextsDisjoint DEF SetDefaultHandler, ServerConfig, Route
  <1>7. ASSUME NEW d \in Section
        PROVE  \A k \in Key \ {HandlerKey(p)} : dir'[d][k] = dir[d][k]
    BY <1>1, ContextsDisjoint DEF SetDefaultHandler, Table
  <1>8. Server \subseteq Context /\ Section \subseteq Context
        /\ Slots \union Option \subseteq Key
    BY KeysKnown DEF Context, Slots
  <1>9. \A q \in Part : DefaultKey(q) \in Key \ {HandlerKey(p)}
    BY <1>2, KeysKnown
  <1> QED BY <1>2, <1>5, <1>6, <1>7, <1>8, <1>9 DEF StoredAsRead

LEMMA StoreOption ==
    ASSUME TypeOK, StoredAsRead, NEW ctx \in Context, NEW o \in Option,
           NEW v \in Text, SetConfigVar(ctx, o, v)
    PROVE  StoredAsRead'
  <1>1. /\ server \in [Server -> ServerConfig] /\ dir \in [Section -> Table]
        /\ file \in [Context -> Table]
    BY DEF TypeOK
  <1>2. /\ o \in Key \ (Slots \union DefaultKeys)
        /\ \A q \in Part : DefaultKey(q) \in Key \ {o}
        /\ "RubyHandler" \in Slots /\ "RubyAccessHandler" \in Slots
        /\ Slots \union Option \subseteq Key
    BY KeysKnown, SlotsApart DEF Slots, DefaultKeys
  <1>3. Server \subseteq Context /\ Section \subseteq Context
    BY DEF Context
  <1>4. file' = [file EXCEPT ![ctx][o] = v]
    BY DEF SetConfigVar
  <1>5. \A c \in Context, k \in Key : file'[c][k] =
            IF c = ctx /\ k = o THEN v ELSE file[c][k]
    BY <1>1, <1>4 DEF Table
  <1>6. ASSUME NEW s \in Server
        PROVE  /\ \A k \in Key : server'[s].options[k] =
                     IF s = ctx /\ k = o THEN v ELSE server[s].options[k]
               /\ server'[s].default = server[s].default
               /\ server'[s].handlers = server[s].handlers
               /\ server'[s].handler = server[s].handler
    <2>1. server'[s] = IF s = ctx THEN [server[s] EXCEPT !.options[o] = v]
                       ELSE server[s]
      BY <1>1, ContextsDisjoint DEF SetConfigVar
    <2>2. server[s] \in ServerConfig /\ server[s].options \in Table
      BY <1>1 DEF ServerConfig
    <2>3. \A k \in Key : [server[s].options EXCEPT ![o] = v][k] =
              IF k = o THEN v ELSE server[s].options[k]
      BY <2>2 DEF Table
    <2> QED BY <2>1, <2>2, <2>3 DEF ServerConfig
  <1>7. ASSUME NEW d \in Section
        PROVE  \A k \in Key : dir'[d][k] =
                   IF d = ctx /\ k = o THEN v ELSE dir[d][k]
    BY <1>1, ContextsDisjoint DEF SetConfigVar, Table
  <1> QED BY <1>2, <1>3, <1>5, <1>6, <1>7 DEF StoredAsRead

LEMMA StoreSlot ==
    ASSUME TypeOK, StoredAsRead, NEW ctx \in Context, NEW h \in HandlerName,
           SetHandler(ctx, h) \/ SetAccessHandler(ctx, h)
    PROVE  StoredAsRead'
  <1>1. /\ server \in [Server -> ServerConfig] /\ dir \in [Section -> Table]
        /\ file \in [Context -> Table]
    BY DEF TypeOK
  <1>2. PICK slot \in Slots :
            /\ file' = [file EXCEPT ![ctx][slot] = h]
            /\ \/ /\ ctx \in Server
                  /\ server' = [server EXCEPT ![ctx].handler = h]
                  /\ dir' = dir
               \/ /\ ctx \in Section
                  /\ dir' = [dir EXCEPT ![ctx][slot] = h]
                  /\ server' = server
    BY DEF SetHandler, SetAccessHandler, Slots
  <1>3. /\ slot \in Key \ (Option \union DefaultKeys)
        /\ \A q \in Part : DefaultKey(q) \in Key \ {slot}
        /\ Slots = {"RubyHandler", "RubyAccessHandler"}
        /\ Slots \union Option \subseteq Key
    BY <1>2, KeysKnown, SlotsApart DEF Slots, DefaultKeys
  <1>4. Server \subseteq Context /\ Section \subseteq Context
    BY DEF Context
  <1>5. \A c \in Context, k \in Key : file'[c][k] =
            IF c = ctx /\ k = slot THEN h ELSE file[c][k]
    BY <1>1, <1>2 DEF Table
  <1>6. ASSUME NEW s \in Server
        PROVE  /\ server'[s].handler = IF s = ctx THEN h ELSE server[s].handler
               /\ server'[s].default = server[s].default
               /\ server'[s].handlers = server[s].handlers
               /\ server'[s].options = server[s].options
    BY <1>1, <1>2, ContextsDisjoint DEF ServerConfig
  <1>7. ASSUME NEW d \in Section
        PROVE  \A k \in Key : dir'[d][k] =
                   IF d = ctx /\ k = slot THEN h ELSE dir[d][k]
    BY <1>1, <1>2, ContextsDisjoint DEF Table
  <1>8. h # NULL
    BY NullIsNoValue DEF Value
  <1>9. ASSUME NEW s \in Server
        PROVE  /\ file'[s]["RubyAccessHandler"] = NULL
                     => server'[s].handler = file'[s]["RubyHandler"]
               /\ file'[s]["RubyHandler"] = NULL
                     => server'[s].handler = file'[s]["RubyAccessHandler"]
    BY <1>3, <1>4, <1>5, <1>6, <1>8 DEF StoredAsRead
  <1>10. ASSUME NEW s \in Server
         PROVE  /\ \A p \in Part : server'[s].default[p] = file'[s][DefaultKey(p)]
                /\ \A k \in Option : server'[s].options[k] = file'[s][k]
                /\ \A k \in Key \ Option : server'[s].options[k] = NULL
                /\ \A g \in HandlerName, k \in Slots \union DefaultKeys :
                      server'[s].handlers[g][k] = NULL
    <2>1. /\ \A p \in Part : file'[s][DefaultKey(p)] = file[s][DefaultKey(p)]
          /\ \A k \in Option : file'[s][k] = file[s][k]
      BY <1>3, <1>4, <1>5
    <2>2. /\ server'[s].default = server[s].default
          /\ server'[s].handlers = server[s].handlers
          /\ server'[s].options = server[s].options
      BY <1>6
    <2> QED BY <2>1, <2>2 DEF StoredAsRead
  <1>11. ASSUME NEW d \in Section
         PROVE  /\ \A k \in Slots \union Option : dir'[d][k] = file'[d][k]
                /\ \A p \in Part : dir'[d][DefaultKey(p)] = NULL
    <2>1. \A p \in Part : dir'[d][DefaultKey(p)] = dir[d][DefaultKey(p)]
      BY <1>3, <1>7
    <2>2. \A p \in Part : dir[d][DefaultKey(p)] = NULL
      BY DEF StoredAsRead
    <2>3. \A k \in Slots \union Option :
              /\ file'[d][k] = IF d = ctx /\ k = slot THEN h ELSE file[d][k]
              /\ dir'[d][k] = IF d = ctx /\ k = slot THEN h ELSE dir[d][k]
      BY <1>3, <1>4, <1>5, <1>7
    <2>4. \A k \in Slots \union Option : dir[d][k] = file[d][k]
      BY DEF StoredAsRead
    <2> QED BY <2>1, <2>2, <2>3, <2>4
  <1> QED BY <1>9, <1>10, <1>11 DEF StoredAsRead

LEMMA StoreHandler ==
    ASSUME TypeOK, StoredAsRead, NEW ctx \in Context, NEW h \in HandlerName,
           \/ Declare(ctx, h)
           \/ \E k \in HandlerKeys \union Option, v \in Text :
                 SetHandlerParam(ctx, h, k, v)
    PROVE  StoredAsRead'
  <1>1. server \in [Server -> ServerConfig]
    BY DEF TypeOK
  <1>2. dir' = dir /\ file' = file
    BY DEF Declare, SetHandlerParam
  <1>3. Slots \union DefaultKeys \subseteq Key
    BY DEF Key
  <1>4. ASSUME NEW s \in Server
        PROVE  /\ server'[s].handler = server[s].handler
               /\ server'[s].default = server[s].default
               /\ server'[s].options = server[s].options
               /\ \A g \in HandlerName, k \in Slots \union DefaultKeys :
                     server'[s].handlers[g][k] \in {NULL, server[s].handlers[g][k]}
    <2>1. server[s] \in ServerConfig
      BY <1>1
    <2>2. CASE Declare(ctx, h)
      <3>1. server'[s] \in {server[s],
                            [server[s] EXCEPT !.declared = @ \union {h},
                                              !.handlers[h] = EmptyTable]}
        BY <1>1, <2>2 DEF Declare
      <3>2. CASE server'[s] = server[s]
        BY <3>2
      <3>3. CASE server'[s] = [server[s] EXCEPT !.declared = @ \union {h},
                                                !.handlers[h] = EmptyTable]
        <4>1. /\ server'[s].handler = server[s].handler
              /\ server'[s].default = server[s].default
              /\ server'[s].options = server[s].options
              /\ server'[s].handlers =
                    [server[s].handlers EXCEPT ![h] = EmptyTable]
          BY <2>1, <3>3 DEF ServerConfig
        <4>2. \A k \in Slots \union DefaultKeys : EmptyTable[k] = NULL
          BY <1>3 DEF EmptyTable
        <4>3. \A g \in HandlerName :
                  server'[s].handlers[g] \in {EmptyTable, server[s].handlers[g]}
          BY <2>1, <4>1 DEF ServerConfig
        <4> QED BY <4>1, <4>2, <4>3
      <3> QED BY <3>1, <3>2, <3>3
    <2>3. CASE \E k \in HandlerKeys \union Option, v \in Text :
                  SetHandlerParam(ctx, h, k, v)
      <3>1. PICK k \in HandlerKeys \union Option, v \in Text :
                SetHandlerParam(ctx, h, k, v)
        BY <2>3
      <3>2. server'[s] \in {server[s], [server[s] EXCEPT !.handlers[h][k] = v]}
        BY <1>1, <3>1 DEF SetHandlerParam
      <3>3. \A g \in HandlerName, key \in Slots \union DefaultKeys :
                [server[s] EXCEPT !.handlers[h][k] = v].handlers[g][key]
                    = server[s].handlers[g][key]
        BY <1>3, <2>1, SlotsApart DEF ServerConfig, Table
      <3>4. CASE server'[s] = server[s]
        BY <3>4
      <3>5. CASE server'[s] = [server[s] EXCEPT !.handlers[h][k] = v]
        <4>1. /\ server'[s].handler = server[s].handler
              /\ server'[s].default = server[s].default
              /\ server'[s].options = server[s].options
          BY <2>1, <3>5 DEF ServerConfig
        <4> QED BY <3>3, <3>5, <4>1
      <3> QED BY <3>2, <3>4, <3>5
    <2> QED BY <2>2, <2>3
  <1> QED BY <1>2, <1>4 DEF StoredAsRead

---------------------------------------------------------------------------
(* Configuring a request.                                                  *)

LEMMA ConfigOfBuilt ==
    ASSUME TypeOK, StoredAsRead, NEW s \in Server
    PROVE  Built(ConfigOf(s))
  BY ConfigOfTyped DEF Built, StoredAsRead, ConfigOf

LEMMA BeginsAsAsked ==
    ASSUME TypeOK, NEW s \in Server, BeginRequest(s)
    PROVE  MergedAsAsked' /\ NotesAsMerged'
  <1>1. /\ req'.stage = "walk" /\ req'.srv = s /\ req'.walked = {}
        /\ req'.merged = EmptyTable /\ req'.notes = EmptyTable
        /\ req'.asked = file[ConfigServer(s)]
    BY DEF BeginRequest, NoRequest
  <1>2. phase' = "serving" /\ file' = file /\ created' = created
    BY DEF BeginRequest, configChanges
  <1>3. \A k : ~ InSection(k)'
    BY <1>1 DEF InSection
  <1>4. ServerFile' = req'.asked
    BY <1>1, <1>2 DEF ServerFile, ConfigServer
  <1>5. \A k \in Key : req'.merged[k] = NULL
    BY <1>1 DEF EmptyTable
  <1>6. /\ \A k \in Slots \union Option : k \in Key
        /\ \A p \in Part : DefaultKey(p) \in Key
    BY KeysKnown DEF Slots
  <1>7. MergedAsAsked'
    BY <1>2, <1>3, <1>4, <1>5, <1>6 DEF MergedAsAsked
  <1>8. NotesAsMerged'
    BY <1>1 DEF NotesAsMerged
  <1> QED BY <1>7, <1>8

LEMMA SectionAsAsked ==
    ASSUME TypeOK, RoutingInv, NEW d \in Section, MergeSection(d)
    PROVE  MergedAsAsked' /\ NotesAsMerged'
  <1>1. /\ req.stage = "walk" /\ req \in Request
        /\ file \in [Context -> Table] /\ dir \in [Section -> Table]
    BY DEF TypeOK, MergeSection
  <1>2. /\ req'.stage = "walk" /\ req'.srv = req.srv
        /\ req'.walked = req.walked \union {d} /\ req'.notes = req.notes
        /\ req'.merged = Overlay(req.merged, dir[d])
        /\ req'.asked = Overlay(req.asked, file[d])
    BY <1>1 DEF MergeSection, MergeDirConf, Request
  <1>3. phase' = phase /\ file' = file /\ created' = created
    BY DEF MergeSection, configChanges
  <1>4. ServerFile' = ServerFile
    BY <1>2, <1>3 DEF ServerFile, ConfigServer
  <1>5. \A k : InSection(k)' <=> InSection(k) \/ file[d][k] # NULL
    BY <1>2, <1>3 DEF InSection
  <1>6. \A k \in Key :
            /\ req'.merged[k] =
                  IF dir[d][k] # NULL THEN dir[d][k] ELSE req.merged[k]
            /\ req'.asked[k] =
                  IF file[d][k] # NULL THEN file[d][k] ELSE req.asked[k]
    BY <1>2, OverlayAt
  <1>7. /\ \A k \in Slots \union Option : k \in Key /\ dir[d][k] = file[d][k]
        /\ \A p \in Part : DefaultKey(p) \in Key /\ dir[d][DefaultKey(p)] = NULL
    BY KeysKnown DEF Slots, RoutingInv, StoredAsRead
  <1>8. /\ phase = "serving"
        /\ \A k \in Slots \union Option :
              IF InSection(k)
              THEN req.asked[k] # NULL /\ req.merged[k] = req.asked[k]
              ELSE req.merged[k] = NULL /\ req.asked[k] = ServerFile[k]
        /\ \A p \in Part :
              /\ req.merged[DefaultKey(p)] = NULL
              /\ ~ InSection(DefaultKey(p))
                    => req.asked[DefaultKey(p)] = ServerFile[DefaultKey(p)]
    BY <1>1 DEF RoutingInv, MergedAsAsked
  <1>9. ASSUME NEW k \in Slots \union Option
        PROVE  IF InSection(k)'
               THEN req'.asked[k] # NULL /\ req'.merged[k] = req'.asked[k]
               ELSE req'.merged[k] = NULL /\ req'.asked[k] = ServerFile'[k]
    BY <1>4, <1>5, <1>6, <1>7, <1>8
  <1>10. ASSUME NEW p \in Part
         PROVE  /\ req'.merged[DefaultKey(p)] = NULL
                /\ ~ InSection(DefaultKey(p))'
                      => req'.asked[DefaultKey(p)] = ServerFile'[DefaultKey(p)]
    BY <1>4, <1>5, <1>6, <1>7, <1>8
  <1>11. MergedAsAsked'
    BY <1>3, <1>8, <1>9, <1>10 DEF MergedAsAsked
  <1>12. NotesAsMerged'
    BY <1>1, <1>2 DEF NotesAsMerged, RoutingInv
  <1> QED BY <1>11, <1>12

(* A hook changes nothing of what the file asks and the sections hold.     *)
LEMMA HookAsAsked ==
    ASSUME MergedAsAsked, req.stage # "none", UNCHANGED configChanges,
           req'.srv = req.srv, req'.walked = req.walked,
           req'.merged = req.merged, req'.asked = req.asked
    PROVE  MergedAsAsked'
  <1>1. phase' = phase /\ file' = file /\ created' = created
    BY DEF configChanges
  <1>2. ServerFile' = ServerFile
    BY <1>1 DEF ServerFile, ConfigServer
  <1>3. \A k : InSection(k)' <=> InSection(k)
    BY <1>1 DEF InSection
  <1> QED BY <1>1, <1>2, <1>3 DEF MergedAsAsked

LEMMA AccessAsMerged ==
    ASSUME TypeOK, RoutingInv, ConfigureAccess
    PROVE  MergedAsAsked' /\ NotesAsMerged'
  <1> DEFINE cfg == ConfigOf(req.srv)
             notes == InitConfiguration(cfg, req.merged, req.notes)
             tableOf(slot) == HandlerTable(cfg, SlotOf(cfg, req.merged, slot))
  <1>1. /\ req \in Request /\ req.stage = "walk"
        /\ req.srv \in Server /\ req.merged \in Table
        /\ req.notes = EmptyTable
    BY DEF TypeOK, Request, ConfigureAccess, RoutingInv, NotesAsMerged
  <1>2. /\ req' = [req EXCEPT !.stage = "access", !.notes = notes,
                              !.access = GetAccessHandler(cfg, notes)]
        /\ UNCHANGED configChanges
    BY DEF ConfigureAccess
  <1>3. Built(cfg)
    BY <1>1, ConfigOfBuilt DEF RoutingInv
  <1>4. ConfigOf(req.srv)' = cfg
    BY <1>1, <1>2 DEF ConfigOf, ConfigServer, configChanges, Request
  <1> HIDE DEF cfg
  <1>5. /\ req'.stage = "access" /\ req'.notes = notes /\ req'.srv = req.srv
        /\ req'.access = GetAccessHandler(cfg, notes)
        /\ req'.merged = req.merged /\ req'.walked = req.walked
        /\ req'.asked = req.asked
    BY <1>1, <1>2 DEF Request
  <1>6. MergedAsAsked'
    BY <1>1, <1>2, <1>5, HookAsAsked DEF RoutingInv
  <1>7. \A k \in Key : req.notes[k] = NULL
    BY <1>1 DEF EmptyTable
  <1>8. /\ \A p \in Part : req.merged[DefaultKey(p)] = NULL
        /\ \A p \in Part : req.notes[DefaultKey(p)] = NULL
        /\ \A slot \in Slots : req.notes[slot] = NULL
        /\ \A k \in Option : req.notes[k] = NULL
    BY <1>1, <1>7, KeysKnown DEF RoutingInv, MergedAsAsked, Slots
  <1>9. /\ \A slot \in Slots : notes[slot] = SlotOf(cfg, req.merged, slot)
        /\ \A p \in Part : notes[DefaultKey(p)] = cfg.default[p]
        /\ \A k \in Option \union HandlerKeys : notes[k] =
              IF tableOf("RubyAccessHandler")[k] # NULL
              THEN tableOf("RubyAccessHandler")[k]
              ELSE IF tableOf("RubyHandler")[k] # NULL
              THEN tableOf("RubyHandler")[k]
              ELSE IF req.merged[k] # NULL THEN req.merged[k]
              ELSE IF cfg.options[k] # NULL THEN cfg.options[k]
              ELSE req.notes[k]
    <2>1. req.notes \in Table
      BY <1>1 DEF Request
    <2> QED BY <1>1, <1>3, <1>8, <2>1, MergedAgainAt
  <1> HIDE DEF notes
  <1>10. \A k \in Option : notes[k] =
            IF tableOf("RubyAccessHandler")[k] # NULL
            THEN tableOf("RubyAccessHandler")[k]
            ELSE IF tableOf("RubyHandler")[k] # NULL
            THEN tableOf("RubyHandler")[k]
            ELSE IF req.merged[k] # NULL THEN req.merged[k] ELSE cfg.options[k]
    BY <1>8, <1>9
  <1>11. NotesAsMerged'
    BY <1>4, <1>5, <1>9, <1>10 DEF NotesAsMerged
  <1> QED BY <1>6, <1>11

LEMMA ContentAsMerged ==
    ASSUME TypeOK, RoutingInv, ConfigureContent
    PROVE  MergedAsAsked' /\ NotesAsMerged'
  <1> DEFINE cfg == ConfigOf(req.srv)
             notes == InitConfiguration(cfg, req.merged, req.notes)
             after == NotesAfterGetHandler(cfg, notes)
             tableOf(slot) == HandlerTable(cfg, SlotOf(cfg, req.merged, slot))
  <1>1. /\ req \in Request /\ req.stage = "access"
        /\ req.srv \in Server /\ req.merged \in Table /\ req.notes \in Table
    BY DEF TypeOK, Request, ConfigureContent
  <1>2. /\ req' = [req EXCEPT !.stage = "content", !.notes = after,
                              !.content = GetHandler(cfg, notes)]
        /\ UNCHANGED configChanges
    BY DEF ConfigureContent
  <1>3. Built(cfg)
    BY <1>1, ConfigOfBuilt DEF RoutingInv
  <1>4. ConfigOf(req.srv)' = cfg
    BY <1>1, <1>2 DEF ConfigOf, ConfigServer, configChanges, Request
  <1>5. /\ req.access = GetAccessHandler(cfg, req.notes)
        /\ \A slot \in Slots : req.notes[slot] = SlotOf(cfg, req.merged, slot)
        /\ \A p \in Part : req.notes[DefaultKey(p)] = cfg.default[p]
        /\ \A k \in Option : req.notes[k] =
              IF tableOf("RubyAccessHandler")[k] # NULL
              THEN tableOf("RubyAccessHandler")[k]
              ELSE IF tableOf("RubyHandler")[k] # NULL
              THEN tableOf("RubyHandler")[k]
              ELSE IF req.merged[k] # NULL THEN req.merged[k]
              ELSE cfg.options[k]
    BY <1>1 DEF RoutingInv, NotesAsMerged
  <1> HIDE DEF cfg
  <1>6. /\ req'.stage = "content" /\ req'.notes = after /\ req'.srv = req.srv
        /\ req'.access = req.access /\ req'.content = GetHandler(cfg, notes)
        /\ req'.merged = req.merged /\ req'.walked = req.walked
        /\ req'.asked = req.asked
    BY <1>1, <1>2 DEF Request
  <1>7. MergedAsAsked'
    BY <1>1, <1>2, <1>6, HookAsAsked DEF RoutingInv
  <1>8. \A p \in Part : req.merged[DefaultKey(p)] = NULL
    BY <1>1 DEF RoutingInv, MergedAsAsked
  <1>9. /\ notes \in Table
        /\ \A slot \in Slots : notes[slot] = SlotOf(cfg, req.merged, slot)
        /\ \A p \in Part : notes[DefaultKey(p)] = cfg.default[p]
        /\ \A k \in Option \union HandlerKeys : notes[k] =
              IF tableOf("RubyAccessHandler")[k] # NULL
              THEN tableOf("RubyAccessHandler")[k]
              ELSE IF tableOf("RubyHandler")[k] # NULL
              THEN tableOf("RubyHandler")[k]
              ELSE IF req.merged[k] # NULL THEN req.merged[k]
              ELSE IF cfg.options[k] # NULL THEN cfg.options[k]
              ELSE req.notes[k]
    BY <1>1, <1>3, <1>5, <1>8, MergedAgainAt
  <1> HIDE DEF notes
  <1>10. /\ \A k \in Key \ HandlerKeys : after[k] = notes[k]
         /\ GetHandler(cfg, after) = GetHandler(cfg, notes)
         /\ GetAccessHandler(cfg, after) = GetAccessHandler(cfg, notes)
         /\ notes["RubyHandler"] # NULL => after = notes
         /\ notes["RubyHandler"] = NULL /\ GetHandler(cfg, notes).kind = "load"
               => RouteOf(after) = GetHandler(cfg, notes).route
    BY <1>9, GetHandlerAt
  <1> HIDE DEF after
  <1>11. /\ "RubyHandler" \in Slots /\ "RubyAccessHandler" \in Slots
         /\ Slots \subseteq Key \ HandlerKeys
         /\ Option \subseteq Key \ HandlerKeys
         /\ \A p \in Part : DefaultKey(p) \in Key \ HandlerKeys
         /\ \A p \in Part : HandlerKey(p) \in HandlerKeys
    BY KeysKnown, SlotsApart DEF Slots, DefaultKeys, HandlerKeys
  <1>12. \A slot \in Slots : after[slot] = SlotOf(cfg, req.merged, slot)
    BY <1>9, <1>10, <1>11
  <1>13. \A p \in Part : after[DefaultKey(p)] = cfg.default[p]
    BY <1>9, <1>10, <1>11
  <1>14. \A k \in Option : after[k] =
            IF tableOf("RubyAccessHandler")[k] # NULL
            THEN tableOf("RubyAccessHandler")[k]
            ELSE IF tableOf("RubyHandler")[k] # NULL
            THEN tableOf("RubyHandler")[k]
            ELSE IF req.merged[k] # NULL THEN req.merged[k] ELSE cfg.options[k]
    BY <1>5, <1>9, <1>10, <1>11
  <1>15. /\ req'.access = GetAccessHandler(cfg, req'.notes)
         /\ req'.content = GetHandler(cfg, req'.notes)
    <2>1. GetAccessHandler(cfg, req.notes) = GetAccessHandler(cfg, notes)
      BY <1>5, <1>9, <1>11 DEF GetAccessHandler
    <2> QED BY <1>5, <1>6, <1>10, <2>1
  <1>16. ASSUME req.access = Empty, GetHandler(cfg, notes).kind = "load"
         PROVE  RouteOf(after) = GetHandler(cfg, notes).route
    <2>1. CASE notes["RubyHandler"] = NULL
      BY <1>10, <1>16, <2>1
    <2>2. CASE notes["RubyHandler"] # NULL
      <3>1. SlotOf(cfg, req.merged, "RubyAccessHandler") \notin cfg.declared
        BY <1>5, <1>11, <1>16, HandlerIsNotEmpty DEF GetAccessHandler
      <3>2. \A k \in Key : tableOf("RubyAccessHandler")[k] = NULL
        BY <3>1 DEF HandlerTable, EmptyTable
      <3>3. notes["RubyHandler"] \in cfg.declared
        BY <1>16, <2>2 DEF GetHandler, Empty
      <3> DEFINE table == cfg.handlers[notes["RubyHandler"]]
      <3>4. tableOf("RubyHandler") = table
        BY <1>9, <1>11, <3>3 DEF HandlerTable
      <3>5. GetHandler(cfg, notes) = Handler(RouteOf(table))
        BY <2>2, <3>3 DEF GetHandler
      <3>6. \A p \in Part : table[HandlerKey(p)] # NULL
        <4>1. \A p \in Part : RouteOf(table)[p] # NULL
          BY <1>16, <3>5, HandlerIsNotEmpty
        <4> QED BY <4>1 DEF RouteOf
      <3> HIDE DEF table
      <3>7. \A p \in Part : notes[HandlerKey(p)] = table[HandlerKey(p)]
        BY <1>9, <1>11, <3>2, <3>4, <3>6, KeysKnown
      <3>8. after = notes
        BY <1>10, <2>2
      <3> QED BY <3>5, <3>7, <3>8, HandlerIsNotEmpty DEF RouteOf
    <2> QED BY <2>1, <2>2
  <1>17. NotesAsMerged'
    BY <1>4, <1>6, <1>12, <1>13, <1>14, <1>15, <1>16 DEF NotesAsMerged
  <1> QED BY <1>7, <1>17

(* No directive line and no step of a request loses what the file says.   *)
THEOREM RoutingStep == TypeOK /\ RoutingInv /\ [Next]_vars => RoutingInv'
  <1> SUFFICES ASSUME TypeOK, RoutingInv, [Next]_vars PROVE RoutingInv'
    OBVIOUS
  <1> USE DEF RoutingInv
  <1>1. ASSUME NEW ctx \in Context, ReadLine(ctx)
        PROVE  MergedAsAsked' /\ NotesAsMerged'
    BY <1>1, NoRequestWhileReading DEF ReadLine
  <1>2. ASSUME NEW ctx \in Context, NEW p \in Part, NEW v \in Text,
               SetDefaultHandler(ctx, p, v)
        PROVE  RoutingInv'
    BY <1>1, <1>2, StoreDefault DEF SetDefaultHandler
  <1>3. ASSUME NEW ctx \in Context, NEW k \in Option, NEW v \in Text,
               SetConfigVar(ctx, k, v)
        PROVE  RoutingInv'
    BY <1>1, <1>3, StoreOption DEF SetConfigVar
  <1>4. ASSUME NEW ctx \in Context, NEW h \in HandlerName,
               SetHandler(ctx, h) \/ SetAccessHandler(ctx, h)
        PROVE  RoutingInv'
    BY <1>1, <1>4, StoreSlot DEF SetHandler, SetAccessHandler
  <1>5. ASSUME NEW ctx \in Context, NEW h \in HandlerName, Declare(ctx, h)
        PROVE  RoutingInv'
    BY <1>1, <1>5, StoreHandler DEF Declare
  <1>6. ASSUME NEW ctx \in Context, NEW h \in HandlerName,
               NEW k \in HandlerKeys \union Option, NEW v \in Text,
               SetHandlerParam(ctx, h, k, v)
        PROVE  RoutingInv'
    BY <1>1, <1>6, StoreHandler DEF SetHandlerParam
  <1>7. CASE FinishConfig
    <2>1. StoredAsRead'
      BY <1>7 DEF FinishConfig, StoredAsRead
    <2>2. MergedAsAsked' /\ NotesAsMerged'
      BY <1>7, NoRequestWhileReading DEF FinishConfig
    <2> QED BY <2>1, <2>2
  <1>8. ASSUME UNCHANGED configChanges
        PROVE  StoredAsRead'
    BY <1>8 DEF configChanges, StoredAsRead
  <1>9. ASSUME NEW s \in Server, BeginRequest(s)
        PROVE  RoutingInv'
    BY <1>8, <1>9, BeginsAsAsked DEF BeginRequest
  <1>10. ASSUME NEW d \in Section, MergeSection(d)
         PROVE  RoutingInv'
    BY <1>8, <1>10, SectionAsAsked DEF MergeSection
  <1>11. CASE ConfigureAccess
    BY <1>8, <1>11, AccessAsMerged DEF ConfigureAccess
  <1>12. CASE ConfigureContent
    BY <1>8, <1>12, ContentAsMerged DEF ConfigureContent
  <1>13. CASE EndRequest
    <2>1. req'.stage = "none"
      BY <1>13 DEF EndRequest, NoRequest
    <2> QED BY <1>8, <1>13, <2>1 DEF EndRequest, MergedAsAsked, NotesAsMerged
  <1>14. CASE UNCHANGED vars
    <2>1. StoredAsRead'
      BY <1>8, <1>14 DEF vars, configChanges
    <2>2. MergedAsAsked'
      BY <1>14 DEF vars, MergedAsAsked, InSection, ServerFile, ConfigServer
    <2>3. NotesAsMerged'
      BY <1>14 DEF vars, NotesAsMerged, ConfigOf, ConfigServer
    <2> QED BY <2>1, <2>2, <2>3
  <1> QED BY <1>2, <1>3, <1>4, <1>5, <1>6, <1>7, <1>9, <1>10, <1>11, <1>12,
             <1>13, <1>14 DEF Next, Configure, ServeRequest

LEMMA RoutingInit == Init => RoutingInv
  <1> SUFFICES ASSUME Init PROVE RoutingInv
    OBVIOUS
  <1>1. StoredAsRead
    <2>1. \A k \in Slots \union Option \union DefaultKeys : k \in Key
      BY DEF Key
    <2>2. \A p \in Part : DefaultKey(p) \in Key
      BY KeysKnown
    <2>3. "RubyHandler" \in Key /\ "RubyAccessHandler" \in Key
      BY KeysKnown
    <2> QED BY <2>1, <2>2, <2>3 DEF Init, StoredAsRead, NewServerConfig,
               EmptyTable, EmptyRoute, Context
  <1>2. MergedAsAsked /\ NotesAsMerged
    BY DEF Init, NoRequest, MergedAsAsked, NotesAsMerged
  <1> QED BY <1>1, <1>2 DEF RoutingInv

(* From a line of the file to the notes of a request, nothing a directive  *)
(* says is lost or moved, in every configuration.                          *)
THEOREM Routing == Spec => []RoutingInv
  BY Typed, RoutingInit, RoutingStep, PTL DEF Spec

---------------------------------------------------------------------------
(* What the invariant says of the handlers and the notes of a request.     *)

(* The server's share of a request.                                        *)
LEMMA ServerShare ==
    ASSUME TypeOK, RoutingInv
    PROVE  LET cfg == ConfigOf(req.srv)
           IN  /\ ConfigServer(req.srv) \in Server
               /\ cfg \in ServerConfig
               /\ \A p \in Part : cfg.default[p] = ServerFile[DefaultKey(p)]
               /\ \A k \in Option : cfg.options[k] = ServerFile[k]
               /\ ServerFile["RubyAccessHandler"] = NULL
                     => cfg.handler = ServerFile["RubyHandler"]
               /\ ServerFile["RubyHandler"] = NULL
                     => cfg.handler = ServerFile["RubyAccessHandler"]
  <1>1. req.srv \in Server
    BY DEF TypeOK, Request
  <1>2. ConfigServer(req.srv) \in Server /\ ConfigOf(req.srv) \in ServerConfig
    BY <1>1, ConfigOfTyped
  <1> QED BY <1>2 DEF RoutingInv, StoredAsRead, ConfigOf, ServerFile

LEMMA ContentRoutedInv == TypeOK /\ RoutingInv => ContentRoutedAsAsked
  <1> SUFFICES ASSUME TypeOK, RoutingInv, req.stage = "content"
               PROVE  ContentRoutedAsAsked
    BY DEF ContentRoutedAsAsked
  <1> DEFINE cfg == ConfigOf(req.srv)
             name == req.notes["RubyHandler"]
  <1>1. /\ name = SlotOf(cfg, req.merged, "RubyHandler")
        /\ \A p \in Part : req.notes[DefaultKey(p)] = cfg.default[p]
        /\ req.content = GetHandler(cfg, req.notes)
    BY DEF RoutingInv, NotesAsMerged, Slots
  <1>2. IF InSection("RubyHandler")
        THEN /\ req.asked["RubyHandler"] # NULL
             /\ req.merged["RubyHandler"] = req.asked["RubyHandler"]
        ELSE /\ req.merged["RubyHandler"] = NULL
             /\ req.asked["RubyHandler"] = ServerFile["RubyHandler"]
    BY DEF RoutingInv, MergedAsAsked, Slots
  <1>3. /\ \A p \in Part : cfg.default[p] = ServerFile[DefaultKey(p)]
        /\ ServerFile["RubyAccessHandler"] = NULL
              => cfg.handler = ServerFile["RubyHandler"]
    BY ServerShare
  <1>4. \/ ServerFile["RubyAccessHandler"] = NULL
        \/ InSection("RubyHandler")
        => name = req.asked["RubyHandler"]
    BY <1>1, <1>2, <1>3 DEF SlotOf
  <1>5. ASSUME req.asked["RubyHandler"] # NULL,
               \/ ServerFile["RubyAccessHandler"] = NULL
               \/ InSection("RubyHandler")
        PROVE  req.content = Named(req.asked["RubyHandler"])
    BY <1>1, <1>4, <1>5 DEF GetHandler, Named
  <1>6. ASSUME req.asked["RubyHandler"] = NULL,
               ServerFile["RubyAccessHandler"] = NULL,
               \A p \in Part : ~ InSection(DefaultKey(p))
        PROVE  req.content = Handler([p \in Part |-> req.asked[DefaultKey(p)]])
    <2>1. req.content = Handler(DefaultRoute(cfg, req.notes))
      BY <1>1, <1>4, <1>6 DEF GetHandler
    <2>2. \A p \in Part : req.asked[DefaultKey(p)] = cfg.default[p]
      BY <1>3, <1>6 DEF RoutingInv, MergedAsAsked
    <2>3. DefaultRoute(cfg, req.notes) = [p \in Part |-> req.asked[DefaultKey(p)]]
      BY <1>1, <2>2 DEF DefaultRoute
    <2> QED BY <2>1, <2>3
  <1> QED BY <1>5, <1>6 DEF ContentRoutedAsAsked

LEMMA AccessRoutedInv == TypeOK /\ RoutingInv => AccessRoutedAsAsked
  <1> SUFFICES ASSUME TypeOK, RoutingInv, req.stage \in {"access", "content"}
               PROVE  AccessRoutedAsAsked
    BY DEF AccessRoutedAsAsked
  <1> DEFINE cfg == ConfigOf(req.srv)
             name == req.notes["RubyAccessHandler"]
  <1>1. /\ name = SlotOf(cfg, req.merged, "RubyAccessHandler")
        /\ req.access = GetAccessHandler(cfg, req.notes)
    BY DEF RoutingInv, NotesAsMerged, Slots
  <1>2. IF InSection("RubyAccessHandler")
        THEN /\ req.asked["RubyAccessHandler"] # NULL
             /\ req.merged["RubyAccessHandler"] = req.asked["RubyAccessHandler"]
        ELSE /\ req.merged["RubyAccessHandler"] = NULL
             /\ req.asked["RubyAccessHandler"] = ServerFile["RubyAccessHandler"]
    BY DEF RoutingInv, MergedAsAsked, Slots
  <1>3. /\ cfg \in ServerConfig
        /\ ServerFile["RubyHandler"] = NULL
              => cfg.handler = ServerFile["RubyAccessHandler"]
    BY ServerShare
  <1>4. \/ ServerFile["RubyHandler"] = NULL
        \/ InSection("RubyAccessHandler")
        => name = req.asked["RubyAccessHandler"]
    BY <1>1, <1>2, <1>3 DEF SlotOf
  <1>5. NULL \notin cfg.declared
    BY <1>3, NullIsNoValue DEF ServerConfig, Value
  <1>6. ASSUME req.asked["RubyAccessHandler"] # NULL,
               \/ ServerFile["RubyHandler"] = NULL
               \/ InSection("RubyAccessHandler")
        PROVE  req.access = Named(req.asked["RubyAccessHandler"])
    BY <1>1, <1>4, <1>6 DEF GetAccessHandler, Named
  <1>7. ASSUME req.asked["RubyAccessHandler"] = NULL,
               ServerFile["RubyHandler"] = NULL
        PROVE  req.access = Empty
    BY <1>1, <1>4, <1>5, <1>7 DEF GetAccessHandler
  <1> QED BY <1>6, <1>7 DEF AccessRoutedAsAsked

LEMMA OptionPrecedenceInv == TypeOK /\ RoutingInv => OptionPrecedence
  <1> SUFFICES ASSUME TypeOK, RoutingInv, req.stage = "content"
               PROVE  OptionPrecedence
    BY DEF OptionPrecedence
  <1> DEFINE cfg == ConfigOf(req.srv)
             tableOf(slot) == HandlerTable(cfg, req.notes[slot])
  <1>1. \A slot \in Slots : req.notes[slot] = SlotOf(cfg, req.merged, slot)
    BY DEF RoutingInv, NotesAsMerged
  <1>2. "RubyHandler" \in Slots /\ "RubyAccessHandler" \in Slots
    BY DEF Slots
  <1>3. ASSUME NEW k \in Option, tableOf("RubyAccessHandler")[k] = NULL
        PROVE  /\ tableOf("RubyHandler")[k] = NULL
                     => req.notes[k] = req.asked[k]
               /\ tableOf("RubyHandler")[k] # NULL /\ ~ InSection(k)
                     => req.notes[k] = tableOf("RubyHandler")[k]
    <2>1. req.asked[k] = IF req.merged[k] # NULL THEN req.merged[k]
                         ELSE cfg.options[k]
      BY ServerShare DEF RoutingInv, MergedAsAsked
    <2>2. req.notes[k] =
            IF tableOf("RubyAccessHandler")[k] # NULL
            THEN tableOf("RubyAccessHandler")[k]
            ELSE IF tableOf("RubyHandler")[k] # NULL
            THEN tableOf("RubyHandler")[k]
            ELSE IF req.merged[k] # NULL THEN req.merged[k] ELSE cfg.options[k]
      BY <1>1, <1>2 DEF RoutingInv, NotesAsMerged
    <2> QED BY <1>3, <2>1, <2>2
  <1> QED BY <1>3 DEF OptionPrecedence

(* The content handler of a request is the one the file asks for, in every *)
(* configuration of any number of servers, nested sections and handlers.   *)
THEOREM ContentRouted == Spec => []ContentRoutedAsAsked
  BY Typed, Routing, ContentRoutedInv, PTL

(* The access handler of a request is the one the file asks for.           *)
THEOREM AccessRouted == Spec => []AccessRoutedAsAsked
  BY Typed, Routing, AccessRoutedInv, PTL

(* A user's variable that no named handler sets has the value of the       *)
(* innermost section that sets it, else the server's; one the content      *)
(* handler alone sets has that value.                                      *)
THEOREM OptionsMerged == Spec => []OptionPrecedence
  BY Typed, Routing, OptionPrecedenceInv, PTL

(* The notes name the content handler that runs.                           *)
THEOREM NotesName == Spec => []NotesNameTheHandler
  <1>1. RoutingInv => NotesNameTheHandler
    BY DEF RoutingInv, NotesAsMerged, NotesNameTheHandler
  <1> QED BY <1>1, Routing, PTL

---------------------------------------------------------------------------
(* Declared handlers.                                                      *)

LEMMA DeclareKeeps ==
    ASSUME TypeOK, NEW ctx \in Context, NEW h \in HandlerName, Declare(ctx, h),
           NEW s \in Server, NEW g \in server[s].declared
    PROVE  /\ g \in server'[s].declared
           /\ server'[s].handlers[g] = server[s].handlers[g]
  <1>1. server \in [Server -> ServerConfig] /\ server[s] \in ServerConfig
        /\ g \in HandlerName
    BY DEF TypeOK, ServerConfig
  <1>2. CASE server' = server
    BY <1>2
  <1>3. CASE server' # server
    <2>1. /\ ctx \in Server /\ h \notin server[ctx].declared
          /\ server' = [server EXCEPT ![ctx].declared = @ \union {h},
                                      ![ctx].handlers[h] = EmptyTable]
      BY <1>3 DEF Declare
    <2>2. CASE s # ctx
      BY <1>1, <2>1, <2>2
    <2>3. CASE s = ctx
      BY <1>1, <2>1, <2>3 DEF ServerConfig
    <2> QED BY <2>2, <2>3
  <1> QED BY <1>2, <1>3

LEMMA SetHandlerParamKeeps ==
    ASSUME TypeOK, NEW ctx \in Context, NEW h \in HandlerName,
           NEW key \in HandlerKeys \union Option, NEW v \in Text,
           SetHandlerParam(ctx, h, key, v),
           NEW s \in Server, NEW g \in server[s].declared
    PROVE  /\ g \in server'[s].declared
           /\ \A k \in Key : server[s].handlers[g][k] # NULL
                             => server'[s].handlers[g][k] # NULL
  <1>1. /\ server \in [Server -> ServerConfig] /\ server[s] \in ServerConfig
        /\ g \in HandlerName /\ v # NULL
    BY NullIsNoValue DEF TypeOK, ServerConfig, Value
  <1>2. server'[s] \in {server[s], [server[s] EXCEPT !.handlers[h][key] = v]}
    BY <1>1 DEF SetHandlerParam
  <1>3. CASE server'[s] = server[s]
    BY <1>3
  <1>4. CASE server'[s] = [server[s] EXCEPT !.handlers[h][key] = v]
    <2>1. server'[s].declared = server[s].declared
      BY <1>1, <1>4 DEF ServerConfig
    <2>2. \A k \in Key : server'[s].handlers[g][k] =
              IF g = h /\ k = key THEN v ELSE server[s].handlers[g][k]
      BY <1>1, <1>4 DEF ServerConfig, Table
    <2> QED BY <1>1, <2>1, <2>2
  <1> QED BY <1>2, <1>3, <1>4

(* No line of a file of any length loses a declared handler or one of its  *)
(* parameters.                                                             *)
THEOREM HandlersKept == Spec => HandlersOnlyGrow
  <1> DEFINE Kept == \A s \in Server : \A h \in server[s].declared :
                        /\ h \in server'[s].declared
                        /\ \A k \in Key : server[s].handlers[h][k] # NULL
                                          => server'[s].handlers[h][k] # NULL
  <1>1. TypeOK /\ [Next]_vars => [Kept]_vars
    <2> SUFFICES ASSUME TypeOK, Next PROVE Kept
      OBVIOUS
    <2>1. CASE server' = server
      BY <2>1
    <2>2. CASE server' # server
      <3> SUFFICES ASSUME NEW s \in Server, NEW g \in server[s].declared
                   PROVE  /\ g \in server'[s].declared
                          /\ \A k \in Key : server[s].handlers[g][k] # NULL
                                            => server'[s].handlers[g][k] # NULL
        OBVIOUS
      <3>1. ASSUME NEW ctx \in Context, NEW p \in Part, NEW v \in Text,
                   SetDefaultHandler(ctx, p, v)
            PROVE  /\ server'[s].declared = server[s].declared
                   /\ server'[s].handlers = server[s].handlers
        BY <3>1 DEF SetDefaultHandler, TypeOK, ServerConfig
      <3>2. ASSUME NEW ctx \in Context, NEW k \in Option, NEW v \in Text,
                   SetConfigVar(ctx, k, v)
            PROVE  /\ server'[s].declared = server[s].declared
                   /\ server'[s].handlers = server[s].handlers
        BY <3>2 DEF SetConfigVar, TypeOK, ServerConfig
      <3>3. ASSUME NEW ctx \in Context, NEW h \in HandlerName,
                   SetHandler(ctx, h) \/ SetAccessHandler(ctx, h)
            PROVE  /\ server'[s].declared = server[s].declared
                   /\ server'[s].handlers = server[s].handlers
        <4>1. \/ server' = server
              \/ server' = [server EXCEPT ![ctx].handler = h]
          BY <3>3 DEF SetHandler, SetAccessHandler
        <4>2. server \in [Server -> ServerConfig]
          BY DEF TypeOK
        <4>3. \/ server'[s] = server[s]
              \/ server'[s] = [server[s] EXCEPT !.handler = h]
          BY <4>1, <4>2
        <4>4. server[s] \in ServerConfig
          BY <4>2
        <4> QED BY <4>3, <4>4 DEF ServerConfig
      <3>4. ~ (FinishConfig \/ ServeRequest)
        BY <2>2 DEF FinishConfig, ServeRequest, BeginRequest, MergeSection,
           ConfigureAccess, ConfigureContent, EndRequest, configChanges
      <3> QED BY <3>1, <3>2, <3>3, <3>4, DeclareKeeps, SetHandlerParamKeeps
             DEF Next, Configure
    <2> QED BY <2>1, <2>2
  <1>2. Spec => [][Kept]_vars
    BY <1>1, Typed, PTL DEF Spec
  <1> QED BY <1>2 DEF HandlersOnlyGrow

===========================================================================
