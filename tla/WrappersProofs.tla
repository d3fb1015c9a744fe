-------------------------- MODULE WrappersProofs ---------------------------
(***************************************************************************)
(* Theorems of Wrappers, for any number of objects and requests.           *)
(***************************************************************************)
EXTENDS Wrappers, SequenceTheorems, TLAPS

---------------------------------------------------------------------------
(* Reachability.                                                           *)

(* What is reachable is an object, what is held is reachable, and what a   *)
(* reachable object refers to is.                                          *)
LEMMA ReachableIsClosed ==
    ASSUME TypeOK
    PROVE  /\ Reachable \subseteq Object
           /\ held \subseteq Reachable
           /\ Closed(Reachable)
  <1>1. Reachable \subseteq Object
    BY DEF Reachable
  <1>2. held \subseteq Reachable
    BY DEF Reachable, TypeOK
  <1>3. ASSUME NEW o \in Reachable, NEW r \in Refs(o)
        PROVE  r \in Reachable
    <2>1. o \in Object /\ r \in 1..o - 1
      BY <1>1, <1>3 DEF TypeOK
    <2>2. Object = 1..Len(objects) /\ Len(objects) \in Nat
      BY LenProperties DEF TypeOK, Object
    <2>3. r \in Object
      BY <2>1, <2>2
    <2>4. ASSUME NEW S \in SUBSET Object, held \subseteq S, Closed(S)
          PROVE  r \in S
      BY <1>3, <2>1, <2>4 DEF Reachable, Closed
    <2> QED BY <2>3, <2>4 DEF Reachable
  <1>4. Closed(Reachable)
    BY <1>3 DEF Closed
  <1> QED BY <1>1, <1>2, <1>4

(* After a step that leaves the reachable objects as they are, those, and  *)
(* what is new and refers to nothing else, are all that can be reachable.  *)
LEMMA ReachableAfter ==
    ASSUME TypeOK,
           NEW Fresh, Fresh \subseteq Object',
           Object \subseteq Object',
           \A o \in Reachable : objects'[o] = objects[o],
           held' \subseteq held \union Fresh,
           \A o \in Fresh : Refs(o)' \subseteq held \union Fresh
    PROVE  Reachable' \subseteq Reachable \union Fresh
  <1> SUFFICES ASSUME NEW S, S = Reachable \union Fresh
               PROVE  Reachable' \subseteq S
    OBVIOUS
  <1>1. S \subseteq Object' /\ held' \subseteq S
    BY ReachableIsClosed
  <1>2. ASSUME NEW o \in S PROVE Refs(o)' \subseteq S
    <2>1. CASE o \in Fresh
      BY <2>1, ReachableIsClosed
    <2>2. CASE o \in Reachable
      <3>1. Refs(o) \subseteq Reachable
        BY <2>2, ReachableIsClosed DEF Closed
      <3>2. Refs(o)' = Refs(o)
        BY <2>2 DEF Refs, Exists
      <3> QED BY <3>1, <3>2
    <2> QED BY <1>2, <2>1, <2>2
  <1>3. Closed(S)'
    BY <1>2 DEF Closed
  <1> QED BY <1>1, <1>3 DEF Reachable

(* The types of the parts of an object.                                    *)
LEMMA ObjectTypes ==
    ASSUME TypeOK
    PROVE  /\ Object = 1..Len(objects)
           /\ Len(objects) \in Nat
           /\ \A o \in Object : Exists(o) => /\ objects[o] \in Wrappers
                                             /\ Refs(o) = objects[o].refs
           /\ \A o \in Object : Refs(o) \subseteq Object
  <1>1. Object = 1..Len(objects) /\ Len(objects) \in Nat
    BY LenProperties DEF TypeOK, Object
  <1>2. \A o \in Object : objects[o] \in Wrappers \union {NULL}
    BY <1>1, ElementOfSeq DEF TypeOK
  <1>3. \A o \in Object : Exists(o) => /\ objects[o] \in Wrappers
                                       /\ Refs(o) = objects[o].refs
    BY <1>2 DEF Exists, Refs
  <1>4. \A o \in Object : Refs(o) \subseteq Object
    BY <1>1 DEF TypeOK
  <1> QED BY <1>1, <1>3, <1>4

(* Steps that make objects: what is new points where it refers, and Ruby   *)
(* code gets hold of what is made and refers to what it held.              *)
LEMMA MakingKeeps ==
    ASSUME WrapperInv,
           objects' \in Seq(Wrappers \union {NULL}),
           Object \subseteq Object',
           \A o \in Object : objects'[o] = objects[o],
           \A o \in Object' \ Object :
               /\ objects'[o] \in Wrappers
               /\ objects'[o].refs \subseteq 1..o - 1
               /\ Rooted(o)',
           NEW Fresh, Fresh \subseteq Object' \ Object,
           held' \subseteq held \union Fresh,
           \A o \in Fresh : /\ objects'[o].refs \subseteq held \union Fresh
                            /\ objects'[o].memory.of # "none",
           pools' = pools \union {o \in Object' \ Object : objects'[o].kind = "pool"},
           (request \in 0..MaxRequests)',
           (serving \in BOOLEAN)',
           (connection \in Nat)'
    PROVE  WrapperInv'
  <1> USE DEF WrapperInv
  <1>1. \A o \in Object' \ Object : Exists(o)' /\ Refs(o)' = objects'[o].refs
    BY NullIsNothing DEF Exists, Refs
  <1>2. \A o \in Object : /\ Exists(o)' = Exists(o)
                          /\ Refs(o)' = Refs(o)
                          /\ Is(o, "pool")' = Is(o, "pool")
    BY DEF Exists, Refs, Is
  <1>3. TypeOK'
    <2>1. (\A o \in Object : Refs(o) \subseteq 1..o - 1)'
      BY <1>1, <1>2 DEF TypeOK
    <2>2. (held \subseteq {o \in Object : Exists(o)})'
      BY <1>1, <1>2 DEF TypeOK
    <2>3. (pools = {o \in Object : Is(o, "pool")})'
      <3>1. \A o \in Object' \ Object : Is(o, "pool")' = (objects'[o].kind = "pool")
        BY <1>1 DEF Is
      <3> QED BY <1>2, <3>1 DEF TypeOK
    <2> QED BY <2>1, <2>2, <2>3 DEF TypeOK
  <1>4. ASSUME NEW o \in Object, Exists(o) PROVE Rooted(o)'
    <2>1. Rooted(o) /\ Refs(o) \subseteq Object
      BY <1>4, ObjectTypes
    <2> QED BY <1>2, <2>1 DEF Rooted
  <1>5. (\A o \in Object : Exists(o) => Rooted(o))'
    BY <1>2, <1>4
  <1>6. Reachable' \subseteq Reachable \union Fresh
    BY <1>1, ReachableAfter, ReachableIsClosed
  <1>7. (\A o \in Reachable : Exists(o) /\ objects[o].memory.of # "none")'
    BY <1>1, <1>2, <1>6, ReachableIsClosed
  <1> QED BY <1>3, <1>5, <1>7

(* Steps that forget and collect: nothing that is reachable goes.          *)
LEMMA LosingKeeps ==
    ASSUME WrapperInv,
           objects' \in Seq(Wrappers \union {NULL}),
           Object' = Object,
           \A o \in Object : objects'[o] = objects[o] \/ (o \notin Reachable /\ ~ Exists(o)'),
           held' \subseteq held,
           pools' = {o \in pools : Exists(o)'},
           (request \in 0..MaxRequests)',
           (serving \in BOOLEAN)',
           (connection \in Nat)'
    PROVE  WrapperInv'
  <1> USE DEF WrapperInv
  <1>1. \A o \in Object : Exists(o)' => /\ Exists(o)
                                        /\ objects'[o] = objects[o]
                                        /\ Refs(o)' = Refs(o)
                                        /\ Is(o, "pool")' = Is(o, "pool")
    BY DEF Exists, Refs, Is
  <1>2. \A o \in Reachable : objects'[o] = objects[o] /\ Exists(o)'
    BY ReachableIsClosed DEF Exists
  <1>3. TypeOK'
    <2>1. (\A o \in Object : Refs(o) \subseteq 1..o - 1)'
      <3>1. \A o \in Object : ~ Exists(o)' => Refs(o)' = {}
        BY DEF Refs
      <3> QED BY <1>1, <3>1 DEF TypeOK
    <2>2. (held \subseteq {o \in Object : Exists(o)})'
      BY <1>2, ReachableIsClosed
    <2>3. (pools = {o \in Object : Is(o, "pool")})'
      BY <1>1 DEF TypeOK, Is
    <2> QED BY <2>1, <2>2, <2>3 DEF TypeOK
  <1>4. ASSUME NEW o \in Object, Exists(o)' PROVE Rooted(o)'
    <2>1. Rooted(o) /\ Refs(o) \subseteq Object
      BY <1>1, <1>4, ObjectTypes
    <2> QED BY <1>1, <1>4, <2>1 DEF Rooted
  <1>5. Reachable' \subseteq Reachable \union {}
    <2>1. held' \subseteq held \union {}
      OBVIOUS
    <2>2. \A o \in {} : Refs(o)' \subseteq held \union {}
      OBVIOUS
    <2> QED BY <1>2, <2>1, <2>2, ReachableAfter
  <1>6. (\A o \in Reachable : Exists(o) /\ objects[o].memory.of # "none")'
    BY <1>2, <1>5
  <1> QED BY <1>3, <1>4, <1>6

---------------------------------------------------------------------------
(* The steps.                                                              *)

(* One object more, which Ruby code gets hold of or not.                   *)
LEMMA OneMoreKeeps ==
    ASSUME WrapperInv,
           NEW w \in Wrappers,
           objects' = Append(objects, w),
           NEW Fresh \in {{}, {NewObject}},
           held' = held \union Fresh,
           Fresh # {} => w.memory.of # "none",
           w.refs \subseteq held,
           w.memory.of = "pool" => \/ w.memory.n = NewObject /\ w.kind = "pool"
                                   \/ w.memory.n \in w.refs /\ Is(w.memory.n, "pool"),
           w.kind \in {"request", "server"} => w.memory.of \notin {"pool", "none"},
           pools' = IF w.kind = "pool" THEN pools \union {NewObject} ELSE pools,
           (request \in 0..MaxRequests)',
           (serving \in BOOLEAN)',
           (connection \in Nat)'
    PROVE  WrapperInv'
  <1>1. TypeOK /\ objects \in Seq(Wrappers \union {NULL}) /\ held \subseteq Object
    BY DEF WrapperInv, TypeOK
  <1>2. Object = 1..Len(objects) /\ Len(objects) \in Nat
    BY <1>1, ObjectTypes
  <1>3. /\ objects' \in Seq(Wrappers \union {NULL})
        /\ Len(objects') = NewObject
        /\ \A o \in Object : objects'[o] = objects[o]
        /\ objects'[NewObject] = w
    BY <1>1, <1>2, AppendProperties DEF NewObject
  <1>4. Object' = 1..NewObject
    BY <1>3, LenProperties DEF Object
  <1>5. Object' \ Object = {NewObject} /\ Object \subseteq Object' /\ NewObject \notin Object
    BY <1>2, <1>4 DEF NewObject
  <1>6. w.refs \subseteq 1..NewObject - 1
    <2>1. NewObject - 1 = Len(objects)
      BY <1>2 DEF NewObject
    <2> QED BY <1>1, <1>2, <2>1
  <1>7. ASSUME NEW o, o = NewObject PROVE Rooted(o)'
    <2>1. objects'[o] = w /\ Exists(o)'
      BY <1>3, <1>7, NullIsNothing DEF Exists
    <2>2. Refs(o)' = w.refs /\ Is(o, "pool")' = (w.kind = "pool")
      BY <2>1 DEF Refs, Is
    <2>3. ASSUME w.memory.n \in w.refs, Is(w.memory.n, "pool")
          PROVE  Is(w.memory.n, "pool")'
      BY <1>1, <1>3, <2>3 DEF Is, Exists
    <2>4. w.memory.of = "pool" =>
             \/ w.memory.n = o /\ Is(o, "pool")'
             \/ w.memory.n \in Refs(o)' /\ Is(w.memory.n, "pool")'
      BY <1>7, <2>2, <2>3
    <2> QED BY <2>1, <2>4 DEF Rooted
  <1>8. pools' = pools \union {o \in Object' \ Object : objects'[o].kind = "pool"}
    BY <1>3, <1>5
  <1>9. \A o \in Fresh : /\ objects'[o].refs \subseteq held \union Fresh
                         /\ objects'[o].memory.of # "none"
    BY <1>3
  <1>10. Fresh \subseteq Object' \ Object
    BY <1>5
  <1>11. \A o \in Object' \ Object :
            objects'[o] \in Wrappers /\ objects'[o].refs \subseteq 1..o - 1 /\ Rooted(o)'
    BY <1>3, <1>5, <1>6, <1>7
  <1> QED BY <1>3, <1>5, <1>8, <1>9, <1>10, <1>11, MakingKeeps

(* What Apache's memory, or the process's, gives.                          *)
LEMMA MakeKeeps ==
    ASSUME WrapperInv,
           NEW kind \in Kind \ {"pool"},
           NEW memory \in Memory, memory.of # "none",
           NEW refs \in SUBSET held,
           memory.of = "pool" => /\ kind \notin {"request", "server"}
                                 /\ memory.n \in refs
                                 /\ Is(memory.n, "pool"),
           Make(kind, memory, refs)
    PROVE  WrapperInv'
  <1> DEFINE w == Wrapper(kind, memory, refs)
  <1>1. TypeOK /\ held \subseteq Object /\ Object \subseteq Nat
    BY ObjectTypes DEF WrapperInv, TypeOK
  <1>2. w \in Wrappers
    BY <1>1 DEF Wrapper, Wrappers
  <1>3. /\ w.kind = kind /\ w.memory = memory /\ w.refs = refs
        /\ objects' = Append(objects, w)
        /\ held' = held \union {NewObject}
        /\ pools' = pools
    BY DEF Wrapper, Make
  <1>4. /\ (request \in 0..MaxRequests)'
        /\ (serving \in BOOLEAN)'
        /\ (connection \in Nat)'
    BY <1>1 DEF Make, apache, TypeOK
  <1> HIDE DEF w
  <1> QED BY <1>2, <1>3, <1>4, OneMoreKeeps

(* A pointer read from an object of Apache's is Apache's.                  *)
LEMMA FromApache ==
    ASSUME WrapperInv,
           NEW o \in held, Is(o, "request") \/ Is(o, "server"),
           NEW memory \in Memory, memory.of \notin {"pool", "none"}
    PROVE  From(o, memory) \in Memory /\ From(o, memory).of \notin {"pool", "none"}
  <1>1. TypeOK /\ o \in Object /\ Exists(o) /\ Rooted(o)
    BY DEF WrapperInv, TypeOK
  <1>2. objects[o] \in Wrappers
    BY <1>1, ObjectTypes
  <1>3. objects[o].memory \in Memory /\ objects[o].memory.of \notin {"pool", "none"}
    BY <1>1, <1>2 DEF Wrappers, Rooted, Is
  <1> QED BY <1>3 DEF From

LEMMA MemoryTypes ==
    ASSUME TypeOK
    PROVE  /\ ProcessMemory \in Memory /\ ProcessMemory.of = "process"
           /\ RequestMemory \in Memory /\ RequestMemory.of = "request"
           /\ ConnectionMemory \in Memory /\ ConnectionMemory.of = "connection"
           /\ \A p \in Nat : /\ PoolMemory(p) \in Memory
                             /\ PoolMemory(p).of = "pool" /\ PoolMemory(p).n = p
           /\ NoMemory \in Memory /\ NoMemory.of = "none"
  BY BoundsAreNats DEF TypeOK, Memory, ProcessMemory, RequestMemory, ConnectionMemory,
     PoolMemory, NoMemory

LEMMA GivingKeeps ==
    ASSUME WrapperInv, NEW o \in Object, RequestGives(o) \/ ServerGives(o)
    PROVE  WrapperInv'
  <1>1. TypeOK /\ o \in held /\ {o} \in SUBSET held /\ {} \in SUBSET held
    BY DEF WrapperInv, RequestGives, ServerGives
  <1>2. CASE RequestGives(o)
    <2>1. \A memory \in Memory : memory.of \notin {"pool", "none"} =>
             From(o, memory) \in Memory /\ From(o, memory).of \notin {"pool", "none"}
      BY <1>1, <1>2, FromApache DEF RequestGives
    <2>2. /\ From(o, ProcessMemory) \in Memory
          /\ From(o, ProcessMemory).of \notin {"pool", "none"}
          /\ From(o, ConnectionMemory) \in Memory
          /\ From(o, ConnectionMemory).of \notin {"pool", "none"}
          /\ From(o, RequestMemory) \in Memory
          /\ From(o, RequestMemory).of \notin {"pool", "none"}
      BY <1>1, <2>1, MemoryTypes
    <2>3. CASE GiveServer(o)
      BY <1>1, <2>2, <2>3, MakeKeeps DEF GiveServer, Kind
    <2>4. CASE GiveConnection(o)
      BY <1>1, <2>2, <2>4, MakeKeeps DEF GiveConnection, Kind
    <2>5. CASE GiveRequest(o)
      BY <1>1, <2>2, <2>5, MakeKeeps DEF GiveRequest, Kind
    <2>6. CASE GiveTable(o)
      BY <1>1, <2>2, <2>6, MakeKeeps DEF GiveTable, Kind
    <2>7. CASE GiveLanguages(o)
      BY <1>1, <2>2, <2>7, MakeKeeps DEF GiveLanguages, Kind
    <2>8. CASE GiveFinfo(o)
      BY <1>1, <2>2, <2>8, MakeKeeps DEF GiveFinfo, Kind
    <2> QED BY <1>2, <2>3, <2>4, <2>5, <2>6, <2>7, <2>8 DEF RequestGives
  <1>3. CASE ServerGives(o)
    <2>1. /\ From(o, ProcessMemory) \in Memory
          /\ From(o, ProcessMemory).of \notin {"pool", "none"}
      BY <1>1, <1>3, FromApache, MemoryTypes DEF ServerGives
    <2>2. CASE GiveNamesOrNext(o)
      <3>1. PICK kind \in {"array", "server"} : Make(kind, From(o, ProcessMemory), {})
        BY <2>2 DEF GiveNamesOrNext
      <3> QED BY <1>1, <2>1, <3>1, MakeKeeps DEF Kind
    <2>3. CASE GiveProcess(o)
      BY <1>1, <2>1, <2>3, MakeKeeps DEF GiveProcess, Kind
    <2> QED BY <1>3, <2>2, <2>3 DEF ServerGives
  <1> QED BY <1>2, <1>3

LEMMA NewTableKeeps ==
    ASSUME WrapperInv, NEW p \in Object, NewTable(p)
    PROVE  WrapperInv'
  <1>1. TypeOK /\ p \in Nat /\ {p} \in SUBSET held
    BY ObjectTypes DEF WrapperInv, NewTable
  <1>2. PoolMemory(p) \in Memory /\ PoolMemory(p).of = "pool" /\ PoolMemory(p).n = p
    BY <1>1, MemoryTypes
  <1> QED BY <1>1, <1>2, MakeKeeps DEF NewTable, Kind

LEMMA NewFileInfoKeeps ==
    ASSUME WrapperInv, NEW p \in Object, NewFileInfo(p)
    PROVE  WrapperInv'
  <1>1. TypeOK /\ p \in Nat /\ {p} \in SUBSET held /\ Is(p, "pool")
    BY ObjectTypes DEF WrapperInv, NewFileInfo
  <1>2. PoolMemory(p) \in Memory /\ PoolMemory(p).of = "pool" /\ PoolMemory(p).n = p
    BY <1>1, MemoryTypes
  <1> QED BY <1>1, <1>2, MakeKeeps DEF NewFileInfo, Kind

(* Nobody gets hold of the object of a constructor that raises.            *)
LEMMA NewFileInfoRaisesKeeps ==
    ASSUME WrapperInv, NEW p \in Object, NewFileInfoRaises(p)
    PROVE  WrapperInv'
  <1> DEFINE w == Wrapper("file_info", NoMemory, {})
  <1>1. TypeOK
    BY DEF WrapperInv
  <1>2. w \in Wrappers
    BY <1>1, MemoryTypes DEF Wrapper, Wrappers, Kind
  <1>3. /\ w.kind = "file_info" /\ w.memory.of = "none" /\ w.refs = {}
        /\ objects' = Append(objects, w)
        /\ held' = held \union {}
        /\ pools' = pools
    BY DEF NewFileInfoRaises, Wrapper, NoMemory
  <1>4. /\ (request \in 0..MaxRequests)'
        /\ (serving \in BOOLEAN)'
        /\ (connection \in Nat)'
    BY <1>1 DEF NewFileInfoRaises, apache, TypeOK
  <1> HIDE DEF w
  <1> QED BY <1>2, <1>3, <1>4, OneMoreKeeps

LEMMA BeginRequestKeeps ==
    ASSUME WrapperInv, BeginRequest
    PROVE  WrapperInv'
  <1> DEFINE memory == [of |-> "request", n |-> request']
             w == Wrapper("request", memory, {})
  <1>1. TypeOK /\ request' \in 0..MaxRequests /\ connection' \in Nat /\ serving' \in BOOLEAN
    BY BoundsAreNats DEF WrapperInv, TypeOK, BeginRequest
  <1>2. memory \in Memory
    BY <1>1, BoundsAreNats DEF Memory
  <1>3. w \in Wrappers
    BY <1>2 DEF Wrapper, Wrappers, Kind
  <1>4. /\ w.kind = "request" /\ w.memory.of = "request" /\ w.refs = {}
        /\ objects' = Append(objects, w)
        /\ held' = held \union {NewObject}
        /\ pools' = pools
    BY DEF Wrapper, BeginRequest
  <1> HIDE DEF w
  <1> QED BY <1>1, <1>3, <1>4, OneMoreKeeps

LEMMA NewPoolKeeps ==
    ASSUME WrapperInv, NewPool
    PROVE  WrapperInv'
  <1> DEFINE w == Wrapper("pool", PoolMemory(NewObject), {})
  <1>1. TypeOK /\ NewObject \in Nat
    BY ObjectTypes DEF WrapperInv, NewObject
  <1>2. /\ PoolMemory(NewObject) \in Memory
        /\ PoolMemory(NewObject).of = "pool" /\ PoolMemory(NewObject).n = NewObject
    BY <1>1, MemoryTypes
  <1>3. w \in Wrappers
    BY <1>2 DEF Wrapper, Wrappers, Kind
  <1>4. /\ w.kind = "pool" /\ w.memory.of = "pool" /\ w.memory.n = NewObject /\ w.refs = {}
        /\ objects' = Append(objects, w)
        /\ held' = held \union {NewObject}
        /\ pools' = pools \union {NewObject}
    BY <1>2 DEF Wrapper, NewPool
  <1>5. /\ (request \in 0..MaxRequests)'
        /\ (serving \in BOOLEAN)'
        /\ (connection \in Nat)'
    BY <1>1 DEF NewPool, apache, TypeOK
  <1> HIDE DEF w
  <1> QED BY <1>3, <1>4, <1>5, OneMoreKeeps

(* stat makes a Pool and what refers to it in one step.                    *)
LEMMA StatKeeps ==
    ASSUME WrapperInv, Stat
    PROVE  WrapperInv'
  <1> SUFFICES ASSUME NEW n, n = NewObject PROVE WrapperInv'
    OBVIOUS
  <1> DEFINE pool == Wrapper("pool", PoolMemory(n), {})
             info == Wrapper("file_info", PoolMemory(n), {n})
  <1>1. /\ TypeOK /\ objects \in Seq(Wrappers \union {NULL})
        /\ Object = 1..Len(objects) /\ Len(objects) \in Nat
        /\ n = Len(objects) + 1
    BY ObjectTypes DEF WrapperInv, TypeOK, NewObject
  <1>2. n \in Nat /\ n + 1 \in Nat
    BY <1>1
  <1>3. PoolMemory(n) \in Memory /\ PoolMemory(n).of = "pool" /\ PoolMemory(n).n = n
    BY <1>1, <1>2, MemoryTypes
  <1>4. /\ pool \in Wrappers /\ pool.kind = "pool" /\ pool.refs = {}
        /\ pool.memory.of = "pool" /\ pool.memory.n = n
        /\ info \in Wrappers /\ info.kind = "file_info" /\ info.refs = {n}
        /\ info.memory.of = "pool" /\ info.memory.n = n
    BY <1>2, <1>3 DEF Wrapper, Wrappers, Kind
  <1>5. /\ objects' = objects \o <<pool, info>>
        /\ held' = held \union {n + 1}
        /\ pools' = pools \union {n}
        /\ UNCHANGED apache
    BY DEF Stat
  <1> HIDE DEF pool, info
  <1>6. /\ <<pool, info>> \in Seq(Wrappers \union {NULL})
        /\ Len(<<pool, info>>) = 2
        /\ <<pool, info>>[1] = pool /\ <<pool, info>>[2] = info
    BY <1>4
  <1>7. /\ objects' \in Seq(Wrappers \union {NULL})
        /\ Len(objects') = n + 1
        /\ \A o \in 1..n + 1 : objects'[o] = IF o <= Len(objects) THEN objects[o]
                                             ELSE <<pool, info>>[o - Len(objects)]
    BY <1>1, <1>5, <1>6, ConcatProperties
  <1>8. Object' = 1..n + 1
    BY <1>7, LenProperties DEF Object
  <1>9. /\ Object' \ Object = {n, n + 1} /\ Object \subseteq Object'
        /\ \A o \in Object : objects'[o] = objects[o]
    BY <1>1, <1>7, <1>8
  <1>10. objects'[n] = pool /\ objects'[n + 1] = info
    <2>1. n - Len(objects) = 1 /\ n + 1 - Len(objects) = 2
      BY <1>1
    <2> QED BY <1>1, <1>2, <1>6, <1>7, <2>1
  <1>11. ASSUME NEW o \in {n, n + 1}
         PROVE  objects'[o] \in Wrappers /\ objects'[o].refs \subseteq 1..o - 1 /\ Rooted(o)'
    <2>1. Is(n, "pool")'
      BY <1>4, <1>10, NullIsNothing DEF Is, Exists
    <2>2. CASE o = n
      BY <1>4, <1>10, <2>1, <2>2 DEF Rooted
    <2>3. CASE o = n + 1
      <3>1. Refs(o)' = {n} /\ n \in 1..o - 1
        BY <1>1, <1>4, <1>10, <2>3, NullIsNothing DEF Refs, Exists
      <3> QED BY <1>4, <1>10, <2>1, <2>3, <3>1 DEF Rooted
    <2> QED BY <1>11, <2>2, <2>3
  <1>12. pools' = pools \union {o \in Object' \ Object : objects'[o].kind = "pool"}
    <2>1. \A o \in {n, n + 1} : objects'[o].kind = "pool" <=> o = n
      BY <1>4, <1>10
    <2> QED BY <1>5, <1>9, <2>1
  <1>13. \A o \in {n, n + 1} : /\ objects'[o].refs \subseteq held \union {n, n + 1}
                               /\ objects'[o].memory.of # "none"
    BY <1>4, <1>10
  <1>14. held' \subseteq held \union {n, n + 1}
    BY <1>5
  <1>15. /\ (request \in 0..MaxRequests)'
         /\ (serving \in BOOLEAN)'
         /\ (connection \in Nat)'
    BY <1>1, <1>5 DEF apache, TypeOK
  <1>16. {n, n + 1} \subseteq Object' \ Object
    BY <1>9
  <1> QED BY <1>7, <1>9, <1>11, <1>12, <1>13, <1>14, <1>15, <1>16, MakingKeeps

(* What goes is what nobody reaches.                                       *)
LEMMA CollectKeeps ==
    ASSUME WrapperInv, NEW o \in Object, Collect(o)
    PROVE  WrapperInv'
  <1>1. TypeOK /\ Object = 1..Len(objects) /\ Len(objects) \in Nat
    BY ObjectTypes DEF WrapperInv
  <1>2. objects' = [objects EXCEPT ![o] = NULL] /\ objects \in Seq(Wrappers \union {NULL})
    BY <1>1 DEF Collect, TypeOK
  <1>3. /\ objects' \in Seq(Wrappers \union {NULL})
        /\ Len(objects') = Len(objects)
        /\ \A x \in Object : objects'[x] = IF x = o THEN NULL ELSE objects[x]
    BY <1>1, <1>2, ExceptSeq
  <1>4. Object' = Object
    BY <1>1, <1>3, LenProperties DEF Object
  <1>5. \A x \in Object :
           objects'[x] = objects[x] \/ (x \notin Reachable /\ ~ Exists(x)')
    BY <1>3 DEF Collect, Exists
  <1>6. pools' = {x \in pools : Exists(x)'}
    BY <1>1, <1>3 DEF Collect, TypeOK, Exists, Is
  <1>7. /\ held' \subseteq held
        /\ (request \in 0..MaxRequests)'
        /\ (serving \in BOOLEAN)'
        /\ (connection \in Nat)'
    BY <1>1 DEF Collect, apache, TypeOK
  <1> QED BY <1>3, <1>4, <1>5, <1>6, <1>7, LosingKeeps

(* Steps that leave the objects as they are.                               *)
LEMMA ForgettingKeeps ==
    ASSUME WrapperInv,
           UNCHANGED <<objects, pools>>, held' \subseteq held,
           (request \in 0..MaxRequests)',
           (serving \in BOOLEAN)',
           (connection \in Nat)'
    PROVE  WrapperInv'
  <1>1. objects' \in Seq(Wrappers \union {NULL}) /\ Object' = Object
    BY DEF WrapperInv, TypeOK, Object
  <1>2. pools' = {o \in pools : Exists(o)'}
    BY DEF WrapperInv, TypeOK, Is, Exists
  <1>3. \A o \in Object : objects'[o] = objects[o]
    OBVIOUS
  <1> QED BY <1>1, <1>2, <1>3, LosingKeeps

LEMMA EmptyKeeps == Init => WrapperInv
  <1> SUFFICES ASSUME Init PROVE WrapperInv
    OBVIOUS
  <1>1. Object = {} /\ objects \in Seq(Wrappers \union {NULL})
    BY DEF Init, Object
  <1>2. request \in 0..MaxRequests /\ serving \in BOOLEAN /\ connection \in Nat
    <2>1. MaxRequests \in Nat
      BY BoundsAreNats
    <2>2. 0 \in 0..MaxRequests /\ 0 \in Nat
      BY <2>1
    <2> QED BY <2>2 DEF Init
  <1>3. TypeOK
    BY <1>1, <1>2 DEF Init, TypeOK
  <1> QED BY <1>1, <1>3 DEF WrapperInv, Reachable

LEMMA EmptyAgain == Init' => WrapperInv'
  BY EmptyKeeps, PTL

---------------------------------------------------------------------------

LEMMA StepKeeps ==
    ASSUME WrapperInv, [Next]_vars
    PROVE  WrapperInv'
  <1>1. TypeOK
    BY DEF WrapperInv
  <1>2. CASE BeginRequest
    BY <1>2, BeginRequestKeeps
  <1>3. CASE EndRequest
    BY <1>1, <1>3, ForgettingKeeps DEF EndRequest, TypeOK
  <1>4. CASE NewPool
    BY <1>4, NewPoolKeeps
  <1>5. CASE Stat
    BY <1>5, StatKeeps
  <1>6. ASSUME NEW o \in Object, RequestGives(o) \/ ServerGives(o) PROVE WrapperInv'
    BY <1>6, GivingKeeps
  <1>7. ASSUME NEW o \in Object, NewTable(o) \/ NewFileInfo(o) \/ NewFileInfoRaises(o)
        PROVE  WrapperInv'
    BY <1>7, NewTableKeeps, NewFileInfoKeeps, NewFileInfoRaisesKeeps
  <1>8. ASSUME NEW o \in Object, Forget(o) PROVE WrapperInv'
    BY <1>1, <1>8, ForgettingKeeps DEF Forget, apache, TypeOK
  <1>9. ASSUME NEW o \in Object, Collect(o) PROVE WrapperInv'
    BY <1>9, CollectKeeps
  <1>10. CASE NewChild
    BY <1>10, EmptyAgain DEF NewChild, Init
  <1>11. CASE UNCHANGED vars
    BY <1>1, <1>11, ForgettingKeeps DEF vars, apache, TypeOK
  <1> QED BY <1>2, <1>3, <1>4, <1>5, <1>6, <1>7, <1>8, <1>9, <1>10, <1>11 DEF Next

(* A Pool's memory is there as long as the object, an object that is       *)
(* reachable exists, and who points into a Pool's memory refers to it.     *)
THEOREM WrappersInvariant == Spec => []WrapperInv
  <1>1. Init => WrapperInv
    BY EmptyKeeps
  <1>2. WrapperInv /\ [Next]_vars => WrapperInv'
    BY StepKeeps
  <1> QED BY <1>1, <1>2, PTL DEF Spec

(* Objects, references and pools keep their types.                         *)
THEOREM WrapperTypes == Spec => []TypeOK
  <1>1. WrapperInv => TypeOK
    BY DEF WrapperInv
  <1> QED BY <1>1, WrappersInvariant, PTL

(* No order of forgetting and collecting takes memory from under an object *)
(* that Ruby code can reach.                                               *)
THEOREM ReachableStaysLive == Spec => []ReachableIsLive
  <1>1. ASSUME WrapperInv, NEW o \in Reachable
        PROVE  /\ Exists(o)
               /\ \/ Live(objects[o].memory)
                  \/ objects[o].memory.of \in {"request", "connection"}
    <2>1. /\ TypeOK /\ o \in Object /\ Exists(o) /\ Rooted(o)
          /\ objects[o].memory.of # "none"
          /\ objects[o] \in Wrappers
      BY <1>1, ReachableIsClosed, ObjectTypes DEF WrapperInv
    <2>2. CASE objects[o].memory.of = "pool"
      <3> DEFINE p == objects[o].memory.n
      <3>1. p \in Reachable /\ (Exists(p) => Is(p, "pool"))
        BY <2>1, <2>2, ReachableIsClosed DEF Rooted, Closed
      <3>2. p \in Object /\ Exists(p)
        BY <1>1, <2>1, <3>1, ReachableIsClosed DEF WrapperInv
      <3>3. p \in pools
        BY <2>1, <3>1, <3>2 DEF TypeOK
      <3> QED BY <2>1, <2>2, <3>3 DEF Live
    <2>3. CASE objects[o].memory.of = "process"
      BY <2>1, <2>3 DEF Live
    <2> QED BY <2>1, <2>2, <2>3 DEF Wrappers, Memory
  <1>2. WrapperInv => ReachableIsLive
    BY <1>1 DEF ReachableIsLive
  <1> QED BY <1>2, WrappersInvariant, PTL

===========================================================================
