----------------------------- MODULE Wrappers -----------------------------
(***************************************************************************)
(* The Ruby objects the module makes over C structures                     *)
(* (src/src/ruby_request.cpp, ruby_server.cpp, ruby_connection.cpp,        *)
(* ruby_process.cpp, ruby_apr_*.cpp): which memory each points into, when  *)
(* that memory goes, and what an object refers to so that the collector    *)
(* leaves it alone.  Apache's memory goes with its request or connection;  *)
(* that of an APR::Pool goes when the collector takes the Pool.  Ruby code *)
(* is the environment: it calls the objects it holds, and forgets them.    *)
(***************************************************************************)
EXTENDS Naturals, Sequences, SequencesExt

CONSTANTS
    NULL,
    MaxObjects,   \* bound: objects made
    MaxRequests   \* bound: requests served

ASSUME BoundsAreNats == {MaxObjects, MaxRequests} \subseteq Nat

VARIABLES
    objects,     \* the objects made; NULL where one was collected
    held,        \* those Ruby code has in its variables
    pools,       \* the Pools whose memory was not destroyed
    request,     \* the request being served, or the last
    serving,     \* a request is being served
    connection   \* the connection it came on

vars == <<objects, held, pools, request, serving, connection>>
apache == <<request, serving, connection>>

Kind == {"request", "server", "connection", "process",
         "table", "array", "pool", "file_info"}

(* Where memory is from: a request's, a connection's or a Pool's, by       *)
(* number; the process's; or "none", the pointer nobody has set.           *)
Memory == [of : {"process", "connection", "request", "pool", "none"}, n : Nat]
ProcessMemory == [of |-> "process", n |-> 0]
RequestMemory == [of |-> "request", n |-> request]
ConnectionMemory == [of |-> "connection", n |-> connection]
PoolMemory(p) == [of |-> "pool", n |-> p]
NoMemory == [of |-> "none", n |-> 0]

Wrappers == [kind : Kind, memory : Memory, refs : SUBSET Nat]
ASSUME NullIsNothing == NULL \notin Wrappers

Object == DOMAIN objects
Exists(o) == objects[o] # NULL
Refs(o) == IF Exists(o) THEN objects[o].refs ELSE {}
Is(o, kind) == Exists(o) /\ objects[o].kind = kind

(* What the collector finds from the variables of Ruby code.               *)
Closed(S) == \A o \in S \intersect Object : Refs(o) \subseteq S
Reachable ==
    {o \in Object : \A S \in SUBSET Object : held \subseteq S /\ Closed(S) => o \in S}

Init ==
    /\ objects = <<>>
    /\ held = {}
    /\ pools = {}
    /\ request = 0
    /\ serving = FALSE
    /\ connection = 0

---------------------------------------------------------------------------
(* Data_Wrap_Struct: the object is returned to Ruby.                       *)

NewObject == Len(objects) + 1
Wrapper(kind, memory, refs) == [kind |-> kind, memory |-> memory, refs |-> refs]

Make(kind, memory, refs) ==
    /\ NewObject <= MaxObjects
    /\ objects' = Append(objects, Wrapper(kind, memory, refs))
    /\ held' = held \union {NewObject}
    /\ UNCHANGED <<pools, apache>>

(* A hook makes the wrapper its handler is called with, on a connection    *)
(* that is kept alive or a new one.                                        *)
BeginRequest ==
    /\ ~ serving /\ request < MaxRequests
    /\ NewObject <= MaxObjects
    /\ serving' = TRUE
    /\ request' = request + 1
    /\ connection' \in {connection, connection + 1} \ {0}
    /\ objects' = Append(objects, Wrapper("request", [of |-> "request", n |-> request'], {}))
    /\ held' = held \union {NewObject}
    /\ UNCHANGED pools

(* The memory of the request goes, and what Ruby code keeps stays.         *)
EndRequest ==
    /\ serving
    /\ serving' = FALSE
    /\ held' \in SUBSET held
    /\ UNCHANGED <<objects, pools, request, connection>>

Live(memory) ==
    CASE memory.of = "process"    -> TRUE
      [] memory.of = "connection" -> memory.n = connection
      [] memory.of = "request"    -> serving /\ memory.n = request
      [] memory.of = "pool"       -> memory.n \in pools
      [] memory.of = "none"       -> FALSE

(* A pointer read from an object: nobody asks whether its own memory is    *)
(* still there, and what is read from memory that went is no better.       *)
From(o, memory) ==
    IF Live(objects[o].memory) THEN memory ELSE objects[o].memory

(* What the methods of a request and of a server return.                   *)
GiveServer(o) == Make("server", From(o, ProcessMemory), {o})
GiveConnection(o) == Make("connection", From(o, ConnectionMemory), {o})
GiveRequest(o) == Make("request", From(o, RequestMemory), {})
GiveTable(o) == Make("table", From(o, RequestMemory), {})
GiveLanguages(o) == Make("array", From(o, RequestMemory), {})
GiveFinfo(o) == Make("file_info", From(o, RequestMemory), {})
GiveProcess(o) == Make("process", From(o, ProcessMemory), {o})
GiveNamesOrNext(o) ==
    \E kind \in {"array", "server"} : Make(kind, From(o, ProcessMemory), {})

(* server; connection; prev, main and next; headers, notes, params and     *)
(* queries; content_languages; finfo.                                      *)
RequestGives(o) ==
    /\ o \in held /\ Is(o, "request")
    /\ \/ GiveServer(o) \/ GiveConnection(o) \/ GiveRequest(o)
       \/ GiveTable(o) \/ GiveLanguages(o) \/ GiveFinfo(o)

(* next, names and wild_names; process.                                    *)
ServerGives(o) ==
    /\ o \in held /\ Is(o, "server")
    /\ GiveNamesOrNext(o) \/ GiveProcess(o)

---------------------------------------------------------------------------
(* Memory of Ruby code's own.                                              *)

NewPool ==
    /\ NewObject <= MaxObjects
    /\ objects' = Append(objects, Wrapper("pool", PoolMemory(NewObject), {}))
    /\ held' = held \union {NewObject}
    /\ pools' = pools \union {NewObject}
    /\ UNCHANGED apache

(* Mistake: the table does not refer to its Pool.                          *)
NewTableAlone(p) ==
    /\ p \in held /\ Is(p, "pool")
    /\ Make("table", PoolMemory(p), {})

(* Table.new(pool)                                                         *)
NewTable(p) ==
    /\ p \in held /\ Is(p, "pool")
    /\ Make("table", PoolMemory(p), {p})

(* FileInfo.new(path, pool).  "initialize" is registered with two of its   *)
(* three arguments, so that the third is what the stack held: it passes    *)
(* for a number, or raises, and the object stays as malloc left it.        *)
NewFileInfo(p) ==
    /\ p \in held /\ Is(p, "pool")
    /\ Make("file_info", PoolMemory(p), {p})

NewFileInfoRaises(p) ==
    /\ p \in held /\ Is(p, "pool")
    /\ NewObject <= MaxObjects
    /\ objects' = Append(objects, Wrapper("file_info", NoMemory, {}))
    /\ UNCHANGED <<held, pools, apache>>

(* APR.stat(path), in a Pool of its own that Ruby code does not see.       *)
Stat ==
    /\ NewObject + 1 <= MaxObjects
    /\ objects' = objects \o <<Wrapper("pool", PoolMemory(NewObject), {}),
                               Wrapper("file_info", PoolMemory(NewObject), {NewObject})>>
    /\ held' = held \union {NewObject + 1}
    /\ pools' = pools \union {NewObject}
    /\ UNCHANGED apache

Forget(o) ==
    /\ held' = held \ {o}
    /\ o \in held
    /\ UNCHANGED <<objects, pools, apache>>

(* Mistake: the deallocator of a Pool leaves its memory.                   *)
CollectOnly(o) ==
    /\ Exists(o) /\ o \notin Reachable
    /\ objects' = [objects EXCEPT ![o] = NULL]
    /\ UNCHANGED <<held, pools, apache>>

(* The collector takes objects one by one, whenever it runs.  A Pool's     *)
(* deallocator destroys its memory; the others free a C++ object each.     *)
Collect(o) ==
    /\ Exists(o) /\ o \notin Reachable
    /\ objects' = [objects EXCEPT ![o] = NULL]
    /\ pools' = pools \ {o}
    /\ UNCHANGED <<held, apache>>

(* The child crashes, as it may when the collector frees the pointer of a  *)
(* half-made file_info or when Ruby code calls an object whose memory is   *)
(* gone, or is replaced.                                                   *)
NewChild ==
    /\ objects' = <<>> /\ held' = {} /\ pools' = {}
    /\ request' = 0 /\ serving' = FALSE /\ connection' = 0

Next ==
    \/ BeginRequest \/ EndRequest
    \/ NewPool \/ Stat
    \/ \E o \in Object :
          \/ RequestGives(o) \/ ServerGives(o)
          \/ NewTable(o) \/ NewFileInfo(o) \/ NewFileInfoRaises(o)
          \/ Forget(o) \/ Collect(o)
    \/ NewChild

Spec == Init /\ [][Next]_vars

---------------------------------------------------------------------------

(* Objects refer to older ones; Ruby code holds none that was collected;   *)
(* and the memory of a Pool is there as long as its object.                *)
TypeOK ==
    /\ objects \in Seq(Wrappers \union {NULL})
    /\ \A o \in Object : Refs(o) \subseteq 1..o - 1
    /\ held \subseteq {o \in Object : Exists(o)}
    /\ pools = {o \in Object : Is(o, "pool")}
    /\ request \in 0..MaxRequests
    /\ serving \in BOOLEAN
    /\ connection \in Nat

(* Memory never goes while Ruby code can get at an object that points      *)
(* there, in whatever order it forgets objects and the collector takes     *)
(* them; unless it kept the object longer than its request or connection   *)
(* (ruby_apr_table.cpp:97, ruby_apr_file_info.cpp:151,                     *)
(* ruby_request.cpp:309, 439).                                             *)
ReachableIsLive ==
    \A o \in Reachable :
        /\ Exists(o)
        /\ Live(objects[o].memory) \/ objects[o].memory.of \in {"request", "connection"}

(* The inductive invariant behind both: who points into a Pool's memory is *)
(* the Pool or refers to it, Apache's objects never do, and nobody gets    *)
(* hold of a half-made object.                                             *)
Rooted(o) ==
    LET m == objects[o].memory
    IN  /\ m.of = "pool" => \/ m.n = o /\ Is(o, "pool")
                            \/ m.n \in Refs(o) /\ (Exists(m.n) => Is(m.n, "pool"))
        /\ objects[o].kind \in {"request", "server"} => m.of \notin {"pool", "none"}

WrapperInv ==
    /\ TypeOK
    /\ \A o \in Object : Exists(o) => Rooted(o)
    /\ \A o \in Reachable : Exists(o) /\ objects[o].memory.of # "none"

===========================================================================
