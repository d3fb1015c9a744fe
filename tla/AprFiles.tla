----------------------------- MODULE AprFiles -----------------------------
(***************************************************************************)
(* What Ruby code does to files through the module (src/src/apr.cpp,       *)
(* src/src/ruby_apr.cpp, src/src/ruby_apr_file_info.cpp): removing a       *)
(* directory with all it holds, which takes a step for every entry while   *)
(* other processes use the same file system; making, copying, moving and   *)
(* removing paths; and a file_info, which keeps what stat said of a path   *)
(* and hashes the file of that path when it is asked to.  The names of     *)
(* entries and their permissions are left out.                             *)
(***************************************************************************)
EXTENDS Integers, Sequences, FiniteSets, SequencesExt

CONSTANTS
    NULL,
    Path,         \* the paths in use
    ParentOf,     \* the directory each is in; NULL for one that stays
    BLOCK, LENGTH, WORD,
    MaxEvents,    \* bound: what other processes and the collector do
    MaxHandles,   \* directories a child may have open
    MaxBytes      \* bound: bytes of a file that is hashed

ASSUME ParentsArePaths == ParentOf \in [Path -> Path \union {NULL}]
ASSUME NullIsNoPath == NULL \notin Path
ASSUME DirectoriesAreTrees ==
    \A S \in SUBSET Path : S # {} => \E p \in S : ParentOf[p] \notin S
ASSUME SizesFit ==
    /\ {BLOCK, LENGTH, WORD} \subseteq Nat \ {0}
    /\ LENGTH < BLOCK /\ WORD % (8 * BLOCK) = 0
ASSUME BoundsAreNats == {MaxEvents, MaxHandles, MaxBytes} \subseteq Nat

VARIABLES
    kind,        \* what each path names
    stack,       \* the calls of rmdir under way, the innermost last
    status,      \* apr_status, one for the whole process
    handles,     \* directories open
    events,      \* events counted by MaxEvents
    info,        \* the file_info a script holds, or NULL
    hashing,     \* the md5 under way, or NULL
    digest       \* what md5 said last: the digest of how many bytes, and its
                 \* blocks, or NULL

vars == <<kind, stack, status, handles, events, info, hashing, digest>>

M == INSTANCE Md5

Kind == {"none", "file", "dir"}
Status == {"ok", "error"}
Children(p) == {c \in Path : ParentOf[c] = p}
Exists(p) == kind[p] # "none"
Present(p) == {c \in Children(p) : Exists(c)}
HasPlace(p) == ParentOf[p] # NULL => kind[ParentOf[p]] = "dir"

(* A call of rmdir: the directory it opened, the entries there then and    *)
(* not read since, those it read, whether one was a directory, and whether *)
(* it has closed the directory; "before" is the number of handles before.  *)
Frame == [path : Path, due : SUBSET Path, seen : SUBSET Path,
          recursed : BOOLEAN, closed : BOOLEAN, before : 0..MaxHandles]
(* fname is the path, or NULL when stat failed; its memory is Ruby's.      *)
Info == [path : Path \union {NULL}, stale : BOOLEAN]

Init ==
    /\ kind \in [Path -> Kind]
    /\ \A p \in Path : Exists(p) => HasPlace(p)
    /\ stack = <<>>
    /\ status = "ok"
    /\ handles = 0
    /\ events = 0
    /\ info = NULL
    /\ hashing = NULL
    /\ digest = NULL

Idle == stack = <<>> /\ hashing = NULL
OnlyFiles == UNCHANGED <<stack, handles, events, info, hashing, digest>>

---------------------------------------------------------------------------
(* rmdir                                                                   *)

(* apr_dir_open of a path: the directory's handle stays open until         *)
(* apr_dir_close.                                                          *)
Opened(p) == [path |-> p, due |-> Present(p), seen |-> {}, recursed |-> FALSE,
              closed |-> FALSE, before |-> handles]

Opens(p) == kind[p] = "dir" /\ handles < MaxHandles

CallRmdir(p) ==
    /\ Idle
    /\ IF Opens(p)
       THEN stack' = <<Opened(p)>> /\ handles' = handles + 1 /\ status' = "ok"
       ELSE status' = "error" /\ UNCHANGED <<stack, handles>>
    /\ digest' = NULL
    /\ UNCHANGED <<kind, events, info, hashing>>

Top == Last(stack)
Outer == Front(stack)
Here(frame) == Append(Outer, frame)

(* A recursive call that returns 0 makes its caller return, and that its   *)
(* own: "false" is what rmdir returns for success.                         *)
Returned(ok) == IF ok THEN <<>> ELSE Outer

Return(ok) ==
    /\ status' = IF ok THEN "ok" ELSE "error"
    /\ stack' = Returned(ok)

(* apr_dir_read: an entry that was there at the start, though it may be    *)
(* gone, or one that came since.                                           *)
Reading == stack # <<>> /\ ~ Top.closed
Readable == (Top.due \union Present(Top.path)) \ Top.seen
Read(c) == [Top EXCEPT !.due = @ \ {c}, !.seen = @ \union {c}]

(* The path made of an entry is in memory that was freed, and is what a    *)
(* recursive call was given: each time it is used it names what it named,  *)
(* or what was written there since, another path or none.                  *)
Named == Path \union {NULL}

(* Mistake: only directories are looked at.                                *)
RemoveNothing(c, q) ==
    /\ Reading /\ c \in Readable
    /\ kind[c] # "dir"
    /\ stack' = Here(Read(c)) /\ status' = "ok"
    /\ UNCHANGED <<kind, handles, events, info, hashing, digest>>

(* An entry c that is no directory is removed as q, or the call returns.   *)
RemoveEntry(c, q) ==
    /\ Reading /\ c \in Readable
    /\ kind[c] # "dir"
    /\ IF q # NULL /\ kind[q] = "file"
       THEN /\ kind' = [kind EXCEPT ![q] = "none"]
            /\ stack' = Here(Read(c))
            /\ status' = "ok"
       ELSE Return(FALSE) /\ UNCHANGED kind
    /\ UNCHANGED <<handles, events, info, hashing, digest>>

(* An entry c that is a directory is removed by a recursive call, given q; *)
(* one that fails leaves the loop going.                                   *)
EnterEntry(c, q) ==
    /\ Reading /\ c \in Readable
    /\ kind[c] = "dir"
    /\ LET here == Here([Read(c) EXCEPT !.recursed = TRUE])
       IN  IF q # NULL /\ Opens(q)
           THEN /\ stack' = Append(here, Opened(q))
                /\ handles' = handles + 1
           ELSE stack' = here /\ UNCHANGED handles
    /\ status' = "ok"
    /\ UNCHANGED <<kind, events, info, hashing, digest>>

(* apr_dir_read fails: the call returns and leaves the directory open.     *)
FailRead ==
    /\ Reading
    /\ Return(FALSE)
    /\ UNCHANGED <<kind, handles, events, info, hashing, digest>>

(* Nothing is left to read.                                                *)
CloseDir ==
    /\ Reading
    /\ \A c \in Top.due : ~ Exists(c)
    /\ handles' = handles - 1
    /\ stack' = Here([Top EXCEPT !.closed = TRUE])
    /\ status' = "ok"
    /\ UNCHANGED <<kind, events, info, hashing, digest>>

(* Ruby's own path, of the outermost call, stays as it is.                 *)
Removable == IF Len(stack) = 1 THEN {Top.path} ELSE Named

(* Mistake: what apr_dir_remove returns is dropped.                        *)
RemoveDirAnyway(q) ==
    /\ stack # <<>> /\ Top.closed /\ q \in Removable
    /\ kind' = IF q # NULL /\ kind[q] = "dir" /\ Present(q) = {}
               THEN [kind EXCEPT ![q] = "none"] ELSE kind
    /\ Return(TRUE)
    /\ UNCHANGED <<handles, events, info, hashing, digest>>

(* The directory is removed as q, when that is one and empty.              *)
RemoveDir(q) ==
    /\ stack # <<>> /\ Top.closed /\ q \in Removable
    /\ LET empty == q # NULL /\ kind[q] = "dir" /\ Present(q) = {}
       IN  /\ kind' = IF empty THEN [kind EXCEPT ![q] = "none"] ELSE kind
           /\ Return(empty)
    /\ UNCHANGED <<handles, events, info, hashing, digest>>

StepRmdir ==
    \/ \E c \in Path, q \in Named : RemoveEntry(c, q) \/ EnterEntry(c, q)
    \/ FailRead \/ CloseDir
    \/ \E q \in Named : RemoveDir(q)

---------------------------------------------------------------------------
(* The other calls are one step.  rm, mv and mkdir return 0 for success,   *)
(* cp 1; status is that of mkdir, rmdir and cp.                            *)

Rm(p) ==
    /\ Idle
    /\ kind[p] = "file"
    /\ kind' = [kind EXCEPT ![p] = "none"]
    /\ UNCHANGED status /\ OnlyFiles

Mv(p, q) ==
    /\ Idle /\ p # q
    /\ kind[p] = "file" /\ kind[q] # "dir" /\ HasPlace(q)
    /\ kind' = [kind EXCEPT ![p] = "none", ![q] = "file"]
    /\ UNCHANGED status /\ OnlyFiles

Cp(p, q) ==
    /\ Idle /\ p # q
    /\ LET copies == kind[p] = "file" /\ kind[q] # "dir" /\ HasPlace(q)
       IN  /\ kind' = IF copies THEN [kind EXCEPT ![q] = "file"] ELSE kind
           /\ status' = IF copies THEN "ok" ELSE "error"
    /\ OnlyFiles

(* A path and the directories above it.                                    *)
AboveOf[q \in Path \union {NULL}] ==
    IF q = NULL THEN {} ELSE {q} \union AboveOf[ParentOf[q]]
Above(p) == AboveOf[p]

(* mkdir makes the directories above as well; a path that exists is well.  *)
Mkdir(p) ==
    /\ Idle
    /\ LET blocked == \E q \in Above(ParentOf[p]) : kind[q] = "file"
       IN  /\ kind' = IF blocked \/ Exists(p) THEN kind
                      ELSE [q \in Path |-> IF q \in Above(p) THEN "dir"
                                           ELSE kind[q]]
           /\ status' = IF blocked THEN "error" ELSE "ok"
    /\ OnlyFiles

(* Other processes make and remove files and directories.                  *)
Other ==
    /\ events < MaxEvents
    /\ events' = events + 1
    /\ \E p \in Path, k \in Kind :
          /\ k # kind[p]
          /\ IF k = "none" THEN Present(p) = {}
             ELSE ~ Exists(p) /\ HasPlace(p)
          /\ kind' = [kind EXCEPT ![p] = k]
    /\ UNCHANGED <<stack, status, handles, info, hashing, digest>>

---------------------------------------------------------------------------
(* file_info and its digest                                                *)

(* m_stat: the structure keeps a pointer to the path's own text.           *)
Stat(p) ==
    /\ Idle
    /\ info' = [path |-> IF Exists(p) THEN p ELSE NULL, stale |-> FALSE]
    /\ digest' = NULL
    /\ UNCHANGED <<kind, stack, status, handles, events, hashing>>

(* Ruby collects the string the path came from, or changes it.             *)
PathGoes ==
    /\ Idle /\ info # NULL /\ events < MaxEvents
    /\ events' = events + 1
    /\ info' = [info EXCEPT !.stale = TRUE]
    /\ UNCHANGED <<kind, stack, status, handles, hashing, digest>>

Garbage == [total |-> -1, blocks |-> <<>>]
Pointed == IF info.stale /\ info.path # NULL THEN Path ELSE {info.path}

(* md5(path), up to its loop.  A file that cannot be read leaves the       *)
(* result as the memory was; a directory can be opened but not read; a NULL *)
(* path crashes the child.                                                 *)
BeginMd5 ==
    /\ Idle /\ info # NULL
    /\ \E p \in Pointed \ {NULL} :
          IF kind[p] = "none"
          THEN digest' = Garbage /\ UNCHANGED hashing
          ELSE /\ hashing' = [context |-> M!Fresh, total |-> 0,
                              limit |-> IF kind[p] = "file" THEN MaxBytes ELSE 0]
               /\ digest' = NULL
    /\ UNCHANGED <<kind, stack, status, handles, events, info>>

(* fread and update.  A read is as long as its buffer, or ends where the   *)
(* file does; a file that grows has more, so reads have any length.        *)
HashChunk ==
    /\ hashing # NULL
    /\ \E n \in 1..hashing.limit - hashing.total :
          hashing' = [hashing EXCEPT
                         !.context = M!Update(@, [i \in 1..n |-> hashing.total + i]),
                         !.total = @ + n]
    /\ UNCHANGED <<kind, stack, status, handles, events, info, digest>>

EndMd5 ==
    /\ hashing # NULL
    /\ digest' = [total |-> hashing.total, blocks |-> M!Final(hashing.context)]
    /\ hashing' = NULL
    /\ UNCHANGED <<kind, stack, status, handles, events, info>>

(* The child crashes, as it does in md5 when stat had failed, or is killed *)
(* or replaced: what it had open is closed, a directory stays half removed.*)
NewChild ==
    /\ stack' = <<>> /\ status' = "ok" /\ handles' = 0
    /\ info' = NULL /\ hashing' = NULL /\ digest' = NULL
    /\ UNCHANGED <<kind, events>>

Next ==
    \/ \E p \in Path :
          \/ CallRmdir(p) \/ Rm(p) \/ Mkdir(p) \/ Stat(p)
          \/ \E q \in Path : Mv(p, q) \/ Cp(p, q)
    \/ StepRmdir
    \/ Other
    \/ PathGoes \/ BeginMd5 \/ HashChunk \/ EndMd5
    \/ NewChild

Spec == Init /\ [][Next]_vars

(* A call that began goes on, and a script that may call again does.       *)
FairSpec ==
    /\ Spec
    /\ WF_vars(StepRmdir) /\ WF_vars(EndMd5)
    /\ \A p \in Path : WF_vars(CallRmdir(p))

---------------------------------------------------------------------------

(* Paths are in directories, each call that has not closed its directory   *)
(* has a handle; the count of bits fits its words.                         *)
HeldOpen == IF stack # <<>> /\ Top.closed THEN Len(stack) - 1 ELSE Len(stack)
TypeOK ==
    /\ kind \in [Path -> Kind]
    /\ \A p \in Path : Exists(p) => HasPlace(p)
    /\ stack \in Seq(Frame)
    /\ status \in Status
    /\ handles \in HeldOpen..MaxHandles
    /\ events \in 0..MaxEvents
    /\ info \in Info \union {NULL}
    /\ hashing # NULL => /\ hashing.context.low \in 0..WORD - 1
                         /\ hashing.context.high \in 0..WORD - 1
                         /\ hashing.total \in 0..MaxBytes

(* The digest of a file is that of its padded bytes and of their number,   *)
(* however the reads cut them (md5.cpp:189-289).                           *)
DigestIsOfBytes ==
    digest \notin {NULL, Garbage} => digest.blocks = M!Padded(digest.total)

(* Success of a call that met no directory among the entries means that    *)
(* the directory and all it held are gone and no handle is left open,      *)
(* whatever others did meanwhile and whatever the freed paths of the files *)
(* named (apr.cpp:161-248).                                                *)
SuccessRemoves ==
    [][StepRmdir /\ stack' = <<>> /\ status' = "ok" /\ ~ stack[1].recursed
          => /\ \A p \in Path : stack[1].path \in Above(p) => kind'[p] = "none"
             /\ handles' = stack[1].before]_vars

(* The inductive invariant behind the three properties above: what a call  *)
(* has still to read lies in its directory, every call but the innermost   *)
(* has recursed and has its directory open, one that has not recursed has  *)
(* opened one, and the md5 under way has taken in the bytes read.          *)
CallsInv ==
    /\ \A n \in 1..Len(stack) : stack[n].due \subseteq Children(stack[n].path)
    /\ \A n \in 1..Len(stack) - 1 : stack[n].recursed /\ ~ stack[n].closed
    /\ stack # <<>> /\ ~ stack[1].recursed =>
          handles = stack[1].before + IF stack[1].closed THEN 0 ELSE 1

HashInv ==
    hashing # NULL =>
        /\ hashing \in [context : M!Context, total : 0..MaxBytes, limit : 0..MaxBytes]
        /\ hashing.total <= hashing.limit
        /\ M!Took(hashing.context, hashing.total)

FilesInv == TypeOK /\ CallsInv /\ HashInv /\ DigestIsOfBytes

(* A step of rmdir in which the freed path still names what it named.      *)
StepRmdirNamed ==
    \/ \E c \in Path : RemoveEntry(c, c) \/ EnterEntry(c, c)
    \/ FailRead \/ CloseDir
    \/ RemoveDir(Top.path)

(* A script that calls rmdir on a path again and again, and nothing else,  *)
(* removes the directory in the end, as each call removes something, or    *)
(* uses up the directories a child may open, as a call that fails or meets *)
(* a directory leaves its own open (apr.cpp:202-230); provided that the    *)
(* freed paths still name the entries (apr.cpp:199): when they do not, a   *)
(* directory with a directory in it may stay for ever.                     *)
RetryingRemoves ==
    \A p \in Path :
        <>[][StepRmdirNamed \/ CallRmdir(p)]_vars
            => <>(kind[p] # "dir" \/ handles = MaxHandles)

===========================================================================
