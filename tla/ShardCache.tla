----------------------------- MODULE ShardCache -----------------------------
(***************************************************************************)
(* The resume manifest and shard file cache of packages/orchestrator       *)
(* (manifest.ts): the ShardCache instances of one process that share one   *)
(* directory, the per-directory state in `registry`, the chain that        *)
(* serializes manifest writes, and the directory on disk.                  *)
(*                                                                         *)
(* A key is a content hash.  Two results stored under one key are not told *)
(* apart, so a manifest is the set of keys it lists.  The steps between    *)
(* two awaits of one async function are one action.                        *)
(***************************************************************************)
EXTENDS Naturals, Sequences, FiniteSets

CONSTANTS
    Caches,      \* the ShardCache instances of concurrent generate() calls
    Measures,    \* keys of measure results
    Renders,     \* keys of rendered shards
    Overlap,     \* a run may open the directory while a close() removes it
    Stragglers,  \* shards of a failed run may still store results afterwards
    Faults       \* what may go wrong, a subset of FaultKinds

FaultKinds == {"mkdir", "read", "write", "rm", "crash"}

ASSUME CachesFinite == IsFiniteSet(Caches)
ASSUME KeysDisjoint == Measures \intersect Renders = {}
ASSUME SwitchesBoolean == Overlap \in BOOLEAN /\ Stragglers \in BOOLEAN
ASSUME FaultsKnown == Faults \subseteq FaultKinds

Keys == Measures \union Renders
Jobs == Caches \X Keys

VARIABLES
    phase,           \* where each cache is between open() and close()
    data,            \* keys in each cache's in-memory manifest
    renamed,         \* shards renamed into place and not yet recorded
    shardFiles,      \* shard files each run has been told it can read
    straggling,      \* caches closed by a failed run
    awaits,          \* queued writes a closing cache still waits for
    detached,        \* closing caches whose DirState was forgotten
    tracked,         \* the registry has a DirState for the directory
    users,           \* DirState.users
    pendingDestroy,  \* DirState.pendingDestroy
    queue,           \* DirState.chain: queued manifest writes, oldest first
    step,            \* progress of the oldest write
    snapshot,        \* what the oldest write has read or merged
    dirExists,       \* the directory is on disk
    manifest,        \* keys in manifest.json
    files,           \* keys whose shard PDF is on disk
    requested,       \* some closer asked for a removal not yet done
    overlapped,      \* history: caches that opened while one was removed
    misread          \* history: the oldest write has not read all of the disk

cacheVars == <<phase, data, renamed, shardFiles, straggling, awaits>>
dirVars   == <<tracked, users, pendingDestroy, detached>>
chainVars == <<queue, step, snapshot, misread>>
diskVars  == <<dirExists, manifest, files>>
vars      == <<cacheVars, dirVars, chainVars, diskVars, requested, overlapped>>

(* "broken" is a cache whose open() rejected: generate() awaits it outside *)
(* the try block, so nobody closes it.                                     *)
Phases == {"idle", "making", "reading", "open", "draining", "removing",
           "closed", "broken"}

Counted == {c \in Caches : phase[c] \in {"making", "reading", "open", "broken"}}
Removers == {c \in Caches : phase[c] \in {"draining", "removing"}}

(* inFlight counts the queued writes; chain is undefined when it is zero.  *)
InFlight == Len(queue)
Queued(job) == \E i \in DOMAIN queue : queue[i] = job

TypeOK ==
    /\ phase \in [Caches -> Phases]
    /\ data \in [Caches -> SUBSET Keys]
    /\ renamed \in [Caches -> SUBSET Renders]
    /\ shardFiles \in [Caches -> SUBSET Renders]
    /\ straggling \in [Caches -> BOOLEAN]
    /\ awaits \in [Caches -> Nat]
    /\ detached \in [Caches -> BOOLEAN]
    /\ tracked \in BOOLEAN
    /\ users \in 0..Cardinality(Caches)
    /\ pendingDestroy \in BOOLEAN
    /\ queue \in Seq(Jobs)
    /\ step \in {"queued", "read", "written", "lost"}
    /\ snapshot \subseteq Keys
    /\ dirExists \in BOOLEAN
    /\ manifest \subseteq Keys
    /\ files \subseteq Renders
    /\ requested \in BOOLEAN
    /\ overlapped \subseteq Caches
    /\ misread \in BOOLEAN

Init ==
    /\ phase = [c \in Caches |-> "idle"]
    /\ data = [c \in Caches |-> {}]
    /\ renamed = [c \in Caches |-> {}]
    /\ shardFiles = [c \in Caches |-> {}]
    /\ straggling = [c \in Caches |-> FALSE]
    /\ awaits = [c \in Caches |-> 0]
    /\ detached = [c \in Caches |-> FALSE]
    /\ tracked = FALSE
    /\ users = 0
    /\ pendingDestroy = FALSE
    /\ queue = <<>>
    /\ step = "queued"
    /\ snapshot = {}
    /\ requested = FALSE
    /\ overlapped = {}
    /\ misread = FALSE
    /\ dirExists = FALSE
    /\ manifest = {}
    /\ files = {}

-----------------------------------------------------------------------------
(* maybeForget(), as part of a step that leaves the directory with u users *)
(* and queue q.  A cache still draining keeps the old DirState.            *)
MaybeForget(u, q, pending) ==
    LET forget == tracked /\ u = 0 /\ q = <<>> /\ ~pending
    IN  /\ tracked' = (tracked /\ ~forget)
        /\ detached' = [c \in Caches |->
                           detached[c] \/ (forget /\ phase'[c] = "draining")]

(* readDisk(): any error reads as an empty manifest.                       *)
ReadDisk(keys) ==
    \/ keys = manifest
    \/ "read" \in Faults /\ keys = {}

-----------------------------------------------------------------------------
(* open().                                                                 *)

(* Mutant of Open: the instance is counted twice.                          *)
OpenCountingTwice(c) ==
    /\ phase[c] \in {"idle", "closed"}
    /\ Overlap \/ Removers = {}
    /\ phase' = [phase EXCEPT ![c] = "making"]
    /\ data' = [data EXCEPT ![c] = {}]
    /\ tracked' = TRUE
    /\ users' = users + 2
    /\ UNCHANGED <<renamed, shardFiles, straggling, detached, awaits,
                   pendingDestroy, chainVars, diskVars, requested, overlapped>>

(* A new instance for the next generate() call takes the place of one that *)
(* has nothing left to do.                                                 *)
Open(c) ==
    /\ phase[c] \in {"idle", "closed"}
    /\ \A k \in Keys : ~Queued(<<c, k>>)
    /\ Overlap \/ Removers = {}
    /\ phase' = [phase EXCEPT ![c] = "making"]
    /\ data' = [data EXCEPT ![c] = {}]
    /\ renamed' = [renamed EXCEPT ![c] = {}]
    /\ shardFiles' = [shardFiles EXCEPT ![c] = {}]
    /\ straggling' = [straggling EXCEPT ![c] = FALSE]
    /\ detached' = [detached EXCEPT ![c] = FALSE]
    /\ tracked' = TRUE
    /\ users' = users + 1
    /\ overlapped' = IF Removers = {} THEN overlapped \ {c} ELSE overlapped \union {c}
    /\ UNCHANGED <<awaits, pendingDestroy, chainVars, diskVars, requested>>

OpenMkdir(c) ==
    /\ phase[c] = "making"
    /\ \/ /\ phase' = [phase EXCEPT ![c] = "reading"]
          /\ dirExists' = TRUE
       \/ /\ "mkdir" \in Faults
          /\ phase' = [phase EXCEPT ![c] = "broken"]
          /\ UNCHANGED dirExists
    /\ UNCHANGED <<data, renamed, shardFiles, straggling, awaits, dirVars,
                   chainVars, manifest, files, requested, overlapped>>

OpenRead(c) ==
    /\ phase[c] = "reading"
    /\ \E keys \in SUBSET Keys :
          /\ ReadDisk(keys)
          /\ data' = [data EXCEPT ![c] = keys]
    /\ phase' = [phase EXCEPT ![c] = "open"]
    /\ UNCHANGED <<renamed, shardFiles, straggling, awaits, dirVars, chainVars,
                   diskVars, requested, overlapped>>

-----------------------------------------------------------------------------
(* Storing and finding results.                                            *)

CanStore(c, k) ==
    /\ phase[c] = "open" \/ straggling[c]
    /\ k \notin data[c]

(* persist(): record the key in memory and join the chain of writes.       *)
Persist(c, k) ==
    /\ data' = [data EXCEPT ![c] = @ \union {k}]
    /\ queue' = Append(queue, <<c, k>>)
    /\ tracked' = TRUE
    /\ UNCHANGED <<phase, shardFiles, straggling, awaits, detached, users,
                   pendingDestroy, step, snapshot, misread, diskVars, requested, overlapped>>

PutMeasure(c, k) ==
    /\ k \in Measures
    /\ CanStore(c, k)
    /\ ~Queued(<<c, k>>)
    /\ Persist(c, k)
    /\ UNCHANGED renamed

(* commitRender(): the rename, then, when it has succeeded, the record.    *)
CommitRename(c, k) ==
    /\ k \in Renders
    /\ CanStore(c, k)
    /\ ~Queued(<<c, k>>)
    /\ k \notin renamed[c]
    /\ dirExists
    /\ files' = files \union {k}
    /\ renamed' = [renamed EXCEPT ![c] = @ \union {k}]
    /\ UNCHANGED <<phase, data, shardFiles, straggling, awaits, dirVars,
                   chainVars, dirExists, manifest, requested, overlapped>>

CommitRecord(c, k) ==
    /\ k \in renamed[c]
    /\ renamed' = [renamed EXCEPT ![c] = @ \ {k}]
    /\ Persist(c, k)

(* getRender(): a hit hands out the path, a stale entry is dropped.        *)
GetRender(c, k) ==
    /\ k \in Renders \intersect data[c]
    /\ phase[c] = "open"
    /\ ~Queued(<<c, k>>)
    /\ \/ /\ k \in files
          /\ shardFiles' = [shardFiles EXCEPT ![c] = @ \union {k}]
          /\ UNCHANGED data
       \/ /\ k \notin files
          /\ data' = [data EXCEPT ![c] = @ \ {k}]
          /\ UNCHANGED shardFiles
    /\ UNCHANGED <<phase, renamed, straggling, awaits, dirVars, chainVars,
                   diskVars, requested, overlapped>>

-----------------------------------------------------------------------------
(* persistNow() for the write at the head of the chain.                    *)

PersistRead ==
    /\ queue # <<>>
    /\ step = "queued"
    /\ \E keys \in SUBSET Keys :
          /\ ReadDisk(keys)
          /\ snapshot' = keys
          /\ misread' = ~(manifest \subseteq keys)
    /\ step' = "read"
    /\ UNCHANGED <<cacheVars, dirVars, queue, diskVars, requested, overlapped>>

(* Mutant of Merged: the cache writes its own memory only.                 *)
MergedBlindly == data[Head(queue)[1]]

(* What the head's cache merges: the disk, then its own memory.            *)
Merged == snapshot \union data[Head(queue)[1]]

(* The head leaves the chain; the next write starts whatever its outcome.  *)
Settle ==
    /\ queue' = Tail(queue)
    /\ step' = "queued"
    /\ snapshot' = {}
    /\ misread' = FALSE
    /\ awaits' = [c \in Caches |-> IF awaits[c] > 0 THEN awaits[c] - 1 ELSE 0]
    /\ MaybeForget(users, Tail(queue), pendingDestroy)
    /\ UNCHANGED <<users, pendingDestroy>>

(* Merge, then write the temporary file: it fails without a directory.     *)
PersistWrite ==
    /\ queue # <<>>
    /\ step = "read"
    /\ UNCHANGED <<phase, renamed, shardFiles, straggling, diskVars, requested, overlapped>>
    /\ data' = [data EXCEPT ![Head(queue)[1]] = Merged]
    /\ \/ /\ dirExists
          /\ step' = "written"
          /\ snapshot' = Merged
          /\ UNCHANGED <<awaits, dirVars, queue, misread>>
       \/ /\ ~dirExists \/ "write" \in Faults
          /\ Settle

(* The atomic rename; the promise of the put resolves, and a committed     *)
(* shard's path goes to its run.                                           *)
PersistRename ==
    /\ queue # <<>>
    /\ step = "written"
    /\ UNCHANGED <<phase, data, renamed, straggling, dirExists, files, requested, overlapped>>
    /\ manifest' = snapshot
    /\ LET c == Head(queue)[1]
           k == Head(queue)[2]
       IN  shardFiles' = IF k \in Renders /\ phase[c] = "open"
                         THEN [shardFiles EXCEPT ![c] = @ \union {k}]
                         ELSE shardFiles
    /\ Settle

(* The temporary file went with the directory: the rename rejects.         *)
PersistLost ==
    /\ queue # <<>>
    /\ step = "lost"
    /\ UNCHANGED <<phase, data, renamed, shardFiles, straggling, diskVars,
                   requested, overlapped>>
    /\ Settle

-----------------------------------------------------------------------------
(* close().                                                                *)

(* generate() asks for removal only after a run that has awaited all its   *)
(* results; a failed run closes at any point.                              *)
MayClose(c, destroy) ==
    /\ phase[c] = "open"
    /\ destroy => renamed[c] = {} /\ \A k \in Keys : ~Queued(<<c, k>>)

(* Mutant of Pending: a request made while others used the directory is    *)
(* forgotten.                                                              *)
PendingForgotten(destroy) == destroy

(* A removal anybody asked for stays due.                                  *)
Pending(destroy) == pendingDestroy \/ destroy

(* Mutant of LastOut: cleanup without counting references.                 *)
LastOutEager(u, pending) == pending

(* The last user out removes the directory.                                *)
LastOut(u, pending) == u = 0 /\ pending

Close(c, destroy) ==
    /\ MayClose(c, destroy)
    /\ users' = users - 1
    /\ requested' = (requested \/ destroy)
    /\ straggling' = [straggling EXCEPT ![c] = Stragglers /\ ~destroy]
    /\ LET pending == Pending(destroy)
           last    == LastOut(users', pending)
       IN  \/ /\ last
              /\ InFlight > 0
              /\ phase' = [phase EXCEPT ![c] = "draining"]
              /\ awaits' = [awaits EXCEPT ![c] = InFlight]
              /\ pendingDestroy' = TRUE
              /\ UNCHANGED <<tracked, detached>>
           \/ /\ last
              /\ InFlight = 0
              /\ phase' = [phase EXCEPT ![c] = "removing"]
              /\ pendingDestroy' = FALSE
              /\ UNCHANGED <<awaits, tracked, detached>>
           \/ /\ ~last
              /\ phase' = [phase EXCEPT ![c] = "closed"]
              /\ pendingDestroy' = pending
              /\ MaybeForget(users', queue, pending)
              /\ UNCHANGED awaits
    /\ UNCHANGED <<data, renamed, shardFiles, chainVars, diskVars, overlapped>>

(* The writes queued when close() was called have settled; rm() starts.    *)
Drained(c) ==
    /\ phase[c] = "draining"
    /\ awaits[c] = 0
    /\ phase' = [phase EXCEPT ![c] = "removing"]
    /\ pendingDestroy' = (pendingDestroy /\ detached[c])
    /\ UNCHANGED <<data, renamed, shardFiles, straggling, awaits, tracked, users,
                   detached, chainVars, diskVars, requested, overlapped>>

(* rm(dir, { recursive, force }) has removed everything.                   *)
Removed(c) ==
    /\ phase[c] = "removing"
    /\ phase' = [phase EXCEPT ![c] = "closed"]
    /\ dirExists' = FALSE
    /\ manifest' = {}
    /\ files' = {}
    /\ step' = IF step = "written" THEN "lost" ELSE step
    /\ requested' = FALSE
    /\ MaybeForget(users, queue, pendingDestroy)
    /\ UNCHANGED <<data, renamed, shardFiles, straggling, awaits, users,
                   pendingDestroy, queue, snapshot, misread, overlapped>>

(* rm() rejects: close() rejects before it reaches maybeForget(), and the  *)
(* removal is not owed any more.                                           *)
RemoveFails(c) ==
    /\ "rm" \in Faults
    /\ phase[c] = "removing"
    /\ phase' = [phase EXCEPT ![c] = "closed"]
    /\ requested' = FALSE
    /\ UNCHANGED <<data, renamed, shardFiles, straggling, awaits, dirVars,
                   chainVars, diskVars, overlapped>>

-----------------------------------------------------------------------------
(* The process dies and a new one starts; only the disk survives.          *)
Crash ==
    /\ "crash" \in Faults
    /\ phase' = [c \in Caches |-> "idle"]
    /\ data' = [c \in Caches |-> {}]
    /\ renamed' = [c \in Caches |-> {}]
    /\ shardFiles' = [c \in Caches |-> {}]
    /\ straggling' = [c \in Caches |-> FALSE]
    /\ awaits' = [c \in Caches |-> 0]
    /\ detached' = [c \in Caches |-> FALSE]
    /\ tracked' = FALSE
    /\ users' = 0
    /\ pendingDestroy' = FALSE
    /\ queue' = <<>>
    /\ step' = "queued"
    /\ snapshot' = {}
    /\ requested' = FALSE
    /\ overlapped' = {}
    /\ misread' = FALSE
    /\ UNCHANGED diskVars

Opening(c) == OpenMkdir(c) \/ OpenRead(c)
Closing(c) == Drained(c) \/ Removed(c) \/ RemoveFails(c)
Persisting == PersistRead \/ PersistWrite \/ PersistRename \/ PersistLost

Next ==
    \/ \E c \in Caches :
          \/ Open(c)
          \/ Opening(c)
          \/ \E destroy \in BOOLEAN : Close(c, destroy)
          \/ Closing(c)
    \/ \E c \in Caches, k \in Keys :
          \/ PutMeasure(c, k)
          \/ CommitRename(c, k)
          \/ CommitRecord(c, k)
          \/ GetRender(c, k)
    \/ Persisting
    \/ Crash

Spec == Init /\ [][Next]_vars

-----------------------------------------------------------------------------
(* While a cache is open its directory exists, and every shard file it has *)
(* handed out is still there for assemble() to read: cleanup is reference  *)
(* counted.                                                                *)
OpenIsIntact ==
    \A c \in Caches :
        phase[c] = "open" => dirExists /\ shardFiles[c] \subseteq files

(* The same for the caches that did not open while a removal was under     *)
(* way, whatever those that did are up to.                                 *)
IntactUnlessOverlapped ==
    \A c \in Caches \ overlapped :
        phase[c] = "open" => dirExists /\ shardFiles[c] \subseteq files

(* `users` is the number of caches that opened and have not closed.        *)
UsersExact == users = Cardinality(Counted)

(* Serialized read-merge-rename: no write of this process drops an entry   *)
(* another one has put on disk, unless its own read of the manifest failed.*)
ManifestOnlyGrows ==
    [][dirExists /\ dirExists' /\ ~misread => manifest \subseteq manifest']_vars

Quiescent ==
    /\ queue = <<>>
    /\ \A c \in Caches : phase[c] \in {"idle", "closed", "broken"}

(* Once nobody uses the directory, a cleanup that was asked for by any     *)
(* closer has happened, or its failure was reported; but not when an       *)
(* open() has failed, which counts itself as a user and is never closed.   *)
CleanupHonoured ==
    Quiescent /\ requested => ~dirExists \/ \E c \in Caches : phase[c] = "broken"
=============================================================================
