-------------------------- MODULE ShardCacheProofs --------------------------
(***************************************************************************)
(* Proofs about ShardCache, for any finite set of caches and any keys.     *)
(***************************************************************************)
EXTENDS ShardCache, FiniteSetTheorems, TLAPS

(* Types without the bound on `users`, which follows from UsersExact.      *)
BaseTypes ==
    /\ phase \in [Caches -> Phases]
    /\ data \in [Caches -> SUBSET Keys]
    /\ renamed \in [Caches -> SUBSET Renders]
    /\ shardFiles \in [Caches -> SUBSET Renders]
    /\ straggling \in [Caches -> BOOLEAN]
    /\ awaits \in [Caches -> Nat]
    /\ detached \in [Caches -> BOOLEAN]
    /\ tracked \in BOOLEAN
    /\ pendingDestroy \in BOOLEAN
    /\ queue \in Seq(Jobs)
    /\ step \in {"queued", "read", "written", "lost"}
    /\ snapshot \subseteq Keys
    /\ dirExists \in BOOLEAN
    /\ manifest \subseteq Keys
    /\ files \subseteq Renders
    /\ requested \in BOOLEAN
    /\ overlapped \subseteq Caches
    /\ misread \in BOOLEAN

CountInv == BaseTypes /\ UsersExact

-----------------------------------------------------------------------------
(* The caches that count as users are a finite set.                        *)
LEMMA CountedFinite ==
    /\ IsFiniteSet(Counted)
    /\ Cardinality(Counted) \in 0..Cardinality(Caches)
<1>1. Counted \subseteq Caches
  BY DEF Counted
<1> QED
  BY <1>1, CachesFinite, FS_Subset, FS_CardinalityType

LEMMA CountInvTypes == CountInv => TypeOK
  BY CountedFinite DEF CountInv, BaseTypes, UsersExact, TypeOK

(* The head of the chain names a cache and a key.                          *)
LEMMA HeadIsJob ==
    ASSUME BaseTypes, queue # <<>>
    PROVE  /\ Head(queue)[1] \in Caches
           /\ Head(queue)[2] \in Keys
           /\ Head(queue) = queue[1]
           /\ 1 \in DOMAIN queue
           /\ Tail(queue) \in Seq(Jobs)
           /\ Merged \subseteq Keys
<1>1. /\ Head(queue) \in Jobs
      /\ Head(queue) = queue[1]
      /\ 1 \in DOMAIN queue
      /\ Tail(queue) \in Seq(Jobs)
  BY DEF BaseTypes
<1>2. Head(queue)[1] \in Caches /\ Head(queue)[2] \in Keys
  BY <1>1 DEF Jobs
<1> QED
  BY <1>1, <1>2 DEF Merged, BaseTypes

(* Steps that neither open nor close a cache do not touch the count.       *)
LEMMA SameCounted ==
    ASSUME UsersExact, UNCHANGED users,
           \A c \in Caches :
               (phase'[c] \in {"making", "reading", "open", "broken"}) =
               (phase[c] \in {"making", "reading", "open", "broken"})
    PROVE  UsersExact'
<1>1. Counted' = Counted
  BY DEF Counted
<1> QED
  BY <1>1 DEF UsersExact

LEMMA ForgetTypes ==
    ASSUME NEW u, NEW q, NEW pending \in BOOLEAN, BaseTypes,
           MaybeForget(u, q, pending)
    PROVE  tracked' \in BOOLEAN /\ detached' \in [Caches -> BOOLEAN]
  BY DEF MaybeForget, BaseTypes

LEMMA ReadKeys ==
    ASSUME BaseTypes, NEW keys, ReadDisk(keys)
    PROVE  keys \subseteq Keys
  BY DEF ReadDisk, BaseTypes

LEMMA OpenCount ==
    ASSUME CountInv, NEW c \in Caches, Open(c)
    PROVE  CountInv'
<1>1. BaseTypes'
  BY DEF Open, CountInv, BaseTypes, Phases, chainVars, diskVars
<1>2. Counted' = Counted \union {c} /\ c \notin Counted
  BY DEF Open, CountInv, BaseTypes, Counted
<1>3. Cardinality(Counted') = Cardinality(Counted) + 1
  BY <1>2, CountedFinite, FS_AddElement
<1> QED
  BY <1>1, <1>3 DEF Open, CountInv, UsersExact

LEMMA CloseCount ==
    ASSUME CountInv, NEW c \in Caches, NEW destroy \in BOOLEAN, Close(c, destroy)
    PROVE  CountInv'
<1>1. phase[c] = "open"
  BY DEF Close, MayClose
<1>2. PICK p \in {"draining", "removing", "closed"} :
          phase' = [phase EXCEPT ![c] = p]
  BY DEF Close, LastOut
<1>3. Counted' = Counted \ {c} /\ c \in Counted
  BY <1>1, <1>2 DEF CountInv, BaseTypes, Counted
<1>4. Cardinality(Counted') = Cardinality(Counted) - 1
  BY <1>3, CountedFinite, FS_RemoveElement
<1>5. BaseTypes'
  <2>1. /\ phase' \in [Caches -> Phases]
        /\ straggling' \in [Caches -> BOOLEAN]
        /\ requested' \in BOOLEAN
        /\ pendingDestroy' \in BOOLEAN
    BY <1>2, SwitchesBoolean DEF Close, CountInv, BaseTypes, Phases, Pending
  <2>2. awaits' \in [Caches -> Nat]
    BY DEF Close, InFlight, CountInv, BaseTypes
  <2>3. tracked' \in BOOLEAN /\ detached' \in [Caches -> BOOLEAN]
    BY ForgetTypes DEF Close, Pending, CountInv, BaseTypes
  <2> QED
    BY <2>1, <2>2, <2>3 DEF Close, CountInv, BaseTypes, chainVars, diskVars
<1> QED
  BY <1>4, <1>5 DEF Close, CountInv, UsersExact

(* The remaining steps of open() and close().                              *)
LEMMA HostStepCount ==
    ASSUME CountInv, NEW c \in Caches, Opening(c) \/ Closing(c)
    PROVE  CountInv'
<1>1. CASE OpenMkdir(c)
  <2>1. PICK p \in {"reading", "broken"} : phase' = [phase EXCEPT ![c] = p]
    BY <1>1 DEF OpenMkdir
  <2>2. BaseTypes'
    BY <1>1, <2>1 DEF OpenMkdir, CountInv, BaseTypes, Phases, dirVars, chainVars
  <2>3. UsersExact'
    BY <1>1, <2>1, SameCounted DEF OpenMkdir, CountInv, BaseTypes, dirVars
  <2> QED
    BY <2>2, <2>3 DEF CountInv
<1>2. CASE OpenRead(c)
  <2>1. data' \in [Caches -> SUBSET Keys]
    BY <1>2, ReadKeys DEF OpenRead, CountInv, BaseTypes
  <2> QED
    BY <1>2, <2>1, SameCounted
    DEF OpenRead, CountInv, BaseTypes, Phases, dirVars, chainVars, diskVars
<1>3. CASE Drained(c)
  BY <1>3, SameCounted
  DEF Drained, CountInv, BaseTypes, Phases, chainVars, diskVars
<1>4. CASE Removed(c)
  <2>1. tracked' \in BOOLEAN /\ detached' \in [Caches -> BOOLEAN]
    BY <1>4, ForgetTypes DEF Removed, CountInv, BaseTypes
  <2>2. /\ phase' \in [Caches -> Phases]
        /\ step' \in {"queued", "read", "written", "lost"}
    BY <1>4 DEF Removed, CountInv, BaseTypes, Phases
  <2>3. BaseTypes'
    BY <1>4, <2>1, <2>2 DEF Removed, CountInv, BaseTypes
  <2>4. UsersExact'
    BY <1>4, SameCounted DEF Removed, CountInv, BaseTypes
  <2> QED
    BY <2>3, <2>4 DEF CountInv
<1>5. CASE RemoveFails(c)
  <2>1. BaseTypes'
    BY <1>5 DEF RemoveFails, CountInv, BaseTypes, Phases, dirVars, chainVars, diskVars
  <2>2. UsersExact'
    BY <1>5, SameCounted DEF RemoveFails, CountInv, BaseTypes, dirVars
  <2> QED
    BY <2>1, <2>2 DEF CountInv
<1> QED
  BY <1>1, <1>2, <1>3, <1>4, <1>5 DEF Opening, Closing

LEMMA PersistTypes ==
    ASSUME CountInv, NEW c \in Caches, NEW k \in Keys,
           Persist(c, k), renamed' \in [Caches -> SUBSET Renders]
    PROVE  CountInv'
<1>1. queue' \in Seq(Jobs)
  BY DEF Persist, Jobs, CountInv, BaseTypes
<1>2. BaseTypes'
  BY <1>1 DEF Persist, CountInv, BaseTypes, diskVars
<1> QED
  BY <1>2, SameCounted DEF Persist, CountInv

LEMMA StoreStepCount ==
    ASSUME CountInv, NEW c \in Caches, NEW k \in Keys,
           \/ PutMeasure(c, k) \/ CommitRename(c, k)
           \/ CommitRecord(c, k) \/ GetRender(c, k)
    PROVE  CountInv'
<1>1. CASE PutMeasure(c, k)
  BY <1>1, PersistTypes DEF PutMeasure, CountInv, BaseTypes
<1>2. CASE CommitRename(c, k)
  BY <1>2, SameCounted DEF CommitRename, CountInv, BaseTypes, dirVars, chainVars
<1>3. CASE CommitRecord(c, k)
  BY <1>3, PersistTypes DEF CommitRecord, CountInv, BaseTypes
<1>4. CASE GetRender(c, k)
  BY <1>4, SameCounted
  DEF GetRender, CountInv, BaseTypes, dirVars, chainVars, diskVars
<1> QED
  BY <1>1, <1>2, <1>3, <1>4

LEMMA SettleTypes ==
    ASSUME CountInv, queue # <<>>, Settle
    PROVE  /\ queue' \in Seq(Jobs)
           /\ step' = "queued" /\ snapshot' = {} /\ misread' = FALSE
           /\ awaits' \in [Caches -> Nat]
           /\ tracked' \in BOOLEAN /\ detached' \in [Caches -> BOOLEAN]
           /\ UNCHANGED <<users, pendingDestroy>>
<1>1. queue' \in Seq(Jobs)
  BY HeadIsJob DEF Settle, CountInv
<1>2. awaits' \in [Caches -> Nat]
  BY DEF Settle, CountInv, BaseTypes
<1>3. /\ BaseTypes /\ pendingDestroy \in BOOLEAN
      /\ MaybeForget(users, Tail(queue), pendingDestroy)
  BY DEF Settle, CountInv, BaseTypes
<1>4. tracked' \in BOOLEAN /\ detached' \in [Caches -> BOOLEAN]
  BY <1>3, ForgetTypes
<1> QED
  BY <1>1, <1>2, <1>4 DEF Settle

LEMMA PersistStepCount ==
    ASSUME CountInv, Persisting
    PROVE  CountInv'
<1>1. CASE PersistRead
  <2>1. snapshot' \subseteq Keys
    BY <1>1, ReadKeys DEF PersistRead, CountInv
  <2> QED
    BY <1>1, <2>1, SameCounted
    DEF PersistRead, CountInv, BaseTypes, cacheVars, dirVars, diskVars
<1>2. CASE PersistWrite
  <2>1. data' \in [Caches -> SUBSET Keys]
    BY <1>2, HeadIsJob DEF PersistWrite, CountInv, BaseTypes
  <2>2. CASE /\ step' = "written"
             /\ snapshot' = Merged
             /\ UNCHANGED <<awaits, dirVars, queue, misread>>
    BY <1>2, <2>1, <2>2, HeadIsJob, SameCounted
    DEF PersistWrite, CountInv, BaseTypes, dirVars, diskVars
  <2>3. CASE Settle
    BY <1>2, <2>1, <2>3, SettleTypes, SameCounted
    DEF PersistWrite, CountInv, BaseTypes, diskVars
  <2> QED
    BY <1>2, <2>2, <2>3 DEF PersistWrite
<1>3. CASE PersistRename
  <2>1. shardFiles' \in [Caches -> SUBSET Renders]
    BY <1>3, HeadIsJob DEF PersistRename, CountInv, BaseTypes
  <2> QED
    BY <1>3, <2>1, SettleTypes, SameCounted DEF PersistRename, CountInv, BaseTypes
<1>4. CASE PersistLost
  BY <1>4, SettleTypes, SameCounted DEF PersistLost, CountInv, BaseTypes, diskVars
<1> QED
  BY <1>1, <1>2, <1>3, <1>4 DEF Persisting

LEMMA InitCount == Init => CountInv
<1> SUFFICES ASSUME Init PROVE CountInv
  OBVIOUS
<1>1. Counted = {}
  BY DEF Init, Counted
<1>2. UsersExact
  BY <1>1, FS_EmptySet DEF Init, UsersExact
<1>3. /\ queue \in Seq(Jobs)
      /\ phase \in [Caches -> Phases]
      /\ awaits \in [Caches -> Nat]
  BY DEF Init, Phases
<1>4. BaseTypes
  BY <1>3 DEF Init, BaseTypes
<1> QED
  BY <1>2, <1>4 DEF CountInv

LEMMA CrashCount ==
    ASSUME CountInv, Crash
    PROVE  CountInv'
<1>1. Counted' = {}
  BY DEF Crash, Counted
<1>2. UsersExact'
  BY <1>1, FS_EmptySet DEF Crash, UsersExact
<1>3. /\ queue' \in Seq(Jobs)
      /\ phase' \in [Caches -> Phases]
      /\ awaits' \in [Caches -> Nat]
  BY DEF Crash, Phases
<1>4. BaseTypes'
  BY <1>3 DEF Crash, CountInv, BaseTypes, diskVars
<1> QED
  BY <1>2, <1>4 DEF CountInv

LEMMA NextCount == CountInv /\ [Next]_vars => CountInv'
<1> SUFFICES ASSUME CountInv, [Next]_vars PROVE CountInv'
  OBVIOUS
<1>1. CASE UNCHANGED vars
  <2>1. UNCHANGED <<phase, data, renamed, shardFiles, straggling, awaits, tracked,
                    users, pendingDestroy, detached, queue, step, snapshot,
                    dirExists, manifest, files, requested, overlapped, misread>>
    BY <1>1 DEF vars, cacheVars, dirVars, chainVars, diskVars
  <2> QED
    BY <2>1 DEF CountInv, BaseTypes, UsersExact, Counted
<1> QED
  BY <1>1, OpenCount, CloseCount, HostStepCount, StoreStepCount,
     PersistStepCount, CrashCount
  DEF Next

THEOREM CountInvariant == Spec => []CountInv
<1> QED
  BY InitCount, NextCount, PTL DEF Spec

(* Every variable keeps its type.                                          *)
THEOREM TypeCorrect == Spec => []TypeOK
<1> QED
  BY CountInvariant, CountInvTypes, PTL

(* manifest.ts: `users` is the number of caches opened and not closed, a   *)
(* cache whose open() failed included, whatever fails and in any order.    *)
THEOREM UsersCounted == Spec => []UsersExact
<1>1. CountInv => UsersExact
  BY DEF CountInv
<1> QED
  BY <1>1, CountInvariant, PTL

-----------------------------------------------------------------------------
(* Writes to the manifest never drop an entry.                             *)

(* While a write is under way, what it will rename into place holds all    *)
(* that is on disk: writes are serialized, so nobody else adds to it.  A   *)
(* write whose own read of the disk failed is the exception.               *)
SnapshotCovers ==
    step \in {"read", "written"} => manifest \subseteq snapshot \/ misread

(* One step keeps the snapshot covering, and the manifest growing.         *)
LEMMA SnapshotStep ==
    ASSUME CountInv, SnapshotCovers, [Next]_vars
    PROVE  /\ SnapshotCovers'
           /\ dirExists /\ dirExists' /\ ~misread => manifest \subseteq manifest'
<1>1. CASE UNCHANGED <<step, snapshot, misread, dirExists, manifest>>
  BY <1>1 DEF SnapshotCovers
<1>2. CASE UNCHANGED <<step, snapshot, misread, manifest>>
  BY <1>2 DEF SnapshotCovers
<1>3. CASE PersistRead
  BY <1>3 DEF PersistRead, ReadDisk, SnapshotCovers, diskVars
<1>4. CASE PersistWrite
  BY <1>4 DEF PersistWrite, Settle, Merged, SnapshotCovers, diskVars
<1>5. CASE PersistRename
  BY <1>5 DEF PersistRename, Settle, SnapshotCovers
<1>6. CASE PersistLost
  BY <1>6 DEF PersistLost, Settle, SnapshotCovers, diskVars
<1>7. CASE \E c \in Caches : Removed(c)
  BY <1>7 DEF Removed, SnapshotCovers, CountInv, BaseTypes
<1>8. CASE Crash
  BY <1>8 DEF Crash, SnapshotCovers, diskVars
<1>9. ASSUME NEW c \in Caches, Open(c) \/ Opening(c)
      PROVE  UNCHANGED <<step, snapshot, misread, manifest>>
  BY <1>9 DEF Open, Opening, OpenMkdir, OpenRead, chainVars, diskVars
<1>10. ASSUME NEW c \in Caches, NEW destroy \in BOOLEAN,
              Close(c, destroy) \/ Drained(c) \/ RemoveFails(c)
       PROVE  UNCHANGED <<step, snapshot, misread, dirExists, manifest>>
  BY <1>10 DEF Close, Drained, RemoveFails, chainVars, diskVars
<1>11. ASSUME NEW c \in Caches, NEW k \in Keys,
              \/ PutMeasure(c, k) \/ CommitRename(c, k)
              \/ CommitRecord(c, k) \/ GetRender(c, k)
       PROVE  UNCHANGED <<step, snapshot, misread, dirExists, manifest>>
  BY <1>11 DEF PutMeasure, CommitRename, CommitRecord, GetRender, Persist,
               chainVars, diskVars
<1>12. CASE UNCHANGED vars
  BY <1>1, <1>12 DEF vars, chainVars, diskVars
<1> QED
  BY <1>1, <1>2, <1>3, <1>4, <1>5, <1>6, <1>7, <1>8, <1>9, <1>10, <1>11, <1>12
  DEF Next, Closing, Persisting

(* persist(): no write of the process drops an entry another one has put   *)
(* on disk, unless its own read of the manifest has failed.                *)
THEOREM ManifestGrows == Spec => ManifestOnlyGrows
<1>1. Init => SnapshotCovers
  BY DEF Init, SnapshotCovers
<1>2. CountInv /\ SnapshotCovers /\ [Next]_vars
        => /\ SnapshotCovers'
           /\ [dirExists /\ dirExists' /\ ~misread => manifest \subseteq manifest']_vars
  BY SnapshotStep
<1> QED
  BY <1>1, <1>2, CountInvariant, PTL DEF Spec, ManifestOnlyGrows

-----------------------------------------------------------------------------
(* The directory of an open cache is never removed under it.               *)

(* A directory is removed only when no cache counts as a user, but those   *)
(* that opened meanwhile.                                                  *)
RemoversAlone ==
    \A c, d \in Caches : c \in Removers /\ d \in Counted => d \in overlapped

(* A shard the cache knows of has its file: renamed, queued, handed out.   *)
KnownFilesExist(c) ==
    /\ dirExists
    /\ shardFiles[c] \subseteq files
    /\ renamed[c] \subseteq files
    /\ \A k \in Renders : Queued(<<c, k>>) => k \in files

(* An instance that is opening carries nothing over from an earlier run.   *)
StartsEmpty(c) ==
    /\ phase[c] = "reading" => dirExists
    /\ shardFiles[c] = {} /\ renamed[c] = {}
    /\ \A k \in Keys : ~Queued(<<c, k>>)

IntactInv ==
    /\ RemoversAlone
    /\ Overlap = FALSE => overlapped = {}
    /\ \A c \in Caches \ overlapped :
          /\ phase[c] \in {"making", "reading"} => StartsEmpty(c)
          /\ phase[c] = "open" => KnownFilesExist(c)
          /\ phase[c] \in {"making", "reading", "open"} => ~straggling[c]

LEMMA QueuedAfterAppend ==
    ASSUME NEW j, BaseTypes, j \in Jobs, queue' = Append(queue, j)
    PROVE  \A x : Queued(x)' => Queued(x) \/ x = j
  BY DEF BaseTypes, Queued

LEMMA QueuedAfterTail ==
    ASSUME BaseTypes, queue # <<>>, queue' = Tail(queue)
    PROVE  \A x : Queued(x)' => Queued(x)
<1> SUFFICES ASSUME NEW i \in DOMAIN queue'
             PROVE  i + 1 \in DOMAIN queue /\ queue[i + 1] = queue'[i]
  BY DEF Queued
<1> QED
  BY DEF BaseTypes

(* Steps that leave every cache where it is and lose no file.              *)
LEMMA IntactStable ==
    ASSUME IntactInv, BaseTypes, UNCHANGED <<phase, straggling, shardFiles, overlapped>>,
           dirExists => dirExists', files \subseteq files',
           \A c \in Caches : renamed'[c] \subseteq renamed[c],
           \A x : Queued(x)' => Queued(x)
    PROVE  IntactInv'
<1>1. RemoversAlone'
  BY DEF IntactInv, RemoversAlone, Removers, Counted
<1>2. ASSUME NEW c \in Caches \ overlapped, phase'[c] \in {"making", "reading"}
      PROVE  StartsEmpty(c)'
  BY <1>2 DEF IntactInv, StartsEmpty
<1>3. ASSUME NEW c \in Caches \ overlapped, phase'[c] = "open"
      PROVE  KnownFilesExist(c)'
  BY <1>3 DEF IntactInv, KnownFilesExist
<1> QED
  BY <1>1, <1>2, <1>3 DEF IntactInv

LEMMA OpenIntact ==
    ASSUME CountInv, IntactInv, NEW c \in Caches, Open(c)
    PROVE  IntactInv'
<1>1. /\ phase' = [phase EXCEPT ![c] = "making"]
      /\ UNCHANGED <<queue, dirExists, files>>
      /\ \A k \in Keys : ~Queued(<<c, k>>)
      /\ phase[c] \in {"idle", "closed"}
  BY DEF Open, chainVars, diskVars
<1>2. /\ overlapped' = IF Removers = {} THEN overlapped \ {c} ELSE overlapped \union {c}
      /\ Overlap \/ Removers = {}
  BY DEF Open
<1>3. ASSUME NEW d \in Caches, d # c
      PROVE  /\ phase'[d] = phase[d] /\ straggling'[d] = straggling[d]
             /\ shardFiles'[d] = shardFiles[d] /\ renamed'[d] = renamed[d]
             /\ d \in overlapped' <=> d \in overlapped
  BY <1>2, <1>3 DEF Open, CountInv, BaseTypes
<1>4. \A x : Queued(x)' = Queued(x)
  BY <1>1 DEF Queued
<1>5. /\ phase'[c] = "making" /\ ~straggling'[c]
      /\ shardFiles'[c] = {} /\ renamed'[c] = {}
  BY DEF Open, CountInv, BaseTypes
<1>6. StartsEmpty(c)'
  BY <1>1, <1>4, <1>5 DEF StartsEmpty
<1>7. RemoversAlone'
  <2>1. Removers' = Removers
    BY <1>1 DEF Removers, CountInv, BaseTypes
  <2>2. ASSUME NEW d \in Caches, d \in Counted', Removers # {}
        PROVE  d \in overlapped'
    <3>1. CASE d = c
      BY <1>2, <2>2, <3>1
    <3>2. CASE d # c
      BY <1>3, <2>2, <3>2 DEF Counted, IntactInv, RemoversAlone, Removers
    <3> QED
      BY <3>1, <3>2
  <2> QED
    BY <2>1, <2>2 DEF RemoversAlone
<1>8. Overlap = FALSE => overlapped' = {}
  BY <1>2 DEF IntactInv
<1>9. ASSUME NEW d \in Caches \ overlapped'
      PROVE  /\ phase'[d] \in {"making", "reading"} => StartsEmpty(d)'
             /\ phase'[d] = "open" => KnownFilesExist(d)'
             /\ phase'[d] \in {"making", "reading", "open"} => ~straggling'[d]
  <2>1. CASE d = c
    BY <1>5, <1>6, <2>1
  <2>2. CASE d # c
    BY <1>1, <1>3, <1>4, <2>2 DEF IntactInv, StartsEmpty, KnownFilesExist
  <2> QED
    BY <2>1, <2>2
<1> QED
  BY <1>7, <1>8, <1>9 DEF IntactInv

(* The steps of open(): the directory is made, then the manifest read.     *)
LEMMA OpeningIntact ==
    ASSUME CountInv, IntactInv, NEW c \in Caches, Opening(c)
    PROVE  IntactInv'
<1>1. PICK p \in {"reading", "broken", "open"} :
          /\ phase' = [phase EXCEPT ![c] = p]
          /\ p = "reading" => dirExists'
          /\ p = "open" => phase[c] = "reading"
  BY DEF Opening, OpenMkdir, OpenRead
<1>2. /\ phase[c] \in {"making", "reading"} /\ (dirExists => dirExists')
      /\ UNCHANGED <<renamed, shardFiles, straggling, queue, files, overlapped>>
  BY DEF Opening, OpenMkdir, OpenRead, chainVars, diskVars
<1>3. \A x : Queued(x)' = Queued(x)
  BY <1>2 DEF Queued
<1>4. RemoversAlone'
  BY <1>1, <1>2 DEF IntactInv, RemoversAlone, Removers, Counted, CountInv, BaseTypes
<1>5. phase'[c] = p /\ \A d \in Caches : d # c => phase'[d] = phase[d]
  BY <1>1 DEF CountInv, BaseTypes
<1>6. c \notin overlapped => StartsEmpty(c) /\ ~straggling[c]
  BY <1>2 DEF IntactInv
<1>7. ASSUME NEW d \in Caches \ overlapped
      PROVE  /\ phase'[d] \in {"making", "reading"} => StartsEmpty(d)'
             /\ phase'[d] = "open" => KnownFilesExist(d)'
             /\ phase'[d] \in {"making", "reading", "open"} => ~straggling'[d]
  <2>1. CASE d = c
    <3>1. p = "open" => dirExists
      BY <1>1, <1>6, <2>1 DEF StartsEmpty
    <3>2. Renders \subseteq Keys
      BY DEF Keys
    <3> QED
      BY <1>1, <1>2, <1>3, <1>5, <1>6, <2>1, <3>1, <3>2
      DEF StartsEmpty, KnownFilesExist
  <2>2. CASE d # c
    BY <1>2, <1>3, <1>5, <2>2 DEF IntactInv, StartsEmpty, KnownFilesExist
  <2> QED
    BY <2>1, <2>2
<1> QED
  BY <1>2, <1>4, <1>7 DEF IntactInv

(* close() starts a removal only when it was the last user.                *)
LEMMA CloseIntact ==
    ASSUME CountInv, IntactInv, NEW c \in Caches, NEW destroy \in BOOLEAN,
           Close(c, destroy)
    PROVE  IntactInv'
<1>1. PICK p \in {"draining", "removing", "closed"} :
          /\ phase' = [phase EXCEPT ![c] = p]
          /\ p # "closed" => users' = 0
  BY DEF Close, LastOut
<1>2. /\ phase[c] = "open"
      /\ UNCHANGED <<renamed, shardFiles, queue, dirExists, files, overlapped>>
      /\ \A d \in Caches : d # c => straggling'[d] = straggling[d]
  BY DEF Close, MayClose, chainVars, diskVars, CountInv, BaseTypes
<1>3. phase'[c] = p /\ \A d \in Caches : d # c => phase'[d] = phase[d]
  BY <1>1 DEF CountInv, BaseTypes
<1>4. \A x : Queued(x)' = Queued(x)
  BY <1>2 DEF Queued
<1>5. IsFiniteSet(Counted') /\ users' = Cardinality(Counted')
  <2>1. CountInv'
    BY CloseCount
  <2>2. Counted' \subseteq Caches
    BY DEF Counted
  <2> QED
    BY <2>1, <2>2, CachesFinite, FS_Subset DEF CountInv, UsersExact
<1>6. RemoversAlone'
  <2>1. CASE p = "closed"
    BY <1>1, <1>2, <1>3, <2>1 DEF IntactInv, RemoversAlone, Removers, Counted
  <2>2. CASE p # "closed"
    <3>1. Counted' = {}
      BY <1>1, <1>5, <2>2, FS_EmptySet
    <3> QED
      BY <3>1 DEF RemoversAlone
  <2> QED
    BY <2>1, <2>2
<1>7. ASSUME NEW d \in Caches \ overlapped
      PROVE  /\ phase'[d] \in {"making", "reading"} => StartsEmpty(d)'
             /\ phase'[d] = "open" => KnownFilesExist(d)'
             /\ phase'[d] \in {"making", "reading", "open"} => ~straggling'[d]
  BY <1>2, <1>3, <1>4 DEF IntactInv, StartsEmpty, KnownFilesExist
<1> QED
  BY <1>2, <1>6, <1>7 DEF IntactInv

(* The rest of close(): only removers step, and then nobody is a user who  *)
(* did not open meanwhile.                                                 *)
LEMMA ClosingIntact ==
    ASSUME CountInv, IntactInv, NEW c \in Caches, Closing(c)
    PROVE  IntactInv'
<1>1. PICK p \in {"removing", "closed"} : phase' = [phase EXCEPT ![c] = p]
  BY DEF Closing, Drained, Removed, RemoveFails
<1>2. c \in Removers /\ UNCHANGED overlapped
  BY DEF Closing, Drained, Removed, RemoveFails, Removers
<1>3. \A d \in Caches \ overlapped : d \notin Counted
  BY <1>2 DEF IntactInv, RemoversAlone
<1>4. \A d \in Caches \ overlapped :
          phase'[d] \notin {"making", "reading", "open", "broken"}
  BY <1>1, <1>3 DEF Counted, CountInv, BaseTypes
<1>5. RemoversAlone'
  BY <1>2, <1>4 DEF RemoversAlone, Counted
<1> QED
  BY <1>2, <1>4, <1>5 DEF IntactInv

LEMMA StoreIntact ==
    ASSUME CountInv, IntactInv, NEW c \in Caches, NEW k \in Keys,
           PutMeasure(c, k) \/ CommitRecord(c, k)
    PROVE  IntactInv'
<1>1. /\ queue' = Append(queue, <<c, k>>)
      /\ UNCHANGED <<phase, shardFiles, straggling, dirExists, files, overlapped>>
  BY DEF PutMeasure, CommitRecord, Persist, diskVars
<1>2. \A d \in Caches : renamed'[d] \subseteq renamed[d]
  BY DEF PutMeasure, CommitRecord, CountInv, BaseTypes
<1>3. \A x : Queued(x)' => Queued(x) \/ x = <<c, k>>
  BY <1>1, QueuedAfterAppend DEF CountInv, Jobs
<1>4. c \notin overlapped => phase[c] \notin {"making", "reading"}
  BY DEF PutMeasure, CommitRecord, CanStore, IntactInv, StartsEmpty
<1>5. c \notin overlapped /\ phase[c] = "open" /\ k \in Renders => k \in files
  BY KeysDisjoint
  DEF PutMeasure, CommitRecord, IntactInv, KnownFilesExist
<1>6. RemoversAlone'
  BY <1>1 DEF IntactInv, RemoversAlone, Removers, Counted
<1>7. ASSUME NEW d \in Caches \ overlapped, phase'[d] \in {"making", "reading"}
      PROVE  StartsEmpty(d)'
  <2>1. d # c
    BY <1>1, <1>4, <1>7
  <2>2. \A j \in Keys : <<d, j>> # <<c, k>>
    BY <2>1
  <2> QED
    BY <1>1, <1>2, <1>3, <1>7, <2>2 DEF IntactInv, StartsEmpty
<1>8. ASSUME NEW d \in Caches \ overlapped, phase'[d] = "open"
      PROVE  KnownFilesExist(d)'
  <2>1. \A j \in Renders : <<d, j>> = <<c, k>> => j \in files
    BY <1>1, <1>5, <1>8
  <2> QED
    BY <1>1, <1>2, <1>3, <1>8, <2>1 DEF IntactInv, KnownFilesExist
<1> QED
  BY <1>1, <1>6, <1>7, <1>8 DEF IntactInv

LEMMA RenameIntact ==
    ASSUME CountInv, IntactInv, NEW c \in Caches, NEW k \in Keys,
           CommitRename(c, k)
    PROVE  IntactInv'
<1>1. /\ phase[c] = "open" \/ straggling[c]
      /\ files' = files \union {k}
      /\ UNCHANGED <<phase, shardFiles, straggling, dirExists, queue, overlapped>>
  BY DEF CommitRename, CanStore, chainVars
<1>2. /\ renamed'[c] = renamed[c] \union {k}
      /\ \A d \in Caches : d # c => renamed'[d] = renamed[d]
  BY DEF CommitRename, CountInv, BaseTypes
<1>3. \A x : Queued(x)' = Queued(x)
  BY <1>1 DEF Queued
<1>4. RemoversAlone'
  BY <1>1 DEF IntactInv, RemoversAlone, Removers, Counted
<1>5. ASSUME NEW d \in Caches \ overlapped, phase'[d] \in {"making", "reading"}
      PROVE  StartsEmpty(d)'
  <2>1. d # c
    BY <1>1, <1>5 DEF IntactInv
  <2> QED
    BY <1>1, <1>2, <1>3, <1>5, <2>1 DEF IntactInv, StartsEmpty
<1>6. ASSUME NEW d \in Caches \ overlapped, phase'[d] = "open"
      PROVE  KnownFilesExist(d)'
  BY <1>1, <1>2, <1>3, <1>6 DEF IntactInv, KnownFilesExist
<1> QED
  BY <1>1, <1>4, <1>5, <1>6 DEF IntactInv

(* A path is handed out only for a file that is there.                     *)
LEMMA HandOutIntact ==
    ASSUME CountInv, IntactInv, NEW c \in Caches, NEW k,
           shardFiles' = [shardFiles EXCEPT ![c] = @ \union {k}],
           phase[c] = "open", c \notin overlapped => k \in files,
           UNCHANGED <<phase, renamed, straggling, dirExists, files, overlapped>>,
           \A x : Queued(x)' => Queued(x)
    PROVE  IntactInv'
<1>1. RemoversAlone'
  BY DEF IntactInv, RemoversAlone, Removers, Counted
<1>2. /\ shardFiles'[c] = shardFiles[c] \union {k}
      /\ \A d \in Caches : d # c => shardFiles'[d] = shardFiles[d]
  BY DEF CountInv, BaseTypes
<1>3. ASSUME NEW d \in Caches \ overlapped, phase'[d] \in {"making", "reading"}
      PROVE  StartsEmpty(d)'
  BY <1>2, <1>3 DEF IntactInv, StartsEmpty
<1>4. ASSUME NEW d \in Caches \ overlapped, phase'[d] = "open"
      PROVE  KnownFilesExist(d)'
  BY <1>2, <1>4 DEF IntactInv, KnownFilesExist
<1> QED
  BY <1>1, <1>3, <1>4 DEF IntactInv

LEMMA GetIntact ==
    ASSUME CountInv, IntactInv, NEW c \in Caches, NEW k \in Keys, GetRender(c, k)
    PROVE  IntactInv'
<1>1. /\ phase[c] = "open"
      /\ UNCHANGED <<phase, renamed, straggling, dirExists, files, queue, overlapped>>
  BY DEF GetRender, chainVars, diskVars
<1>2. \A x : Queued(x)' => Queued(x)
  BY <1>1 DEF Queued
<1>3. CASE UNCHANGED shardFiles
  BY <1>1, <1>2, <1>3, IntactStable DEF CountInv
<1>4. CASE k \in files /\ shardFiles' = [shardFiles EXCEPT ![c] = @ \union {k}]
  BY <1>1, <1>2, <1>4, HandOutIntact
<1> QED
  BY <1>3, <1>4 DEF GetRender

LEMMA PersistIntact ==
    ASSUME CountInv, IntactInv, Persisting
    PROVE  IntactInv'
<1>1. /\ UNCHANGED <<phase, renamed, straggling, dirExists, files, overlapped>>
      /\ queue # <<>>
      /\ queue' = queue \/ queue' = Tail(queue)
  BY DEF Persisting, PersistRead, PersistWrite, PersistRename, PersistLost,
         Settle, cacheVars, diskVars
<1>2. \A x : Queued(x)' => Queued(x)
  BY <1>1, QueuedAfterTail DEF CountInv, Queued
<1>3. CASE UNCHANGED shardFiles
  BY <1>1, <1>2, <1>3, IntactStable DEF CountInv
<1>4. CASE PersistRename /\ shardFiles' # shardFiles
  <2>1. PICK c \in Caches, k \in Keys : c = Head(queue)[1] /\ k = Head(queue)[2]
    BY <1>1, HeadIsJob DEF CountInv
  <2>2. /\ k \in Renders /\ phase[c] = "open"
        /\ shardFiles' = [shardFiles EXCEPT ![c] = @ \union {k}]
    BY <1>4, <2>1 DEF PersistRename
  <2>3. Queued(<<c, k>>)
    <3>1. Head(queue) \in Caches \X Keys /\ Head(queue) = queue[1] /\ 1 \in DOMAIN queue
      BY <1>1 DEF CountInv, BaseTypes, Jobs
    <3>2. Head(queue) = <<c, k>>
      BY <2>1, <3>1
    <3> QED
      BY <3>1, <3>2 DEF Queued
  <2>4. c \notin overlapped => k \in files
    BY <2>2, <2>3 DEF IntactInv, KnownFilesExist
  <2> QED
    BY <1>1, <1>2, <2>2, <2>4, HandOutIntact
<1> QED
  BY <1>3, <1>4
  DEF Persisting, PersistRead, PersistWrite, PersistLost, cacheVars

LEMMA IntactNext == CountInv /\ IntactInv /\ [Next]_vars => IntactInv'
<1> SUFFICES ASSUME CountInv, IntactInv, [Next]_vars PROVE IntactInv'
  OBVIOUS
<1>1. CASE UNCHANGED vars
  <2>1. UNCHANGED <<phase, straggling, shardFiles, renamed, queue, dirExists,
                    files, overlapped>>
    BY <1>1 DEF vars, cacheVars, chainVars, diskVars
  <2>2. \A x : Queued(x)' => Queued(x)
    BY <2>1 DEF Queued
  <2> QED
    BY <2>1, <2>2, IntactStable DEF CountInv
<1>2. CASE Crash
  <2>1. overlapped' = {} /\ \A c \in Caches : phase'[c] = "idle"
    BY <1>2 DEF Crash
  <2> QED
    BY <2>1 DEF IntactInv, RemoversAlone, Removers
<1> QED
  BY <1>1, <1>2, OpenIntact, OpeningIntact, CloseIntact, ClosingIntact,
     StoreIntact, RenameIntact, GetIntact, PersistIntact
  DEF Next

LEMMA IntactInit == Init => IntactInv
<1> SUFFICES ASSUME Init PROVE IntactInv
  OBVIOUS
<1>1. overlapped = {} /\ \A c \in Caches : phase[c] = "idle"
  BY DEF Init
<1> QED
  BY <1>1 DEF IntactInv, RemoversAlone, Removers

(* close(): while a cache is open its directory stays, and so does every   *)
(* shard file it was told of, unless the cache itself opened the directory *)
(* while a close() was removing it.                                        *)
THEOREM IntactIfAlone == Spec => []IntactUnlessOverlapped
<1>1. IntactInv => IntactUnlessOverlapped
  BY DEF IntactInv, KnownFilesExist, IntactUnlessOverlapped
<1> QED
  BY <1>1, IntactInit, IntactNext, CountInvariant, PTL DEF Spec

(* So no open cache loses anything when no run opens a directory that a    *)
(* close() is removing.                                                    *)
THEOREM OpenStaysIntact ==
    ASSUME Overlap = FALSE
    PROVE  Spec => []OpenIsIntact
<1>1. IntactInv => OpenIsIntact
  BY DEF IntactInv, KnownFilesExist, OpenIsIntact
<1> QED
  BY <1>1, IntactInit, IntactNext, CountInvariant, PTL DEF Spec

-----------------------------------------------------------------------------
(* A cleanup that was asked for is done.                                   *)

(* Somebody is at it, or the last of the users that are left will be.      *)
RemovalDue == requested => Removers # {} \/ (pendingDestroy /\ users > 0)

LEMMA UsersNatural == ASSUME UsersExact' PROVE users' \in Nat
<1>1. Counted' \subseteq Caches
  BY DEF Counted
<1>2. IsFiniteSet(Counted')
  BY <1>1, CachesFinite, FS_Subset
<1> QED
  BY <1>2, FS_CardinalityType DEF UsersExact

(* A step that closes no cache drops no user and nobody's request.         *)
LEMMA DueStable ==
    ASSUME CountInv, RemovalDue, requested' => requested, users' \in Nat,
           Removers \subseteq Removers', users' >= users, pendingDestroy' = pendingDestroy
    PROVE  RemovalDue'
  BY CountedFinite DEF RemovalDue, CountInv, UsersExact, BaseTypes

LEMMA CloseDue ==
    ASSUME CountInv, RemovalDue, NEW c \in Caches, NEW destroy \in BOOLEAN,
           Close(c, destroy)
    PROVE  RemovalDue'
<1>1. phase[c] = "open" /\ phase \in [Caches -> Phases] /\ destroy \in BOOLEAN
  BY DEF Close, MayClose, CountInv, BaseTypes
<1>2. users' \in Nat
  BY CloseCount, UsersNatural DEF CountInv
<1>3. CASE LastOut(users', Pending(destroy))
  <2>1. \/ phase' = [phase EXCEPT ![c] = "draining"]
        \/ phase' = [phase EXCEPT ![c] = "removing"]
    BY <1>3 DEF Close
  <2>2. c \in Removers'
    BY <1>1, <2>1 DEF Removers
  <2> QED
    BY <2>2 DEF RemovalDue
<1>4. CASE ~LastOut(users', Pending(destroy))
  <2>1. /\ phase' = [phase EXCEPT ![c] = "closed"]
        /\ pendingDestroy' = Pending(destroy)
    BY <1>4 DEF Close
  <2>2. Removers' = Removers
    BY <1>1, <2>1 DEF Removers
  <2>3. Pending(destroy) => users' > 0
    BY <1>2, <1>4 DEF LastOut
  <2>4. requested' = (requested \/ destroy)
    BY DEF Close
  <2> QED
    BY <2>1, <2>2, <2>3, <2>4 DEF RemovalDue, Pending
<1> QED
  BY <1>3, <1>4

LEMMA DueNext == CountInv /\ RemovalDue /\ [Next]_vars => RemovalDue'
<1> SUFFICES ASSUME CountInv, RemovalDue, [Next]_vars PROVE RemovalDue'
  OBVIOUS
<1>1. CountInv' /\ users \in Nat /\ users' \in Nat /\ phase \in [Caches -> Phases]
  <2>1. CountInv'
    BY NextCount
  <2>2. users' \in Nat
    BY <2>1, UsersNatural DEF CountInv
  <2> QED
    BY <2>1, <2>2, CountedFinite DEF CountInv, UsersExact, BaseTypes
<1>2. ASSUME UNCHANGED <<phase, requested, users, pendingDestroy>> PROVE RemovalDue'
  BY <1>2 DEF RemovalDue, Removers
<1>3. CASE UNCHANGED vars
  BY <1>2, <1>3 DEF vars, cacheVars, dirVars
<1>4. ASSUME NEW c \in Caches, Open(c) PROVE RemovalDue'
  <2>1. Removers' = Removers
    BY <1>1, <1>4 DEF Open, Removers
  <2> QED
    BY <1>1, <1>4, <2>1, DueStable DEF Open
<1>5. ASSUME NEW c \in Caches, Opening(c) PROVE RemovalDue'
  <2>1. PICK p \in {"reading", "broken", "open"} : phase' = [phase EXCEPT ![c] = p]
    BY <1>5 DEF Opening, OpenMkdir, OpenRead
  <2>2. phase[c] \in {"making", "reading"}
    BY <1>5 DEF Opening, OpenMkdir, OpenRead
  <2>3. Removers' = Removers
    BY <1>1, <2>1, <2>2 DEF Removers
  <2>4. UNCHANGED <<requested, users, pendingDestroy>>
    BY <1>5 DEF Opening, OpenMkdir, OpenRead, dirVars
  <2> QED
    BY <1>1, <2>3, <2>4, DueStable
<1>6. ASSUME NEW c \in Caches, Closing(c) PROVE RemovalDue'
  <2>1. CASE Drained(c)
    <3>1. c \in Removers'
      BY <1>1, <2>1 DEF Drained, Removers
    <3> QED
      BY <3>1 DEF RemovalDue
  <2>2. CASE Removed(c) \/ RemoveFails(c)
    BY <2>2 DEF Removed, RemoveFails, RemovalDue
  <2> QED
    BY <1>6, <2>1, <2>2 DEF Closing
<1>7. ASSUME NEW c \in Caches, NEW k \in Keys,
             PutMeasure(c, k) \/ CommitRename(c, k) \/ CommitRecord(c, k) \/ GetRender(c, k)
      PROVE  RemovalDue'
  BY <1>2, <1>7 DEF PutMeasure, CommitRename, CommitRecord, GetRender, Persist, dirVars
<1>8. CASE Persisting
  BY <1>2, <1>8
  DEF Persisting, PersistRead, PersistWrite, PersistRename, PersistLost, Settle,
      cacheVars, dirVars
<1>9. CASE Crash
  BY <1>9 DEF Crash, RemovalDue
<1> QED
  BY <1>3, <1>4, <1>5, <1>6, <1>7, <1>8, <1>9, CloseDue DEF Next

(* close(): a cleanup that any closer has asked for, while others used the *)
(* directory or writes were queued, has happened or failed aloud by the    *)
(* time nobody uses the directory any more; only an open() that failed     *)
(* holds it up.                                                            *)
THEOREM CleanupIsHonoured == Spec => []CleanupHonoured
<1>1. Init => RemovalDue
  BY DEF Init, RemovalDue
<1>2. CountInv /\ RemovalDue => CleanupHonoured
  <2> SUFFICES ASSUME CountInv, RemovalDue, Quiescent, requested
               PROVE  \E c \in Caches : phase[c] = "broken"
    BY DEF CleanupHonoured
  <2>1. Removers = {}
    BY DEF Quiescent, Removers
  <2>2. Counted # {}
    BY <2>1, FS_EmptySet DEF RemovalDue, CountInv, UsersExact
  <2> QED
    BY <2>2 DEF Counted, Quiescent
<1> QED
  BY <1>1, <1>2, DueNext, CountInvariant, PTL DEF Spec
=============================================================================
