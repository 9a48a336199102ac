------------------------------ MODULE Generate ------------------------------
(***************************************************************************)
(* generate() of the orchestrator: measure every shard, derive the context *)
(* (offsets, total, pages of the anchors), render every shard with it, and *)
(* assemble the renders, checking their page counts against the measured   *)
(* ones.  Calls share a cache directory: one after the other, when a later *)
(* call resumes what an earlier one left, or at the same time.             *)
(*                                                                         *)
(* All calls have the same plan, so a measurement is keyed by its shard.   *)
(* The pool is a worker that ends well or not (WorkerPool has the rest; an *)
(* aborted signal is one of the reasons not to); a manifest write is one   *)
(* step, and so is the removal of the directory, which no call opens in    *)
(* between (ShardCache has the rest); assemble() replaces the output whole *)
(* or not at all (Publication has the rest).  The adapter is not trusted:  *)
(* each call of it may give any of its results.                            *)
(***************************************************************************)
EXTENDS Naturals, FiniteSets, Sequences, Functions

CONSTANTS
    Runs,         \* calls of generate()
    N,            \* number of shards of the plan
    Results,      \* what measure() may return for each shard
    PageCounts,   \* how many pages a render may turn out to have
    Wanted,       \* anchors the requested outline refers to
    KeepCache,    \* the calls with options.keepCache
    Faults        \* what may fail

FaultKinds == {"worker", "store", "listener", "assemble", "crash"}

Shards == 1..N
None == [pages |-> 0, anchors |-> {}]

ASSUME ShardsPositive == N \in Nat \ {0}
ASSUME KeepCacheRuns == KeepCache \subseteq Runs
ASSUME FaultsKnown == Faults \subseteq FaultKinds
ASSUME ResultsHavePages ==
    \A i \in Shards : \A m \in Results[i] : m.pages \in Nat \ {0}

VARIABLES
    pc,           \* how far each call is
    task,         \* how far each call is with each shard, in the current pass
    measures,     \* the call's results of pass 1
    view,         \* the cache's copy of the manifest: `data`
    saved,        \* the manifest on disk
    shardFiles,   \* the renders on disk, by key: their pages
    temps,        \* temporary files on disk, by call and shard: their pages
    dirExists,    \* the cache directory is there
    pending,      \* pendingDestroy of the registry
    succeeded,    \* the calls that have set `succeeded`
    assembled,    \* what assemble() has read, by call
    output,       \* the shards of the document at the output path
    complete      \* history: what calls have stored since the last removal, and
                  \* which have published since then or since a crash

vars == <<pc, task, measures, view, saved, shardFiles, temps, dirExists, pending,
          succeeded, assembled, output, complete>>
disk == <<saved, shardFiles, temps, dirExists, complete>>

Empty == [measures |-> [i \in {} |-> None], renders |-> {}]
NothingDone == [measures |-> {}, renders |-> {}, published |-> {}]

(* The cache of a call counts as a user of the directory.                  *)
IsOpen(r) == pc[r] \in {"measuring", "rendering", "assembling", "published"}

Init ==
    /\ pc = [r \in Runs |-> "idle"]
    /\ task = [r \in Runs |-> [i \in Shards |-> "todo"]]
    /\ measures = [r \in Runs |-> [i \in Shards |-> None]]
    /\ view = [r \in Runs |-> Empty]
    /\ saved = Empty
    /\ shardFiles = [k \in {} |-> 0]
    /\ temps = [f \in {} |-> 0]
    /\ dirExists = FALSE
    /\ pending = FALSE
    /\ succeeded = {}
    /\ assembled = [r \in Runs |-> <<>>]
    /\ output = <<>>
    /\ complete = NothingDone

-----------------------------------------------------------------------------
(* The context of pass 2.                                                  *)

PagesOf(m) == [i \in Shards |-> m[i].pages]

PagesBefore(m, i) == SumFunctionOnSet(PagesOf(m), 1..(i - 1))

TotalPages(m) == SumFunctionOnSet(PagesOf(m), Shards)

(* Every anchor with the shard that has it.                                *)
Anchors(m) == UNION {{i} \X m[i].anchors : i \in Shards}

AnchorPages(m) ==
    {[name |-> a[2].name, page |-> PagesBefore(m, a[1]) + a[2].page + 1] : a \in Anchors(m)}

DuplicateAnchor(m) == \E a, b \in Anchors(m) : a # b /\ a[2].name = b[2].name
UnknownAnchor(m) == \E name \in Wanted : \A a \in Anchors(m) : a[2].name # name

(* renderKey(): the shard and its context.                                 *)
KeyOf(m, i) ==
    [shard |-> i, offset |-> PagesBefore(m, i), total |-> TotalPages(m),
     anchors |-> AnchorPages(m)]
Key(r, i) == KeyOf(measures[r], i)

-----------------------------------------------------------------------------
(* The end of a call: the finally block disposes of the pool and closes    *)
(* the cache.                                                              *)

(* Mutant of Destroy: a failed call asks for the removal as well.          *)
DestroyAlways(r) == r \notin KeepCache

Destroy(r) == r \in succeeded /\ r \notin KeepCache

LastUser(r) == \A s \in Runs \ {r} : ~IsOpen(s)

RemoveDirectory ==
    /\ saved' = Empty
    /\ shardFiles' = [k \in {} |-> 0]
    /\ temps' = [f \in {} |-> 0]
    /\ dirExists' = FALSE
    /\ complete' = NothingDone

Leave(r, outcome) ==
    /\ pc' = [pc EXCEPT ![r] = outcome]
    /\ assembled' = [assembled EXCEPT ![r] = <<>>]
    /\ IF LastUser(r) /\ (pending \/ Destroy(r))
       THEN RemoveDirectory /\ pending' = FALSE
       ELSE UNCHANGED disk /\ pending' = (pending \/ Destroy(r))

Reject(r) ==
    /\ Leave(r, "rejected")
    /\ UNCHANGED <<task, measures, view, succeeded, output>>

-----------------------------------------------------------------------------
(* The manifest: persistNow() merges what is on disk with the call's copy. *)

(* Mutant of Merged: the copy replaces what is on disk.                    *)
MergedBlindly(mine) == mine

Merged(mine) ==
    [measures |-> [i \in DOMAIN saved.measures \cup DOMAIN mine.measures |->
                      IF i \in DOMAIN mine.measures THEN mine.measures[i]
                      ELSE saved.measures[i]],
     renders |-> saved.renders \cup mine.renders]

(* A task that has its result reports it, and onProgress() may throw.      *)
Reported == {"done"} \cup IF "listener" \in Faults THEN {"failed"} ELSE {}

(* The write fails, also because the directory is gone.                    *)
PersistFails(r, i) ==
    /\ "store" \in Faults \/ ~dirExists
    /\ view' = [view EXCEPT ![r] = Merged(@)]
    /\ task' = [task EXCEPT ![r][i] = "failed"]
    /\ UNCHANGED <<saved, complete>>

PersistSucceeds(r, i) ==
    /\ dirExists
    /\ saved' = Merged(view[r])
    /\ view' = [view EXCEPT ![r] = Merged(@)]
    /\ \E t \in Reported : task' = [task EXCEPT ![r][i] = t]

-----------------------------------------------------------------------------
(* Pass 1.  A task outlives the call that is rejected because of another   *)
(* one, and dies only with the process.                                    *)

(* A call that is refused before it opens the cache.                       *)
Refuse(r) ==
    /\ pc[r] = "idle"
    /\ pc' = [pc EXCEPT ![r] = "rejected"]
    /\ UNCHANGED <<task, measures, view, disk, pending, succeeded, assembled,
                   output>>

(* getMeasure(), of a cache that has just read the manifest.               *)
GetMeasure(i) == IF i \in DOMAIN saved.measures THEN saved.measures[i] ELSE None

(* open(), then the lookups of all shards before anything else runs.       *)
Open(r) ==
    /\ pc[r] = "idle"
    /\ pc' = [pc EXCEPT ![r] = "measuring"]
    /\ dirExists' = TRUE
    /\ view' = [view EXCEPT ![r] = saved]
    /\ measures' = [measures EXCEPT ![r] = [i \in Shards |-> GetMeasure(i)]]
    /\ \E t \in Reported :
          task' = [task EXCEPT ![r] =
                      [i \in Shards |-> IF GetMeasure(i) = None THEN "measuring" ELSE t]]
    /\ UNCHANGED <<saved, shardFiles, temps, complete, pending, succeeded, assembled, output>>

(* pool.run() ends, and putMeasure() notes the result.                     *)
MeasureEnds(r, i) ==
    /\ task[r][i] = "measuring"
    /\ \/ \E m \in Results[i] :
             /\ measures' = [measures EXCEPT ![r][i] = m]
             /\ view' = [view EXCEPT ![r].measures =
                            [j \in DOMAIN @ \cup {i} |-> IF j = i THEN m ELSE @[j]]]
             /\ task' = [task EXCEPT ![r][i] = "storing"]
       \/ /\ "worker" \in Faults
          /\ task' = [task EXCEPT ![r][i] = "failed"]
          /\ UNCHANGED <<measures, view>>
    /\ UNCHANGED <<pc, disk, pending, succeeded, assembled, output>>

StoreMeasure(r, i) ==
    /\ task[r][i] = "storing"
    /\ \/ PersistFails(r, i)
       \/ PersistSucceeds(r, i) /\ complete' = [complete EXCEPT !.measures = @ \cup {i}]
    /\ UNCHANGED <<pc, measures, shardFiles, temps, dirExists, pending, succeeded,
                   assembled, output>>

AllDone(r) == \A i \in Shards : task[r][i] = "done"

(* The context is derived; a plan that cannot be rendered fails here.      *)
EndPass1(r) ==
    /\ pc[r] = "measuring"
    /\ AllDone(r)
    /\ \/ /\ DuplicateAnchor(measures[r]) \/ UnknownAnchor(measures[r])
          /\ Reject(r)
       \/ /\ ~DuplicateAnchor(measures[r]) /\ ~UnknownAnchor(measures[r])
          /\ pc' = [pc EXCEPT ![r] = "rendering"]
          /\ task' = [task EXCEPT ![r] = [i \in Shards |-> "looking"]]
          /\ UNCHANGED <<measures, view, disk, pending, succeeded, assembled,
                         output>>

(* Promise.all() rejects at the first task that does.                      *)
SomeFailed(r) == \E i \in Shards : task[r][i] = "failed"

FailPass(r) ==
    /\ pc[r] \in {"measuring", "rendering"}
    /\ SomeFailed(r)
    /\ Reject(r)

-----------------------------------------------------------------------------
(* Pass 2.                                                                 *)

Temp(r, i) == <<r, i>>
WithoutTemp(r, i) == [f \in DOMAIN temps \ {Temp(r, i)} |-> temps[f]]

(* getRender(): an entry whose file is gone is dropped.                    *)
LookUp(r, i) ==
    /\ task[r][i] = "looking"
    /\ \/ /\ Key(r, i) \in view[r].renders /\ Key(r, i) \in DOMAIN shardFiles
          /\ \E t \in Reported : task' = [task EXCEPT ![r][i] = t]
          /\ UNCHANGED view
       \/ /\ Key(r, i) \notin view[r].renders \/ Key(r, i) \notin DOMAIN shardFiles
          /\ task' = [task EXCEPT ![r][i] = "rendering"]
          /\ view' = [view EXCEPT ![r].renders = @ \ {Key(r, i)}]
    /\ UNCHANGED <<pc, measures, disk, pending, succeeded, assembled, output>>

(* Mutant of AfterFailedRender: the file is promoted all the same.         *)
AfterFailedRenderPromoted == "renaming"

(* A failed render goes through the finally block that removes the file.   *)
AfterFailedRender == "cleaning"

(* The worker has written the temporary file, or fails with part of it.    *)
RenderEnds(r, i) ==
    /\ task[r][i] = "rendering"
    /\ \/ \E pages \in PageCounts :
             /\ dirExists
             /\ temps' = [f \in DOMAIN temps \cup {Temp(r, i)} |->
                             IF f = Temp(r, i) THEN pages ELSE temps[f]]
             /\ task' = [task EXCEPT ![r][i] = "renaming"]
       \/ /\ "worker" \in Faults \/ ~dirExists
          /\ task' = [task EXCEPT ![r][i] = AfterFailedRender]
          /\ temps' = IF dirExists
                      THEN [f \in DOMAIN temps \cup {Temp(r, i)} |->
                               IF f = Temp(r, i) THEN 0 ELSE temps[f]]
                      ELSE temps
    /\ UNCHANGED <<pc, measures, view, saved, shardFiles, dirExists, complete, pending,
                   succeeded, assembled, output>>

(* commitRender(): the rename, which fails when the directory has gone.    *)
Rename(r, i) ==
    /\ task[r][i] = "renaming"
    /\ IF Temp(r, i) \in DOMAIN temps
       THEN /\ shardFiles' = [k \in DOMAIN shardFiles \cup {Key(r, i)} |->
                                 IF k = Key(r, i) THEN temps[Temp(r, i)] ELSE shardFiles[k]]
            /\ temps' = WithoutTemp(r, i)
            /\ view' = [view EXCEPT ![r].renders = @ \cup {Key(r, i)}]
            /\ task' = [task EXCEPT ![r][i] = "recording"]
       ELSE /\ task' = [task EXCEPT ![r][i] = AfterFailedRender]
            /\ UNCHANGED <<shardFiles, temps, view>>
    /\ UNCHANGED <<pc, measures, saved, dirExists, complete, pending, succeeded,
                   assembled, output>>

(* ... and the manifest write that makes it known to later calls.  A task  *)
(* of a rejected call may come so late that its file has been removed.     *)
Record(r, i) ==
    /\ task[r][i] = "recording"
    /\ \/ PersistFails(r, i)
       \/ /\ PersistSucceeds(r, i)
          /\ complete' = [complete EXCEPT !.renders = @ \cup ({Key(r, i)} \intersect DOMAIN shardFiles)]
    /\ UNCHANGED <<pc, measures, shardFiles, temps, dirExists, pending, succeeded,
                   assembled, output>>

Clean(r, i) ==
    /\ task[r][i] = "cleaning"
    /\ temps' = WithoutTemp(r, i)
    /\ task' = [task EXCEPT ![r][i] = "failed"]
    /\ UNCHANGED <<pc, measures, view, saved, shardFiles, dirExists, complete, pending,
                   succeeded, assembled, output>>

EndPass2(r) ==
    /\ pc[r] = "rendering"
    /\ AllDone(r)
    /\ pc' = [pc EXCEPT ![r] = "assembling"]
    /\ UNCHANGED <<task, measures, view, disk, pending, succeeded, assembled,
                   output>>

-----------------------------------------------------------------------------
(* Assembly.                                                               *)

(* Mutant of Agrees: the page count is not compared.                       *)
AgreesUnchecked(r, i) == TRUE

(* The determinism contract, checked by onShard().                         *)
Agrees(r, i) == shardFiles[Key(r, i)] = measures[r][i].pages

AssembleShard(r) ==
    LET i == Len(assembled[r]) + 1
    IN  /\ pc[r] = "assembling"
        /\ i <= N
        /\ \/ /\ Key(r, i) \in DOMAIN shardFiles /\ Agrees(r, i)
              /\ assembled' = [assembled EXCEPT ![r] =
                                 Append(@, [key |-> Key(r, i), pages |-> shardFiles[Key(r, i)]])]
              /\ UNCHANGED <<pc, task, measures, view, disk, pending, succeeded,
                             output>>
           \/ /\ \/ "assemble" \in Faults
                 \/ Key(r, i) \notin DOMAIN shardFiles
                 \/ ~Agrees(r, i)
              /\ Reject(r)

Publish(r) ==
    /\ pc[r] = "assembling"
    /\ Len(assembled[r]) = N
    /\ \/ /\ pc' = [pc EXCEPT ![r] = "published"]
          /\ output' = assembled[r]
          /\ succeeded' = succeeded \cup {r}
          /\ complete' = [complete EXCEPT !.published = @ \cup {r}]
          /\ UNCHANGED <<task, measures, view, saved, shardFiles, temps, dirExists,
                         pending, assembled>>
       \/ "assemble" \in Faults /\ Reject(r)

Resolve(r) ==
    /\ pc[r] = "published"
    /\ Leave(r, "resolved")
    /\ UNCHANGED <<task, measures, view, succeeded, output>>

-----------------------------------------------------------------------------
(* The process dies with all calls in it, and what they had in memory; a   *)
(* later call is made by another process.                                  *)
Crash ==
    /\ "crash" \in Faults
    /\ \E r \in Runs : IsOpen(r)
    /\ pc' = [r \in Runs |-> IF IsOpen(r) \/ pc[r] = "dead" THEN "dead" ELSE pc[r]]
    /\ pending' = FALSE
    /\ task' = [r \in Runs |-> [i \in Shards |-> "todo"]]
    /\ measures' = [r \in Runs |-> [i \in Shards |-> None]]
    /\ view' = [r \in Runs |-> Empty]
    /\ assembled' = [r \in Runs |-> <<>>]
    /\ complete' = [complete EXCEPT !.published = {}]
    /\ UNCHANGED <<saved, shardFiles, temps, dirExists, succeeded, output>>

Task(r, i) ==
    \/ MeasureEnds(r, i) \/ StoreMeasure(r, i)
    \/ LookUp(r, i) \/ RenderEnds(r, i) \/ Rename(r, i) \/ Record(r, i) \/ Clean(r, i)

Call(r) ==
    \/ EndPass1(r) \/ FailPass(r) \/ EndPass2(r)
    \/ AssembleShard(r) \/ Publish(r) \/ Resolve(r)

(* A state with an open call has another step than this one.               *)
Settled == (\A r \in Runs : ~IsOpen(r) /\ pc[r] # "idle") /\ UNCHANGED vars

Next ==
    \/ \E r \in Runs : Refuse(r) \/ Open(r) \/ Call(r)
    \/ \E r \in Runs, i \in Shards : Task(r, i)
    \/ Crash
    \/ Settled

Spec == Init /\ [][Next]_vars

-----------------------------------------------------------------------------
(* Type correctness; a file that was promoted is a whole render.           *)
TypeOK ==
    /\ pc \in [Runs -> {"idle", "measuring", "rendering", "assembling", "published",
                        "resolved", "rejected", "dead"}]
    /\ task \in [Runs -> [Shards -> {"todo", "measuring", "storing", "looking", "rendering",
                                     "renaming", "recording", "cleaning", "done", "failed"}]]
    /\ \A r \in Runs, i \in Shards : measures[r][i] \in Results[i] \cup {None}
    /\ DOMAIN saved.measures \subseteq Shards
    /\ \A i \in DOMAIN saved.measures : saved.measures[i] \in Results[i]
    /\ \A k \in DOMAIN shardFiles : shardFiles[k] \in PageCounts
    /\ DOMAIN temps \subseteq Runs \X Shards
    /\ dirExists \in BOOLEAN /\ pending \in BOOLEAN
    /\ succeeded \subseteq Runs
    /\ \A r \in Runs : Len(assembled[r]) <= N

(* The document that ships is consistent: every shard was rendered with    *)
(* the offset and the total that the pages really in the document give,    *)
(* and all of them with the same anchors - whatever an adapter that breaks *)
(* its contract answers, whichever call rendered or measured what, and     *)
(* also when a render is replaced between the passes (generate()).         *)
LiteralsRight ==
    output # <<>> =>
        LET pages == [i \in Shards |-> output[i].pages]
        IN  /\ Len(output) = N
            /\ \A i \in Shards :
                  /\ output[i].key.shard = i
                  /\ output[i].key.offset = SumFunctionOnSet(pages, 1..(i - 1))
                  /\ output[i].key.total = SumFunctionOnSet(pages, Shards)
                  /\ output[i].key.anchors = output[1].key.anchors

(* What a call has stored is found by every call that opens the directory  *)
(* later: a failed or crashed call is resumed and not redone, and a call   *)
(* at the same time erases nothing of it ("A failed run keeps its cache so *)
(* the next attempt can resume", finally block of generate()).             *)
StoredIsFound ==
    /\ complete.measures \subseteq DOMAIN saved.measures
    /\ complete.renders \subseteq saved.renders \intersect DOMAIN shardFiles

(* Nothing goes from the manifest or the renders as long as a call has the *)
(* directory open, and nothing goes at all before a call that was not told *)
(* to keep it has published, in this process and after the last removal: a *)
(* failed call keeps its cache, whatever calls have come before it, until  *)
(* one on the same directory succeeds.                                     *)
CacheKept ==
    [][\/ /\ DOMAIN shardFiles \subseteq DOMAIN shardFiles'
          /\ DOMAIN saved.measures \subseteq DOMAIN saved'.measures
          /\ saved.renders \subseteq saved'.renders
       \/ /\ complete.published \ KeepCache # {}
          /\ \A r \in Runs : ~IsOpen(r)']_vars
=============================================================================
