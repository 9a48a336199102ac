---------------------------- MODULE GenerateProofs ---------------------------
(***************************************************************************)
(* Proofs about Generate, for any calls, shards, results of the adapter    *)
(* and faults.                                                             *)
(***************************************************************************)
EXTENDS Generate, TLAPS

Pass2States == {"looking", "rendering", "renaming", "recording", "cleaning"}

(* What the variables are made of.                                         *)
IsManifest(m) == m = [measures |-> m.measures, renders |-> m.renders]
IsHistory(h) ==
    h = [measures |-> h.measures, renders |-> h.renders, published |-> h.published]

Measured == {None} \cup UNION {Results[i] : i \in Shards}

HasResults(m) ==
    DOMAIN m.measures \subseteq Shards /\ \A i \in DOMAIN m.measures : m.measures[i] \in Results[i]

Shapes ==
    /\ measures \in [Runs -> [Shards -> Measured]]
    /\ view = [r \in Runs |-> view[r]]
    /\ \A r \in Runs : IsManifest(view[r]) /\ HasResults(view[r])
    /\ IsManifest(saved) /\ HasResults(saved)
    /\ IsHistory(complete)
    /\ DOMAIN assembled = Runs

(* What a task has done by now, with shard i.                              *)
TaskMatches(r, i) ==
    /\ task[r][i] = "storing" => i \in DOMAIN view[r].measures
    /\ task[r][i] = "recording" => Key(r, i) \in view[r].renders
    /\ task[r][i] = "renaming" /\ Temp(r, i) \in DOMAIN temps =>
          temps[Temp(r, i)] \in PageCounts

(* No task of a call is in pass 2 while another one is in pass 1, so the   *)
(* keys of its renders do not change any more.                             *)
PassesApart(r) ==
    \A i, j \in Shards :
        task[r][i] \in Pass2States => task[r][j] \notin {"measuring", "storing"}

(* What assemble() has read: the first n shards, as they were measured.    *)
Prefix(r, n) ==
    [i \in 1..n |-> [key |-> Key(r, i), pages |-> measures[r][i].pages]]

AssembledMatches(r) ==
    /\ pc[r] \in {"assembling", "published"} =>
          AllDone(r) /\ \E n \in 0..N : assembled[r] = Prefix(r, n)
    /\ pc[r] \notin {"assembling", "published"} => assembled[r] = <<>>

(* A removal that is pending was asked for by a call that has published,   *)
(* and one that will be asked for, by one that has.                        *)
PendingMatches ==
    /\ pending => complete.published \ KeepCache # {}
    /\ \A r \in succeeded : pc[r] # "idle" /\ (IsOpen(r) => r \in complete.published)

GenerateInv ==
    /\ TypeOK /\ Shapes
    /\ \A r \in Runs, i \in Shards : TaskMatches(r, i)
    /\ \A r \in Runs : PassesApart(r) /\ AssembledMatches(r)
    /\ PendingMatches
    /\ LiteralsRight
    /\ StoredIsFound

LEMMA InitGenerate == Init => GenerateInv
<1> SUFFICES ASSUME Init PROVE GenerateInv
  OBVIOUS
<1> USE DEF Init
<1>1. HasResults(Empty) /\ IsManifest(Empty)
  BY DEF HasResults, IsManifest, Empty
<1>2. TypeOK
  <2>1. \A r \in Runs, i \in Shards : measures[r][i] \in Results[i] \cup {None}
    OBVIOUS
  <2>2. \A r \in Runs : Len(assembled[r]) <= N
    BY ShardsPositive
  <2>3. DOMAIN saved.measures \subseteq Shards
        /\ \A i \in DOMAIN saved.measures : saved.measures[i] \in Results[i]
    BY <1>1 DEF HasResults
  <2>4. DOMAIN shardFiles = {} /\ DOMAIN temps = {}
    OBVIOUS
  <2> QED
    BY <2>1, <2>2, <2>3, <2>4 DEF TypeOK
<1>3. Shapes
  <2>1. measures \in [Runs -> [Shards -> Measured]]
    BY DEF Measured
  <2>2. IsHistory(complete)
    BY DEF IsHistory, NothingDone
  <2>3. view = [r \in Runs |-> view[r]] /\ \A r \in Runs : view[r] = Empty
    OBVIOUS
  <2>4. saved = Empty /\ DOMAIN assembled = Runs
    OBVIOUS
  <2> HIDE DEF Init
  <2> QED
    BY <1>1, <2>1, <2>2, <2>3, <2>4 DEF Shapes
<1>4. \A r \in Runs, i \in Shards : TaskMatches(r, i)
  BY DEF TaskMatches
<1>5. \A r \in Runs : PassesApart(r) /\ AssembledMatches(r)
  BY DEF PassesApart, AssembledMatches, Pass2States
<1>6. PendingMatches /\ LiteralsRight /\ StoredIsFound
  BY DEF PendingMatches, LiteralsRight, StoredIsFound, NothingDone
<1> QED
  BY <1>2, <1>3, <1>4, <1>5, <1>6 DEF GenerateInv

-----------------------------------------------------------------------------
(* Steps that leave parts of the invariant alone.                          *)

(* Nothing happens to what a call has assembled.                           *)
LEMMA AssemblyStays ==
    ASSUME NEW r \in Runs, AssembledMatches(r),
           pc'[r] = pc[r], assembled'[r] = assembled[r],
           pc[r] \in {"assembling", "published"} =>
               measures'[r] = measures[r] /\ task'[r] = task[r]
    PROVE  AssembledMatches(r)'
<1>1. CASE pc[r] \in {"assembling", "published"}
  <2>1. PICK n \in 0..N : assembled[r] = Prefix(r, n)
    BY <1>1 DEF AssembledMatches
  <2>2. Prefix(r, n)' = Prefix(r, n)
    BY <1>1 DEF Prefix, Key
  <2>3. AllDone(r)'
    BY <1>1 DEF AssembledMatches, AllDone
  <2> QED
    BY <1>1, <2>1, <2>2, <2>3 DEF AssembledMatches
<1>2. CASE pc[r] \notin {"assembling", "published"}
  BY <1>2 DEF AssembledMatches
<1> QED
  BY <1>1, <1>2

(* A step of one task, which leaves the calls where they are.              *)
TaskStep(r, i, t) ==
    /\ task' = [task EXCEPT ![r][i] = t]
    /\ task[r][i] # "done"
    /\ t \in Pass2States => task[r][i] \in Pass2States
    /\ t \in {"measuring", "storing"} => task[r][i] \in {"measuring", "storing"}
    /\ complete'.published = complete.published
    /\ UNCHANGED <<pc, pending, succeeded, assembled, output>>

LEMMA TaskStepFrame ==
    ASSUME GenerateInv, NEW r \in Runs, NEW i \in Shards, NEW t, TaskStep(r, i, t),
           \A s \in Runs \ {r} : measures'[s] = measures[s]
    PROVE  /\ \A s \in Runs : PassesApart(s)' /\ AssembledMatches(s)'
           /\ PendingMatches' /\ LiteralsRight'
           /\ task'[r][i] = t
           /\ \A s \in Runs, j \in Shards : <<s, j>> # <<r, i>> => task'[s][j] = task[s][j]
<1>1. /\ task \in [Runs -> [Shards -> {"todo", "measuring", "storing", "looking", "rendering",
                                     "renaming", "recording", "cleaning", "done", "failed"}]]
      /\ task' = [task EXCEPT ![r][i] = t] /\ task[r][i] # "done"
  BY DEF GenerateInv, TypeOK, TaskStep
<1>2. /\ task'[r][i] = t
      /\ \A s \in Runs, j \in Shards : <<s, j>> # <<r, i>> => task'[s][j] = task[s][j]
      /\ \A s \in Runs : s # r => task'[s] = task[s]
  BY <1>1
<1>3. \A s \in Runs : PassesApart(s)'
  BY <1>2 DEF GenerateInv, PassesApart, TaskStep
<1>4. ASSUME NEW s \in Runs PROVE AssembledMatches(s)'
  <2>1. pc[r] \notin {"assembling", "published"}
    BY <1>1 DEF GenerateInv, AssembledMatches, AllDone
  <2>2. s # r => task'[s] = task[s] /\ measures'[s] = measures[s]
    BY <1>2
  <2> QED
    BY <2>1, <2>2, AssemblyStays DEF GenerateInv, TaskStep
<1>5. PendingMatches' /\ LiteralsRight'
  BY DEF GenerateInv, PendingMatches, LiteralsRight, TaskStep, IsOpen
<1> QED
  BY <1>2, <1>3, <1>4, <1>5

(* The keys of different shards differ.                                    *)
LEMMA KeysDiffer ==
    ASSUME NEW r, NEW i, NEW j, i # j
    PROVE  Key(r, i) # Key(r, j)
  BY DEF Key, KeyOf

LEMMA SameKey ==
    ASSUME NEW r \in Runs, NEW i, measures'[r] = measures[r]
    PROVE  Key(r, i)' = Key(r, i)
  BY DEF Key

-----------------------------------------------------------------------------
(* The manifest.                                                           *)

LEMMA MergedHas ==
    ASSUME Shapes, NEW r \in Runs
    PROVE  /\ IsManifest(Merged(view[r])) /\ HasResults(Merged(view[r]))
           /\ DOMAIN saved.measures \cup DOMAIN view[r].measures
              \subseteq DOMAIN Merged(view[r]).measures
           /\ saved.renders \cup view[r].renders \subseteq Merged(view[r]).renders
  BY DEF Merged, Shapes, IsManifest, HasResults

(* The two outcomes of a write of the manifest.                            *)
LEMMA PersistKeeps ==
    ASSUME GenerateInv, NEW r \in Runs, NEW i \in Shards,
           task[r][i] \in {"storing", "recording"},
           \/ PersistFails(r, i)
           \/ PersistSucceeds(r, i),
           IsHistory(complete'), complete'.published = complete.published, StoredIsFound',
           UNCHANGED <<pc, measures, shardFiles, temps, dirExists, pending, succeeded,
                       assembled, output>>
    PROVE  GenerateInv'
<1>1. TypeOK /\ Shapes
  BY DEF GenerateInv
<1>2. PICK t \in {"done", "failed"} : task' = [task EXCEPT ![r][i] = t]
  BY DEF PersistFails, PersistSucceeds, Reported
<1>3. /\ view' = [view EXCEPT ![r] = Merged(@)]
      /\ saved' \in {saved, Merged(view[r])}
  BY DEF PersistFails, PersistSucceeds
<1>4. /\ view' = [s \in Runs |-> view'[s]]
      /\ view'[r] = Merged(view[r]) /\ \A s \in Runs \ {r} : view'[s] = view[s]
  BY <1>1, <1>3 DEF Shapes
<1>5. TaskStep(r, i, t)
  BY <1>2 DEF TaskStep, Pass2States
<1>6. /\ \A s \in Runs : PassesApart(s)' /\ AssembledMatches(s)'
      /\ PendingMatches' /\ LiteralsRight'
      /\ task'[r][i] = t
      /\ \A s \in Runs, j \in Shards : <<s, j>> # <<r, i>> => task'[s][j] = task[s][j]
  BY <1>5, TaskStepFrame
<1>7. Shapes'
  <2>1. IsManifest(saved)' /\ HasResults(saved)'
    BY <1>1, <1>3, MergedHas DEF Shapes, IsManifest, IsHistory, HasResults
  <2>2. \A s \in Runs : IsManifest(view[s])' /\ HasResults(view[s])'
    BY SMTT(30), <1>1, <1>4, MergedHas DEF Shapes, IsManifest, HasResults
  <2> QED
    BY <1>1, <1>4, <2>1, <2>2 DEF Shapes, IsManifest
<1>8. TypeOK'
  <2>1. HasResults(saved)'
    BY <1>7 DEF Shapes
  <2>2. task' \in [Runs -> [Shards -> {"todo", "measuring", "storing", "looking", "rendering",
                               "renaming", "recording", "cleaning", "done", "failed"}]]
    BY <1>1, <1>2 DEF TypeOK
  <2> QED
    BY <1>1, <2>1, <2>2 DEF TypeOK, HasResults
<1>9. ASSUME NEW s \in Runs, NEW j \in Shards PROVE TaskMatches(s, j)'
  <2>1. /\ DOMAIN view[s].measures \subseteq DOMAIN view'[s].measures
        /\ view[s].renders \subseteq view'[s].renders
    BY <1>1, <1>4, MergedHas
  <2>2. Key(s, j)' = Key(s, j)
    BY SameKey
  <2>3. task'[s][j] \in {"storing", "recording", "renaming"} => task'[s][j] = task[s][j]
    BY <1>6
  <2> QED
    BY <2>1, <2>2, <2>3 DEF GenerateInv, TaskMatches, Temp
<1> QED
  BY <1>6, <1>7, <1>8, <1>9 DEF GenerateInv

LEMMA StoreMeasureKeeps ==
    ASSUME GenerateInv, NEW r \in Runs, NEW i \in Shards, StoreMeasure(r, i)
    PROVE  GenerateInv'
<1>1. /\ Shapes /\ StoredIsFound /\ i \in DOMAIN view[r].measures
      /\ task[r][i] = "storing"
      /\ UNCHANGED <<pc, measures, shardFiles, temps, dirExists, pending, succeeded,
                     assembled, output>>
  BY DEF GenerateInv, StoreMeasure, TaskMatches
<1>2. CASE PersistFails(r, i)
  <2>1. /\ IsHistory(complete') /\ complete'.published = complete.published
        /\ StoredIsFound'
    BY <1>1, <1>2 DEF PersistFails, StoredIsFound, Shapes
  <2> QED
    BY <1>1, <1>2, <2>1, PersistKeeps
<1>3. CASE PersistSucceeds(r, i) /\ complete' = [complete EXCEPT !.measures = @ \cup {i}]
  <2>1. saved' = Merged(view[r])
    BY <1>3 DEF PersistSucceeds
  <2>2. /\ IsHistory(complete') /\ complete'.measures = complete.measures \cup {i}
        /\ complete'.renders = complete.renders
        /\ complete'.published = complete.published
    BY <1>1, <1>3 DEF Shapes, IsHistory
  <2>3. StoredIsFound'
    BY <1>1, <2>1, <2>2, MergedHas DEF StoredIsFound
  <2> QED
    BY <1>1, <1>3, <2>2, <2>3, PersistKeeps
<1> QED
  BY <1>2, <1>3 DEF StoreMeasure

LEMMA RecordKeeps ==
    ASSUME GenerateInv, NEW r \in Runs, NEW i \in Shards, Record(r, i)
    PROVE  GenerateInv'
<1>1. /\ Shapes /\ StoredIsFound /\ Key(r, i) \in view[r].renders
      /\ task[r][i] = "recording"
      /\ UNCHANGED <<pc, measures, shardFiles, temps, dirExists, pending, succeeded,
                     assembled, output>>
  BY DEF GenerateInv, Record, TaskMatches
<1>2. CASE PersistFails(r, i)
  <2>1. /\ IsHistory(complete') /\ complete'.published = complete.published
        /\ StoredIsFound'
    BY <1>1, <1>2 DEF PersistFails, StoredIsFound, Shapes
  <2> QED
    BY <1>1, <1>2, <2>1, PersistKeeps
<1>3. CASE /\ PersistSucceeds(r, i)
           /\ complete' = [complete EXCEPT !.renders =
                              @ \cup ({Key(r, i)} \intersect DOMAIN shardFiles)]
  <2>1. saved' = Merged(view[r])
    BY <1>3 DEF PersistSucceeds
  <2>2. /\ IsHistory(complete') /\ complete'.measures = complete.measures
        /\ complete'.renders = complete.renders \cup ({Key(r, i)} \intersect DOMAIN shardFiles)
        /\ complete'.published = complete.published
    BY <1>1, <1>3 DEF Shapes, IsHistory
  <2>3. StoredIsFound'
    BY <1>1, <2>1, <2>2, MergedHas DEF StoredIsFound
  <2> QED
    BY <1>1, <1>3, <2>2, <2>3, PersistKeeps
<1> QED
  BY <1>2, <1>3 DEF Record

-----------------------------------------------------------------------------
(* The other steps of a task.                                              *)

TaskStates ==
    {"todo", "measuring", "storing", "looking", "rendering",
     "renaming", "recording", "cleaning", "done", "failed"}

(* Every task has a state, before and after one of them makes a step.      *)
LEMMA TaskTyped ==
    ASSUME TypeOK, NEW r \in Runs, NEW i \in Shards, NEW t \in TaskStates,
           task' = [task EXCEPT ![r][i] = t]
    PROVE  task' \in [Runs -> [Shards -> TaskStates]]
  BY DEF TypeOK, TaskStates

LEMMA MeasureEndsKeeps ==
    ASSUME GenerateInv, NEW r \in Runs, NEW i \in Shards, MeasureEnds(r, i)
    PROVE  GenerateInv'
<1>1. /\ TypeOK /\ Shapes /\ StoredIsFound /\ PassesApart(r)
      /\ task[r][i] = "measuring"
      /\ UNCHANGED <<pc, disk, pending, succeeded, assembled, output>>
  BY DEF GenerateInv, MeasureEnds
<1>2. StoredIsFound'
  BY <1>1 DEF StoredIsFound, disk
<1>3. CASE /\ task' = [task EXCEPT ![r][i] = "failed"]
           /\ UNCHANGED <<measures, view>>
  <2>1. TaskStep(r, i, "failed")
    BY <1>1, <1>3 DEF TaskStep, Pass2States, disk
  <2>2. /\ \A s \in Runs : PassesApart(s)' /\ AssembledMatches(s)'
        /\ PendingMatches' /\ LiteralsRight' /\ task'[r][i] = "failed"
        /\ \A s \in Runs, j \in Shards : <<s, j>> # <<r, i>> => task'[s][j] = task[s][j]
    BY <1>3, <2>1, TaskStepFrame
  <2>3. TypeOK' /\ Shapes'
    BY <1>1, <1>3, TaskTyped
       DEF TypeOK, Shapes, TaskStates, disk, IsManifest, HasResults
  <2>4. ASSUME NEW s \in Runs, NEW j \in Shards PROVE TaskMatches(s, j)'
    <3>1. Key(s, j)' = Key(s, j)
      BY <1>3, SameKey
    <3>2. task'[s][j] \in {"storing", "recording", "renaming"} => task'[s][j] = task[s][j]
      BY <2>2
    <3> QED
      BY <1>1, <1>3, <3>1, <3>2 DEF GenerateInv, TaskMatches, Temp, disk
  <2> QED
    BY <1>2, <2>2, <2>3, <2>4 DEF GenerateInv
<1>4. ASSUME NEW m \in Results[i],
             measures' = [measures EXCEPT ![r][i] = m],
             view' = [view EXCEPT ![r].measures =
                        [j \in DOMAIN @ \cup {i} |-> IF j = i THEN m ELSE @[j]]],
             task' = [task EXCEPT ![r][i] = "storing"]
      PROVE  GenerateInv'
  <2>1. /\ measures' \in [Runs -> [Shards -> Measured]] /\ measures'[r][i] = m
        /\ \A s \in Runs, j \in Shards :
              <<s, j>> # <<r, i>> => measures'[s][j] = measures[s][j]
        /\ \A s \in Runs \ {r} : measures'[s] = measures[s]
    BY <1>1, <1>4 DEF Shapes, Measured
  <2>2. TaskStep(r, i, "storing")
    BY <1>1, <1>4 DEF TaskStep, Pass2States, disk
  <2>3. /\ \A s \in Runs : PassesApart(s)' /\ AssembledMatches(s)'
        /\ PendingMatches' /\ LiteralsRight' /\ task'[r][i] = "storing"
        /\ \A s \in Runs, j \in Shards : <<s, j>> # <<r, i>> => task'[s][j] = task[s][j]
    BY <2>1, <2>2, TaskStepFrame
  <2>4. /\ view' = [s \in Runs |-> view'[s]]
        /\ \A s \in Runs \ {r} : view'[s] = view[s]
        /\ IsManifest(view'[r]) /\ view'[r].renders = view[r].renders
        /\ view'[r].measures =
              [j \in DOMAIN view[r].measures \cup {i} |->
                  IF j = i THEN m ELSE view[r].measures[j]]
    <3>1. PICK noted : noted = [j \in DOMAIN view[r].measures \cup {i} |->
                                   IF j = i THEN m ELSE view[r].measures[j]]
      OBVIOUS
    <3>2. view = [s \in Runs |-> view[s]] /\ IsManifest(view[r])
      BY <1>1 DEF Shapes
    <3>3. view' = [view EXCEPT ![r] = [view[r] EXCEPT !.measures = noted]]
      BY <1>4, <3>1
    <3>4. view' = [s \in Runs |-> IF s = r THEN [view[r] EXCEPT !.measures = noted] ELSE view[s]]
      BY <3>2, <3>3
    <3>5. [view[r] EXCEPT !.measures = noted] = [measures |-> noted, renders |-> view[r].renders]
      BY <3>2 DEF IsManifest
    <3> QED
      BY <3>1, <3>4, <3>5 DEF IsManifest
  <2>5. Shapes'
    <3>1. HasResults(view'[r])
      BY <1>1, <2>4 DEF Shapes, HasResults
    <3>2. ASSUME NEW s \in Runs PROVE IsManifest(view[s])' /\ HasResults(view[s])'
      <4>1. CASE s = r
        BY <2>4, <3>1, <4>1 DEF IsManifest, HasResults
      <4>2. CASE s # r
        BY <1>1, <2>4, <4>2 DEF Shapes, IsManifest, IsHistory, HasResults
      <4> QED
        BY <4>1, <4>2
    <3>3. (IsManifest(saved) /\ HasResults(saved) /\ IsHistory(complete))'
      BY <1>1 DEF Shapes, disk, IsManifest, HasResults
    <3> QED
      BY <1>1, <2>1, <2>4, <3>2, <3>3 DEF Shapes
  <2>6. TypeOK'
    <3>1. \A s \in Runs, j \in Shards : measures'[s][j] \in Results[j] \cup {None}
      BY <1>1, <2>1 DEF TypeOK
    <3>2. task' \in [Runs -> [Shards -> TaskStates]]
      BY <1>1, <1>4, TaskTyped DEF TaskStates
    <3> QED
      BY <1>1, <3>1, <3>2 DEF TypeOK, TaskStates, disk
  <2>7. ASSUME NEW s \in Runs, NEW j \in Shards PROVE TaskMatches(s, j)'
    <3>1. task'[s][j] = "storing" => j \in DOMAIN view'[s].measures
      BY <2>3, <2>4 DEF GenerateInv, TaskMatches
    <3>2. task'[s][j] = "recording" => Key(s, j)' \in view'[s].renders
      <4> SUFFICES ASSUME task'[s][j] = "recording" PROVE Key(s, j)' \in view'[s].renders
        OBVIOUS
      <4>1. task[s][j] = "recording"
        BY <2>3
      <4>2. s # r
        BY <1>1, <4>1 DEF PassesApart, Pass2States
      <4>3. Key(s, j)' = Key(s, j)
        BY <2>1, <4>2, SameKey
      <4> QED
        BY <2>4, <4>1, <4>2, <4>3 DEF GenerateInv, TaskMatches
    <3>3. task'[s][j] = "renaming" => task[s][j] = "renaming"
      BY <2>3
    <3> QED
      BY <1>1, <3>1, <3>2, <3>3 DEF GenerateInv, TaskMatches, Temp, disk
  <2> QED
    BY <1>2, <2>3, <2>5, <2>6, <2>7 DEF GenerateInv
<1> QED
  BY <1>3, <1>4 DEF MeasureEnds

(* A task whose view loses or gains no key but its own.                    *)
LEMMA OwnKeyOnly ==
    ASSUME GenerateInv, NEW r \in Runs, NEW i \in Shards, UNCHANGED measures,
           view' = [view EXCEPT ![r].renders = view'[r].renders],
           \A k : k # Key(r, i) /\ k \in view[r].renders => k \in view'[r].renders
    PROVE  /\ Shapes => /\ view' = [s \in Runs |-> view'[s]]
                        /\ \A s \in Runs : IsManifest(view[s])' /\ HasResults(view[s])'
           /\ \A s \in Runs : view'[s].measures = view[s].measures
           /\ \A s \in Runs, j \in Shards :
                 <<s, j>> # <<r, i>> /\ Key(s, j) \in view[s].renders =>
                    Key(s, j)' \in view'[s].renders
<1>1. /\ view = [s \in Runs |-> view[s]]
      /\ \A s \in Runs : IsManifest(view[s]) /\ HasResults(view[s])
  BY DEF GenerateInv, Shapes
<1>2. PICK renders : renders = view'[r].renders
  OBVIOUS
<1>3. view' = [view EXCEPT ![r].renders = renders]
  BY <1>2
<1>4. /\ view' = [s \in Runs |-> view'[s]]
      /\ \A s \in Runs \ {r} : view'[s] = view[s]
      /\ view'[r] = [measures |-> view[r].measures, renders |-> renders]
  BY <1>1, <1>3 DEF IsManifest
<1>5. \A s \in Runs : IsManifest(view[s])' /\ HasResults(view[s])'
  BY <1>1, <1>4 DEF IsManifest, HasResults
<1>6. ASSUME NEW s \in Runs, NEW j \in Shards,
             <<s, j>> # <<r, i>>, Key(s, j) \in view[s].renders
      PROVE  Key(s, j)' \in view'[s].renders
  <2>1. Key(s, j)' = Key(s, j)
    BY SameKey
  <2>2. s = r => Key(s, j) # Key(r, i)
    BY <1>6, KeysDiffer
  <2> QED
    BY <1>4, <1>6, <2>1, <2>2
<1>7. ASSUME NEW s \in Runs PROVE view'[s].measures = view[s].measures
  <2>1. CASE s = r
    BY <1>4, <2>1
  <2>2. CASE s # r
    BY <1>4, <2>2
  <2> QED
    BY <2>1, <2>2
<1> QED
  BY <1>4, <1>5, <1>6, <1>7

(* A step of a task in pass 2: besides its state, it changes its own key   *)
(* in the call's copy, its temporary file, and adds to the renders.        *)
LEMMA PassTwoStep ==
    ASSUME GenerateInv, NEW r \in Runs, NEW i \in Shards, NEW t \in TaskStates \ {"storing"},
           TaskStep(r, i, t), UNCHANGED <<measures, saved, dirExists, complete>>,
           view' = [view EXCEPT ![r].renders = view'[r].renders],
           \A k : k # Key(r, i) /\ k \in view[r].renders => k \in view'[r].renders,
           t = "recording" => Key(r, i) \in view'[r].renders,
           DOMAIN shardFiles \subseteq DOMAIN shardFiles',
           \A k \in DOMAIN shardFiles' : shardFiles'[k] \in PageCounts,
           DOMAIN temps' \subseteq Runs \X Shards,
           \A f \in DOMAIN temps' : f # Temp(r, i) => f \in DOMAIN temps /\ temps'[f] = temps[f],
           t = "renaming" /\ Temp(r, i) \in DOMAIN temps' => temps'[Temp(r, i)] \in PageCounts
    PROVE  GenerateInv'
<1>1. TypeOK /\ Shapes /\ StoredIsFound
  BY DEF GenerateInv
<1>2. /\ \A s \in Runs : PassesApart(s)' /\ AssembledMatches(s)'
      /\ PendingMatches' /\ LiteralsRight' /\ task'[r][i] = t
      /\ \A s \in Runs, j \in Shards : <<s, j>> # <<r, i>> => task'[s][j] = task[s][j]
  BY TaskStepFrame
<1>3. /\ view' = [s \in Runs |-> view'[s]]
      /\ \A s \in Runs : IsManifest(view[s])' /\ HasResults(view[s])'
      /\ \A s \in Runs : view'[s].measures = view[s].measures
      /\ \A s \in Runs, j \in Shards :
            <<s, j>> # <<r, i>> /\ Key(s, j) \in view[s].renders =>
               Key(s, j)' \in view'[s].renders
  BY <1>1, OwnKeyOnly
<1>4. Shapes'
  BY <1>1, <1>3 DEF Shapes, IsManifest, IsHistory, HasResults, TaskStep
<1>5. TypeOK'
  <2>1. task' \in [Runs -> [Shards -> TaskStates]]
    BY <1>1, TaskTyped DEF TaskStep
  <2> QED
    BY <1>1, <2>1 DEF TypeOK, TaskStates, TaskStep
<1>6. StoredIsFound'
  BY <1>1 DEF StoredIsFound
<1>7. ASSUME NEW s \in Runs, NEW j \in Shards PROVE TaskMatches(s, j)'
  <2>1. Key(s, j)' = Key(s, j)
    BY SameKey
  <2>2. CASE s = r /\ j = i
    BY <1>2, <2>1, <2>2 DEF TaskMatches, Temp
  <2>3. CASE <<s, j>> # <<r, i>>
    <3>1. task'[s][j] = task[s][j] /\ TaskMatches(s, j) /\ Temp(s, j) # Temp(r, i)
      BY <1>2, <2>3 DEF GenerateInv, Temp
    <3> QED
      BY <1>3, <2>3, <3>1 DEF TaskMatches, Temp
  <2> QED
    BY <2>2, <2>3
<1> QED
  BY <1>2, <1>4, <1>5, <1>6, <1>7 DEF GenerateInv

(* A step that leaves the call's copy of the manifest alone.               *)
LEMMA SameView ==
    ASSUME Shapes, NEW r \in Runs, view' = view
    PROVE  view' = [view EXCEPT ![r].renders = view'[r].renders]
<1>1. view = [s \in Runs |-> view[s]] /\ IsManifest(view[r])
  BY DEF Shapes
<1>2. [view[r] EXCEPT !.renders = view[r].renders] = view[r]
  BY <1>1 DEF IsManifest
<1>3. [view EXCEPT ![r] = [view[r] EXCEPT !.renders = view[r].renders]] = view
  BY <1>1, <1>2
<1> QED
  BY <1>3

LEMMA LookUpKeeps ==
    ASSUME GenerateInv, NEW r \in Runs, NEW i \in Shards, LookUp(r, i)
    PROVE  GenerateInv'
<1>1. /\ TypeOK /\ Shapes /\ task[r][i] = "looking"
      /\ UNCHANGED <<pc, measures, disk, pending, succeeded, assembled, output>>
  BY DEF GenerateInv, LookUp
<1>2. CASE UNCHANGED view /\ \E t \in Reported : task' = [task EXCEPT ![r][i] = t]
  <2>1. PICK t \in {"done", "failed"} : task' = [task EXCEPT ![r][i] = t]
    BY <1>2 DEF Reported
  <2>2. TaskStep(r, i, t) /\ t \in TaskStates \ {"storing", "recording", "renaming"}
    BY <1>1, <2>1 DEF TaskStep, TaskStates, Pass2States, disk
  <2>3. view' = [view EXCEPT ![r].renders = view'[r].renders]
    BY <1>1, <1>2, SameView
  <2> QED
    BY <1>1, <1>2, <2>2, <2>3, PassTwoStep DEF TypeOK, disk
<1>3. CASE /\ task' = [task EXCEPT ![r][i] = "rendering"]
           /\ view' = [view EXCEPT ![r].renders = @ \ {Key(r, i)}]
  <2>1. TaskStep(r, i, "rendering") /\ "rendering" \in TaskStates \ {"storing"}
    BY <1>1, <1>3 DEF TaskStep, TaskStates, Pass2States, disk
  <2>2. PICK left : left = view[r].renders \ {Key(r, i)}
    OBVIOUS
  <2>3. view' = [view EXCEPT ![r].renders = left]
    BY <1>3, <2>2
  <2>4. view'[r].renders = left
    BY <1>1, <2>3 DEF Shapes, IsManifest
  <2>5. view' = [view EXCEPT ![r].renders = view'[r].renders]
    BY <2>3, <2>4
  <2> QED
    BY <1>1, <2>1, <2>2, <2>4, <2>5, PassTwoStep DEF TypeOK, disk
<1> QED
  BY <1>2, <1>3 DEF LookUp

LEMMA RenderEndsKeeps ==
    ASSUME GenerateInv, NEW r \in Runs, NEW i \in Shards, RenderEnds(r, i)
    PROVE  GenerateInv'
<1>1. /\ TypeOK /\ Shapes /\ task[r][i] = "rendering"
      /\ UNCHANGED <<pc, measures, view, saved, shardFiles, dirExists, complete, pending,
                     succeeded, assembled, output>>
  BY DEF GenerateInv, RenderEnds
<1>2. view' = [view EXCEPT ![r].renders = view'[r].renders]
  BY <1>1, SameView
<1>3. Temp(r, i) \in Runs \X Shards
  BY DEF Temp
<1>4. ASSUME NEW pages \in PageCounts,
             temps' = [f \in DOMAIN temps \cup {Temp(r, i)} |->
                          IF f = Temp(r, i) THEN pages ELSE temps[f]],
             task' = [task EXCEPT ![r][i] = "renaming"]
      PROVE  GenerateInv'
  <2>1. TaskStep(r, i, "renaming") /\ "renaming" \in TaskStates \ {"storing", "recording"}
    BY <1>1, <1>4 DEF TaskStep, TaskStates, Pass2States
  <2>2. /\ DOMAIN temps' \subseteq Runs \X Shards
        /\ \A f \in DOMAIN temps' : f # Temp(r, i) => f \in DOMAIN temps /\ temps'[f] = temps[f]
        /\ temps'[Temp(r, i)] \in PageCounts
    BY <1>1, <1>3, <1>4 DEF TypeOK
  <2> QED
    BY <1>1, <1>2, <2>1, <2>2, PassTwoStep DEF TypeOK
<1>5. CASE /\ task' = [task EXCEPT ![r][i] = AfterFailedRender]
           /\ temps' = IF dirExists
                       THEN [f \in DOMAIN temps \cup {Temp(r, i)} |->
                                IF f = Temp(r, i) THEN 0 ELSE temps[f]]
                       ELSE temps
  <2>1. TaskStep(r, i, "cleaning")
        /\ "cleaning" \in TaskStates \ {"storing", "recording", "renaming"}
    BY <1>1, <1>5 DEF TaskStep, TaskStates, Pass2States, AfterFailedRender
  <2>2. /\ DOMAIN temps' \subseteq Runs \X Shards
        /\ \A f \in DOMAIN temps' : f # Temp(r, i) => f \in DOMAIN temps /\ temps'[f] = temps[f]
    BY <1>1, <1>3, <1>5 DEF TypeOK
  <2> QED
    BY <1>1, <1>2, <2>1, <2>2, PassTwoStep DEF TypeOK
<1> QED
  BY <1>4, <1>5 DEF RenderEnds

LEMMA RenameKeeps ==
    ASSUME GenerateInv, NEW r \in Runs, NEW i \in Shards, Rename(r, i)
    PROVE  GenerateInv'
<1>1. /\ TypeOK /\ Shapes /\ task[r][i] = "renaming" /\ TaskMatches(r, i)
      /\ UNCHANGED <<pc, measures, saved, dirExists, complete, pending, succeeded,
                     assembled, output>>
  BY DEF GenerateInv, Rename
<1>2. CASE Temp(r, i) \in DOMAIN temps
  <2>1. /\ shardFiles' = [k \in DOMAIN shardFiles \cup {Key(r, i)} |->
                             IF k = Key(r, i) THEN temps[Temp(r, i)] ELSE shardFiles[k]]
        /\ temps' = WithoutTemp(r, i)
        /\ view' = [view EXCEPT ![r].renders = @ \cup {Key(r, i)}]
        /\ task' = [task EXCEPT ![r][i] = "recording"]
    BY <1>2 DEF Rename
  <2>2. TaskStep(r, i, "recording") /\ "recording" \in TaskStates \ {"storing", "renaming"}
    BY <1>1, <2>1 DEF TaskStep, TaskStates, Pass2States
  <2>3. PICK all : all = view[r].renders \cup {Key(r, i)}
    OBVIOUS
  <2>4. view' = [view EXCEPT ![r].renders = all]
    BY <2>1, <2>3
  <2>5. view'[r].renders = all
    BY <1>1, <2>4 DEF Shapes, IsManifest
  <2>6. view' = [view EXCEPT ![r].renders = view'[r].renders]
    BY <2>4, <2>5
  <2>7. /\ DOMAIN shardFiles \subseteq DOMAIN shardFiles'
        /\ \A k \in DOMAIN shardFiles' : shardFiles'[k] \in PageCounts
    BY <1>1, <1>2, <2>1 DEF TypeOK, TaskMatches
  <2>8. /\ DOMAIN temps' \subseteq Runs \X Shards
        /\ \A f \in DOMAIN temps' : f # Temp(r, i) => f \in DOMAIN temps /\ temps'[f] = temps[f]
    BY <1>1, <2>1 DEF TypeOK, WithoutTemp
  <2> QED
    BY <1>1, <2>2, <2>3, <2>5, <2>6, <2>7, <2>8, PassTwoStep
<1>3. CASE Temp(r, i) \notin DOMAIN temps
  <2>1. /\ task' = [task EXCEPT ![r][i] = "cleaning"]
        /\ UNCHANGED <<shardFiles, temps, view>>
    BY <1>3 DEF Rename, AfterFailedRender
  <2>2. TaskStep(r, i, "cleaning")
        /\ "cleaning" \in TaskStates \ {"storing", "recording", "renaming"}
    BY <1>1, <2>1 DEF TaskStep, TaskStates, Pass2States
  <2>3. view' = [view EXCEPT ![r].renders = view'[r].renders]
    BY <1>1, <2>1, SameView
  <2> QED
    BY <1>1, <2>1, <2>2, <2>3, PassTwoStep DEF TypeOK
<1> QED
  BY <1>2, <1>3

LEMMA CleanKeeps ==
    ASSUME GenerateInv, NEW r \in Runs, NEW i \in Shards, Clean(r, i)
    PROVE  GenerateInv'
<1>1. /\ TypeOK /\ Shapes /\ task[r][i] = "cleaning" /\ temps' = WithoutTemp(r, i)
      /\ task' = [task EXCEPT ![r][i] = "failed"]
      /\ UNCHANGED <<pc, measures, view, saved, shardFiles, dirExists, complete, pending,
                     succeeded, assembled, output>>
  BY DEF GenerateInv, Clean
<1>2. TaskStep(r, i, "failed")
      /\ "failed" \in TaskStates \ {"storing", "recording", "renaming"}
  BY <1>1 DEF TaskStep, TaskStates, Pass2States
<1>3. view' = [view EXCEPT ![r].renders = view'[r].renders]
  BY <1>1, SameView
<1> QED
  BY <1>1, <1>2, <1>3, PassTwoStep DEF TypeOK, WithoutTemp

-----------------------------------------------------------------------------
(* The steps of a call.                                                    *)

(* A step that moves tasks to states in which nothing is kept for them.    *)
LEMMA TasksStay ==
    ASSUME GenerateInv,
           UNCHANGED <<measures, view>>,
           \A s \in Runs, j \in Shards :
              task'[s][j] \in {"storing", "renaming", "recording"} => task'[s][j] = task[s][j],
           \A f \in DOMAIN temps' : f \in DOMAIN temps /\ temps'[f] = temps[f]
    PROVE  \A s \in Runs, j \in Shards : TaskMatches(s, j)'
<1> SUFFICES ASSUME NEW s \in Runs, NEW j \in Shards PROVE TaskMatches(s, j)'
  OBVIOUS
<1>1. Key(s, j)' = Key(s, j)
  BY SameKey
<1> QED
  BY <1>1 DEF GenerateInv, TaskMatches, Temp

(* A removal of the directory leaves nothing that could be wrong.          *)
LEMMA NothingLeft ==
    ASSUME RemoveDirectory
    PROVE  /\ IsManifest(saved)' /\ HasResults(saved)' /\ IsHistory(complete)'
           /\ StoredIsFound'
           /\ DOMAIN shardFiles' = {} /\ DOMAIN temps' = {} /\ dirExists' = FALSE
<1>1. /\ saved' = Empty /\ shardFiles' = [k \in {} |-> 0] /\ temps' = [f \in {} |-> 0]
      /\ dirExists' = FALSE /\ complete' = NothingDone
  BY DEF RemoveDirectory
<1>2. IsManifest(saved)' /\ HasResults(saved)'
  BY <1>1 DEF IsManifest, HasResults, Empty
<1>3. IsHistory(complete)' /\ complete'.measures = {} /\ complete'.renders = {}
  BY <1>1 DEF IsHistory, NothingDone
<1>4. DOMAIN shardFiles' = {} /\ DOMAIN temps' = {}
  BY <1>1
<1> QED
  BY <1>1, <1>2, <1>3, <1>4 DEF StoredIsFound

(* A call leaves, with its document or without it.                         *)
LEMMA LeaveKeeps ==
    ASSUME GenerateInv, NEW r \in Runs, NEW outcome \in {"rejected", "resolved"},
           IsOpen(r), Leave(r, outcome),
           UNCHANGED <<task, measures, view, succeeded, output>>
    PROVE  GenerateInv'
<1>1. TypeOK /\ Shapes /\ StoredIsFound /\ PendingMatches /\ LiteralsRight
  BY DEF GenerateInv
<1>2. /\ pc' = [pc EXCEPT ![r] = outcome]
      /\ assembled' = [assembled EXCEPT ![r] = <<>>]
  BY DEF Leave
<1>3. \/ RemoveDirectory /\ pending' = FALSE
      \/ UNCHANGED disk /\ pending' = (pending \/ Destroy(r))
  BY DEF Leave
<1>4. /\ IsManifest(saved)' /\ HasResults(saved)' /\ IsHistory(complete)'
      /\ StoredIsFound'
      /\ DOMAIN shardFiles' \subseteq DOMAIN shardFiles
      /\ \A k \in DOMAIN shardFiles' : shardFiles'[k] \in PageCounts
      /\ \A f \in DOMAIN temps' : f \in DOMAIN temps /\ temps'[f] = temps[f]
      /\ dirExists' \in BOOLEAN
  <2>1. CASE RemoveDirectory
    BY <2>1, NothingLeft
  <2>2. CASE UNCHANGED disk
    BY <1>1, <2>2 DEF disk, TypeOK, Shapes, StoredIsFound, IsManifest, HasResults
  <2> QED
    BY <1>3, <2>1, <2>2
<1>5. PendingMatches'
  <2>1. /\ pc'[r] = outcome /\ ~IsOpen(r)' /\ pc'[r] # "idle"
        /\ \A s \in Runs \ {r} : pc'[s] = pc[s] /\ IsOpen(s)' = IsOpen(s)
        /\ succeeded \subseteq Runs
    BY <1>1, <1>2 DEF TypeOK, IsOpen
  <2>2. CASE UNCHANGED disk /\ pending' = (pending \/ Destroy(r))
    <3>1. complete' = complete
      BY <2>2 DEF disk
    <3>2. Destroy(r) => r \in complete.published \ KeepCache
      BY <1>1 DEF PendingMatches, Destroy
    <3> QED
      BY <1>1, <2>1, <2>2, <3>1, <3>2 DEF PendingMatches
  <2>3. CASE LastUser(r) /\ RemoveDirectory /\ pending' = FALSE
    BY <1>1, <2>1, <2>3 DEF PendingMatches, LastUser
  <2> QED
    BY <2>2, <2>3 DEF Leave
<1>6. TypeOK'
  <2>1. pc' \in [Runs -> {"idle", "measuring", "rendering", "assembling", "published",
                          "resolved", "rejected", "dead"}]
    BY <1>1, <1>2 DEF TypeOK
  <2>2. \A s \in Runs : Len(assembled'[s]) <= N
    <3> SUFFICES ASSUME NEW s \in Runs PROVE Len(assembled'[s]) <= N
      OBVIOUS
    <3>1. CASE s = r
      BY <1>1, <1>2, <3>1, ShardsPositive DEF Shapes
    <3>2. CASE s # r
      BY <1>1, <1>2, <3>2 DEF TypeOK
    <3> QED
      BY <3>1, <3>2
  <2>3. pending' \in BOOLEAN
    BY <1>1, <1>3 DEF TypeOK, Destroy
  <2> QED
    BY <1>1, <1>4, <2>1, <2>2, <2>3 DEF TypeOK, HasResults
<1>7. Shapes'
  BY <1>1, <1>2, <1>4 DEF Shapes, IsManifest, IsHistory, HasResults
<1>8. \A s \in Runs, j \in Shards : TaskMatches(s, j)'
  BY <1>4, TasksStay
<1>9. ASSUME NEW s \in Runs PROVE PassesApart(s)' /\ AssembledMatches(s)'
  <2>1. PassesApart(s)'
    BY DEF GenerateInv, PassesApart
  <2>2. AssembledMatches(s)'
    <3>1. CASE s # r
      BY <1>2, <3>1, AssemblyStays DEF GenerateInv
    <3>2. CASE s = r
      BY <1>1, <1>2, <3>2 DEF AssembledMatches, TypeOK, Shapes
    <3> QED
      BY <3>1, <3>2
  <2> QED
    BY <2>1, <2>2
<1>10. LiteralsRight'
  BY <1>1 DEF LiteralsRight
<1> QED
  BY <1>4, <1>5, <1>6, <1>7, <1>8, <1>9, <1>10 DEF GenerateInv

(* A step of a call from one stage to the next, which is not the assembly: *)
(* the disk stays, and so does what the call has.                          *)
LEMMA StageKeeps ==
    ASSUME GenerateInv, NEW r \in Runs, NEW stage, stage \in {"rendering", "assembling", "rejected"},
           pc' = [pc EXCEPT ![r] = stage],
           pc[r] \notin {"assembling", "published"},
           stage # "rejected" => IsOpen(r),
           stage = "assembling" => AllDone(r)',
           task' = task \/ task' = [task EXCEPT ![r] = [i \in Shards |-> "looking"]],
           UNCHANGED <<measures, view, disk, pending, succeeded, assembled, output>>
    PROVE  GenerateInv'
<1>1. TypeOK /\ Shapes /\ StoredIsFound /\ PendingMatches /\ LiteralsRight
  BY DEF GenerateInv
<1>2. /\ \A s \in Runs \ {r} : task'[s] = task[s]
      /\ task'[r] = task[r] \/ \A i \in Shards : task'[r][i] = "looking"
      /\ task' \in [Runs -> [Shards -> TaskStates]]
  BY <1>1 DEF TypeOK, TaskStates
<1>3. TypeOK'
  <2>1. pc' \in [Runs -> {"idle", "measuring", "rendering", "assembling", "published",
                          "resolved", "rejected", "dead"}]
    BY <1>1 DEF TypeOK
  <2> QED
    BY <1>1, <1>2, <2>1 DEF TypeOK, disk, TaskStates
<1>4. Shapes'
  BY <1>1 DEF Shapes, IsManifest, IsHistory, HasResults, disk
<1>5. \A s \in Runs, j \in Shards : TaskMatches(s, j)'
  BY <1>2, TasksStay DEF disk
<1>6. ASSUME NEW s \in Runs PROVE PassesApart(s)' /\ AssembledMatches(s)'
  <2>1. PassesApart(s)'
    BY <1>2 DEF GenerateInv, PassesApart
  <2>2. CASE s # r
    BY <1>2, <2>1, <2>2, AssemblyStays DEF GenerateInv
  <2>3. CASE s = r
    <3>1. assembled'[r] = <<>> /\ pc'[r] = stage
      BY <1>1 DEF GenerateInv, AssembledMatches, TypeOK
    <3>2. Prefix(r, 0)' = <<>>
      BY DEF Prefix
    <3> QED
      BY <2>1, <2>3, <3>1, <3>2, ShardsPositive DEF AssembledMatches
  <2> QED
    BY <2>1, <2>2, <2>3
<1>7. PendingMatches' /\ LiteralsRight' /\ StoredIsFound'
  <2>1. /\ \A s \in Runs : pc'[s] # "idle" \/ pc[s] = "idle"
        /\ \A s \in Runs : IsOpen(s)' => IsOpen(s)
    BY <1>1 DEF TypeOK, IsOpen
  <2> QED
    BY <1>1, <2>1 DEF PendingMatches, LiteralsRight, StoredIsFound, disk, TypeOK
<1> QED
  BY <1>3, <1>4, <1>5, <1>6, <1>7 DEF GenerateInv

LEMMA RefuseKeeps ==
    ASSUME GenerateInv, NEW r \in Runs, Refuse(r)
    PROVE  GenerateInv'
  BY StageKeeps DEF Refuse

LEMMA EndPass1Keeps ==
    ASSUME GenerateInv, NEW r \in Runs, EndPass1(r)
    PROVE  GenerateInv'
  BY StageKeeps, LeaveKeeps DEF EndPass1, Reject, IsOpen

LEMMA FailPassKeeps ==
    ASSUME GenerateInv, NEW r \in Runs, FailPass(r)
    PROVE  GenerateInv'
  BY LeaveKeeps DEF FailPass, Reject, IsOpen

LEMMA EndPass2Keeps ==
    ASSUME GenerateInv, NEW r \in Runs, EndPass2(r)
    PROVE  GenerateInv'
<1>1. AllDone(r)'
  BY DEF EndPass2, AllDone
<1> QED
  BY <1>1, StageKeeps DEF EndPass2, IsOpen

LEMMA ResolveKeeps ==
    ASSUME GenerateInv, NEW r \in Runs, Resolve(r)
    PROVE  GenerateInv'
  BY LeaveKeeps DEF Resolve, IsOpen

-----------------------------------------------------------------------------
(* Pass 1 begins, of a call that resumes what is on disk.                  *)
LEMMA OpenKeeps ==
    ASSUME GenerateInv, NEW r \in Runs, Open(r)
    PROVE  GenerateInv'
<1>1. /\ TypeOK /\ Shapes /\ StoredIsFound /\ PendingMatches /\ LiteralsRight
      /\ pc[r] = "idle"
      /\ pc' = [pc EXCEPT ![r] = "measuring"]
      /\ dirExists' = TRUE /\ view' = [view EXCEPT ![r] = saved]
      /\ measures' = [measures EXCEPT ![r] = [i \in Shards |-> GetMeasure(i)]]
      /\ UNCHANGED <<saved, shardFiles, temps, complete, pending, succeeded, assembled, output>>
  BY DEF GenerateInv, Open
<1>2. PICK t \in {"done", "failed"} :
         task' = [task EXCEPT ![r] =
                    [i \in Shards |-> IF GetMeasure(i) = None THEN "measuring" ELSE t]]
  BY DEF Open, Reported
<1>3. /\ \A s \in Runs \ {r} : task'[s] = task[s]
      /\ \A i \in Shards : task'[r][i] \in {"measuring", t}
      /\ task' \in [Runs -> [Shards -> TaskStates]]
  BY <1>1, <1>2 DEF TypeOK, TaskStates
<1>4. \A i \in Shards : GetMeasure(i) \in Results[i] \cup {None}
  BY <1>1 DEF GetMeasure, Shapes, HasResults
<1>5. /\ measures' \in [Runs -> [Shards -> Measured]]
      /\ \A s \in Runs \ {r} : measures'[s] = measures[s]
      /\ \A i \in Shards : measures'[r][i] = GetMeasure(i)
  BY <1>1, <1>4 DEF Shapes, Measured
<1>6. /\ view' = [s \in Runs |-> view'[s]]
      /\ view'[r] = saved /\ \A s \in Runs \ {r} : view'[s] = view[s]
  BY <1>1 DEF Shapes
<1>7. TypeOK'
  <2>1. pc' \in [Runs -> {"idle", "measuring", "rendering", "assembling", "published",
                          "resolved", "rejected", "dead"}]
    BY <1>1 DEF TypeOK
  <2>2. \A s \in Runs, i \in Shards : measures'[s][i] \in Results[i] \cup {None}
    BY <1>1, <1>4, <1>5 DEF TypeOK
  <2> QED
    BY <1>1, <1>3, <2>1, <2>2 DEF TypeOK, TaskStates
<1>8. Shapes'
  BY <1>1, <1>5, <1>6 DEF Shapes, IsManifest, IsHistory, HasResults
<1>9. ASSUME NEW s \in Runs, NEW j \in Shards PROVE TaskMatches(s, j)'
  <2>1. CASE s = r
    BY <1>3, <2>1 DEF TaskMatches
  <2>2. CASE s # r
    <3>1. Key(s, j)' = Key(s, j)
      BY <1>5, <2>2, SameKey
    <3> QED
      BY <1>1, <1>3, <1>6, <2>2, <3>1 DEF GenerateInv, TaskMatches, Temp
  <2> QED
    BY <2>1, <2>2
<1>10. ASSUME NEW s \in Runs PROVE PassesApart(s)' /\ AssembledMatches(s)'
  <2>1. PassesApart(s)'
    BY <1>3 DEF GenerateInv, PassesApart, Pass2States
  <2>2. CASE s # r
    BY <1>1, <1>3, <1>5, <2>1, <2>2, AssemblyStays DEF GenerateInv
  <2>3. CASE s = r
    BY <1>1, <2>1, <2>3 DEF GenerateInv, AssembledMatches, TypeOK
  <2> QED
    BY <2>1, <2>2, <2>3
<1>11. PendingMatches' /\ LiteralsRight' /\ StoredIsFound'
  <2>1. r \notin succeeded
    BY <1>1 DEF PendingMatches
  <2>2. \A s \in Runs \ {r} : pc'[s] = pc[s]
    BY <1>1 DEF TypeOK
  <2> QED
    BY <1>1, <2>1, <2>2 DEF PendingMatches, LiteralsRight, StoredIsFound, IsOpen, TypeOK
<1> QED
  BY <1>7, <1>8, <1>9, <1>10, <1>11 DEF GenerateInv

-----------------------------------------------------------------------------
(* Assembly.                                                               *)

(* One more shard is read: the page count of its file is the measured one. *)
LEMMA AssembleShardKeeps ==
    ASSUME GenerateInv, NEW r \in Runs, AssembleShard(r)
    PROVE  GenerateInv'
<1>1. CASE Reject(r)
  BY <1>1, LeaveKeeps DEF Reject, AssembleShard, IsOpen
<1>2. ASSUME NEW i, i = Len(assembled[r]) + 1, i <= N,
             pc[r] = "assembling",
             Key(r, i) \in DOMAIN shardFiles, Agrees(r, i),
             assembled' = [assembled EXCEPT ![r] =
                             Append(@, [key |-> Key(r, i), pages |-> shardFiles[Key(r, i)]])],
             UNCHANGED <<pc, task, measures, view, disk, pending, succeeded, output>>
      PROVE  GenerateInv'
  <2>1. /\ TypeOK /\ Shapes /\ StoredIsFound /\ PendingMatches /\ LiteralsRight
        /\ AssembledMatches(r)
    BY DEF GenerateInv
  <2>2. PICK n \in 0..N : assembled[r] = Prefix(r, n)
    BY <1>2, <2>1 DEF AssembledMatches
  <2>3. Len(assembled[r]) = n /\ n + 1 \in 0..N /\ i = n + 1
    BY <1>2, <2>2, ShardsPositive DEF Prefix
  <2>4. /\ assembled'[r] = Append(assembled[r], [key |-> Key(r, i), pages |-> measures[r][i].pages])
        /\ \A s \in Runs \ {r} : assembled'[s] = assembled[s]
        /\ DOMAIN assembled' = Runs
    BY <1>2, <2>1 DEF Shapes, Agrees
  <2>5. Append(Prefix(r, n), [key |-> Key(r, i), pages |-> measures[r][i].pages])
        = Prefix(r, n + 1)
    BY <2>3 DEF Prefix
  <2>6. Prefix(r, n + 1)' = Prefix(r, n + 1)
    BY <1>2 DEF Prefix, Key
  <2>7. AssembledMatches(r)'
    BY <1>2, <2>1, <2>2, <2>3, <2>4, <2>5, <2>6 DEF AssembledMatches, AllDone
  <2>8. Len(assembled'[r]) <= N
    BY <2>2, <2>3, <2>4, <2>5, ShardsPositive DEF Prefix
  <2>9. \A s \in Runs : AssembledMatches(s)' /\ PassesApart(s)'
    BY <1>2, <2>4, <2>7, AssemblyStays DEF GenerateInv, PassesApart
  <2>10. TypeOK' /\ Shapes'
    BY <1>2, <2>1, <2>4, <2>8 DEF TypeOK, Shapes, IsManifest, IsHistory, HasResults, disk
  <2>11. \A s \in Runs, j \in Shards : TaskMatches(s, j)'
    BY <1>2, TasksStay DEF disk
  <2>12. PendingMatches' /\ LiteralsRight' /\ StoredIsFound'
    BY <1>2, <2>1 DEF PendingMatches, LiteralsRight, StoredIsFound, disk, IsOpen
  <2> QED
    BY <2>9, <2>10, <2>11, <2>12 DEF GenerateInv
<1> QED
  BY <1>1, <1>2 DEF AssembleShard

(* What all shards together are published as.                              *)
LEMMA PublishedRight ==
    ASSUME NEW r \in Runs, output' = Prefix(r, N)
    PROVE  LiteralsRight'
<1>1. /\ Len(output') = N
      /\ \A i \in Shards : /\ output'[i].pages = measures[r][i].pages
                           /\ output'[i].key = Key(r, i)
  BY ShardsPositive DEF Prefix, Shards
<1>2. [i \in Shards |-> output'[i].pages] = PagesOf(measures[r])
  BY <1>1 DEF PagesOf
<1>3. 1 \in Shards
  BY ShardsPositive DEF Shards
<1>4. ASSUME NEW i \in Shards
      PROVE  /\ output'[i].key.shard = i
             /\ output'[i].key.offset = PagesBefore(measures[r], i)
             /\ output'[i].key.total = TotalPages(measures[r])
             /\ output'[i].key.anchors = AnchorPages(measures[r])
  <2>1. PICK offset, total, anchors :
           /\ offset = PagesBefore(measures[r], i)
           /\ total = TotalPages(measures[r])
           /\ anchors = AnchorPages(measures[r])
    OBVIOUS
  <2>2. output'[i].key = [shard |-> i, offset |-> offset, total |-> total, anchors |-> anchors]
    BY <1>1, <2>1 DEF Key, KeyOf
  <2> QED
    BY <2>1, <2>2
<1> QED
  BY <1>1, <1>2, <1>3, <1>4 DEF LiteralsRight, PagesBefore, TotalPages

LEMMA PublishKeeps ==
    ASSUME GenerateInv, NEW r \in Runs, Publish(r)
    PROVE  GenerateInv'
<1>1. CASE Reject(r)
  BY <1>1, LeaveKeeps DEF Reject, Publish, IsOpen
<1>2. CASE /\ pc[r] = "assembling" /\ Len(assembled[r]) = N
           /\ pc' = [pc EXCEPT ![r] = "published"]
           /\ output' = assembled[r]
           /\ succeeded' = succeeded \cup {r}
           /\ complete' = [complete EXCEPT !.published = @ \cup {r}]
           /\ UNCHANGED <<task, measures, view, saved, shardFiles, temps, dirExists,
                          pending, assembled>>
  <2>1. /\ TypeOK /\ Shapes /\ StoredIsFound /\ PendingMatches
        /\ AssembledMatches(r)
    BY DEF GenerateInv
  <2>9. /\ IsHistory(complete') /\ complete'.measures = complete.measures
        /\ complete'.renders = complete.renders
        /\ complete'.published = complete.published \cup {r}
    BY <1>2, <2>1 DEF Shapes, IsHistory
  <2>2. PICK n \in 0..N : assembled[r] = Prefix(r, n)
    BY <1>2, <2>1 DEF AssembledMatches
  <2>3. n = N
    BY <1>2, <2>2, ShardsPositive DEF Prefix
  <2>4. LiteralsRight'
    BY <1>2, <2>2, <2>3, PublishedRight
  <2>5. ASSUME NEW s \in Runs PROVE PassesApart(s)' /\ AssembledMatches(s)'
    <3>1. PassesApart(s)'
      BY <1>2 DEF GenerateInv, PassesApart
    <3>2. CASE s # r
      BY <1>2, <3>1, <3>2, AssemblyStays DEF GenerateInv
    <3>3. CASE s = r
      <4>1. Prefix(r, n)' = Prefix(r, n)
        BY <1>2 DEF Prefix, Key
      <4> QED
        BY <1>2, <2>1, <2>2, <3>1, <3>3, <4>1 DEF AssembledMatches, AllDone, TypeOK
    <3> QED
      BY <3>2, <3>3
  <2>6. TypeOK' /\ Shapes'
    <3>1. pc' \in [Runs -> {"idle", "measuring", "rendering", "assembling", "published",
                            "resolved", "rejected", "dead"}]
      BY <1>2, <2>1 DEF TypeOK
    <3> QED
      BY <1>2, <2>1, <2>9, <3>1 DEF TypeOK, Shapes, IsManifest, IsHistory, HasResults
  <2>7. \A s \in Runs, j \in Shards : TaskMatches(s, j)'
    BY <1>2, TasksStay
  <2>8. PendingMatches' /\ StoredIsFound'
    <3>1. pc'[r] = "published" /\ \A s \in Runs \ {r} : pc'[s] = pc[s]
      BY <1>2, <2>1 DEF TypeOK
    <3> QED
      BY <1>2, <2>1, <2>9, <3>1 DEF PendingMatches, StoredIsFound, IsOpen, TypeOK
  <2> QED
    BY <2>4, <2>5, <2>6, <2>7, <2>8 DEF GenerateInv
<1> QED
  BY <1>1, <1>2 DEF Publish

-----------------------------------------------------------------------------
(* The whole specification.                                                *)

LEMMA CrashKeeps ==
    ASSUME GenerateInv, Crash
    PROVE  GenerateInv'
<1>1. /\ TypeOK /\ Shapes /\ StoredIsFound /\ LiteralsRight
      /\ pc' = [r \in Runs |-> IF IsOpen(r) \/ pc[r] = "dead" THEN "dead" ELSE pc[r]]
      /\ pending' = FALSE
      /\ task' = [r \in Runs |-> [i \in Shards |-> "todo"]]
      /\ measures' = [r \in Runs |-> [i \in Shards |-> None]]
      /\ view' = [r \in Runs |-> Empty]
      /\ assembled' = [r \in Runs |-> <<>>]
      /\ complete' = [complete EXCEPT !.published = {}]
      /\ UNCHANGED <<saved, shardFiles, temps, dirExists, succeeded, output>>
      /\ PendingMatches
  BY DEF GenerateInv, Crash
<1>2. HasResults(Empty) /\ IsManifest(Empty)
  BY DEF HasResults, IsManifest, Empty
<1>3. TypeOK'
  <2>1. pc' \in [Runs -> {"idle", "measuring", "rendering", "assembling", "published",
                          "resolved", "rejected", "dead"}]
    BY <1>1 DEF TypeOK
  <2>2. \A r \in Runs, i \in Shards : measures'[r][i] \in Results[i] \cup {None}
    BY <1>1
  <2>3. task' \in [Runs -> [Shards -> TaskStates]]
    BY <1>1 DEF TaskStates
  <2>4. \A r \in Runs : Len(assembled'[r]) <= N
    BY <1>1, ShardsPositive
  <2> QED
    BY <1>1, <2>1, <2>2, <2>3, <2>4 DEF TypeOK, TaskStates
<1>4. Shapes'
  <2>1. measures' \in [Runs -> [Shards -> Measured]]
    BY <1>1 DEF Measured
  <2>2. view' = [r \in Runs |-> view'[r]] /\ \A r \in Runs : view'[r] = Empty
    BY <1>1
  <2>3. \A r \in Runs : IsManifest(view'[r]) /\ HasResults(view'[r])
    BY <1>2, <2>2
  <2>4. IsManifest(saved)' /\ HasResults(saved)' /\ IsHistory(complete)'
    BY <1>1 DEF Shapes, IsManifest, IsHistory, HasResults
  <2>5. DOMAIN assembled' = Runs
    BY <1>1
  <2> QED
    BY <2>1, <2>2, <2>3, <2>4, <2>5 DEF Shapes, IsManifest, IsHistory, HasResults
<1>5. \A r \in Runs, i \in Shards : TaskMatches(r, i)'
  BY <1>1 DEF TaskMatches
<1>6. ASSUME NEW r \in Runs PROVE PassesApart(r)' /\ AssembledMatches(r)'
  <2>1. PassesApart(r)'
    BY <1>1 DEF PassesApart, Pass2States
  <2>2. pc'[r] \notin {"assembling", "published"} /\ assembled'[r] = <<>>
    BY <1>1 DEF IsOpen
  <2> QED
    BY <2>1, <2>2 DEF AssembledMatches
<1>7. PendingMatches' /\ LiteralsRight' /\ StoredIsFound'
  <2>1. complete'.measures = complete.measures /\ complete'.renders = complete.renders
    BY <1>1 DEF Shapes, IsHistory
  <2>2. \A r \in Runs : ~IsOpen(r)' /\ (pc[r] # "idle" => pc'[r] # "idle")
    BY <1>1 DEF IsOpen
  <2> QED
    BY <1>1, <2>1, <2>2 DEF PendingMatches, LiteralsRight, StoredIsFound, TypeOK
<1> QED
  BY <1>3, <1>4, <1>5, <1>6, <1>7 DEF GenerateInv

LEMMA StutterKeeps ==
    ASSUME GenerateInv, UNCHANGED vars
    PROVE  GenerateInv'
<1>1. TypeOK /\ Shapes /\ StoredIsFound /\ PendingMatches /\ LiteralsRight
  BY DEF GenerateInv
<1>2. TypeOK' /\ Shapes'
  BY <1>1 DEF vars, TypeOK, Shapes, IsManifest, HasResults
<1>3. \A s \in Runs, j \in Shards : TaskMatches(s, j)'
  BY TasksStay DEF vars
<1>4. \A s \in Runs : PassesApart(s)' /\ AssembledMatches(s)'
  BY AssemblyStays DEF vars, GenerateInv, PassesApart
<1>5. PendingMatches' /\ LiteralsRight' /\ StoredIsFound'
  BY <1>1 DEF vars, PendingMatches, LiteralsRight, StoredIsFound, IsOpen
<1> QED
  BY <1>2, <1>3, <1>4, <1>5 DEF GenerateInv

LEMMA NextKeeps == GenerateInv /\ [Next]_vars => GenerateInv'
<1> SUFFICES ASSUME GenerateInv, [Next]_vars PROVE GenerateInv'
  OBVIOUS
<1>1. ASSUME NEW r \in Runs, Refuse(r) \/ Open(r) \/ Call(r) PROVE GenerateInv'
  BY <1>1, RefuseKeeps, OpenKeeps, EndPass1Keeps, FailPassKeeps, EndPass2Keeps,
     AssembleShardKeeps, PublishKeeps, ResolveKeeps
     DEF Call
<1>2. ASSUME NEW r \in Runs, NEW i \in Shards, Task(r, i) PROVE GenerateInv'
  BY <1>2, MeasureEndsKeeps, StoreMeasureKeeps, LookUpKeeps, RenderEndsKeeps,
     RenameKeeps, RecordKeeps, CleanKeeps
     DEF Task
<1>3. CASE Crash
  BY <1>3, CrashKeeps
<1>4. CASE Settled \/ UNCHANGED vars
  BY <1>4, StutterKeeps DEF Settled
<1> QED
  BY <1>1, <1>2, <1>3, <1>4 DEF Next

(* The invariant holds in every reachable state.                           *)
THEOREM GenerateInvariant == Spec => []GenerateInv
  BY InitGenerate, NextKeeps, PTL DEF Spec

(* The calls, their tasks and what is on disk are well formed throughout;  *)
(* a file that was promoted is a whole render (commitRender()).            *)
THEOREM TypeCorrect == Spec => []TypeOK
<1>1. GenerateInv => TypeOK
  BY DEF GenerateInv
<1> QED
  BY <1>1, GenerateInvariant, PTL

(* Every document that ships was rendered with the offsets and the total   *)
(* its own pages give, and with the same anchors in all of its shards.     *)
THEOREM LiteralsAreRight == Spec => []LiteralsRight
<1>1. GenerateInv => LiteralsRight
  BY DEF GenerateInv
<1> QED
  BY <1>1, GenerateInvariant, PTL

(* What any call has stored is there for the next one to open the cache:   *)
(* no write of another call, no failure and no crash loses it.             *)
THEOREM StoredWorkIsFound == Spec => []StoredIsFound
<1>1. GenerateInv => StoredIsFound
  BY DEF GenerateInv
<1> QED
  BY <1>1, GenerateInvariant, PTL

-----------------------------------------------------------------------------
(* What is on disk goes with the last call, and when one has published.    *)

KeptByStep ==
    \/ /\ DOMAIN shardFiles \subseteq DOMAIN shardFiles'
       /\ DOMAIN saved.measures \subseteq DOMAIN saved'.measures
       /\ saved.renders \subseteq saved'.renders
    \/ complete.published \ KeepCache # {} /\ \A r \in Runs : ~IsOpen(r)'

LEMMA LeaveKeepsCache ==
    ASSUME GenerateInv, NEW r \in Runs, NEW outcome \in {"rejected", "resolved"},
           IsOpen(r), Leave(r, outcome)
    PROVE  KeptByStep
<1>1. CASE LastUser(r) /\ (pending \/ Destroy(r))
  <2>1. complete.published \ KeepCache # {}
    <3>1. Destroy(r) => r \in complete.published \ KeepCache
      BY DEF GenerateInv, PendingMatches, Destroy
    <3> QED
      BY <1>1, <3>1 DEF GenerateInv, PendingMatches
  <2>2. pc' = [pc EXCEPT ![r] = outcome] /\ DOMAIN pc = Runs
    BY DEF Leave, GenerateInv, TypeOK
  <2>3. \A s \in Runs : ~IsOpen(s)'
    BY <1>1, <2>2 DEF LastUser, IsOpen
  <2> QED
    BY <2>1, <2>3 DEF KeptByStep
<1>2. CASE ~(LastUser(r) /\ (pending \/ Destroy(r)))
  BY <1>2 DEF Leave, disk, KeptByStep
<1> QED
  BY <1>1, <1>2

LEMMA NextKeepsCache == GenerateInv /\ [Next]_vars => KeptByStep
<1> SUFFICES ASSUME GenerateInv, [Next]_vars PROVE KeptByStep
  OBVIOUS
<1>1. ASSUME NEW r \in Runs, Refuse(r) \/ Open(r) \/ Call(r) PROVE KeptByStep
  <2>1. CASE IsOpen(r) /\ (Reject(r) \/ Resolve(r))
    BY <2>1, LeaveKeepsCache DEF Reject, Resolve
  <2>2. CASE UNCHANGED <<shardFiles, saved>>
    BY <2>2 DEF KeptByStep
  <2> QED
    BY <1>1, <2>1, <2>2
       DEF Call, Refuse, Open, EndPass1, FailPass, EndPass2, AssembleShard, Publish, Resolve,
           disk, IsOpen
<1>2. ASSUME NEW r \in Runs, NEW i \in Shards, Task(r, i) PROVE KeptByStep
  <2>1. CASE Rename(r, i)
    BY <2>1 DEF Rename, KeptByStep
  <2>2. CASE StoreMeasure(r, i) \/ Record(r, i)
    <3>1. shardFiles' = shardFiles /\ saved' \in {saved, Merged(view[r])}
      BY <2>2 DEF StoreMeasure, Record, PersistFails, PersistSucceeds
    <3> QED
      BY <3>1, MergedHas DEF GenerateInv, KeptByStep
  <2>3. CASE MeasureEnds(r, i) \/ LookUp(r, i) \/ RenderEnds(r, i) \/ Clean(r, i)
    <3>1. UNCHANGED <<shardFiles, saved>>
      BY <2>3 DEF MeasureEnds, LookUp, RenderEnds, Clean, disk
    <3> QED
      BY <3>1 DEF KeptByStep
  <2> QED
    BY <1>2, <2>1, <2>2, <2>3 DEF Task
<1>3. CASE Crash \/ Settled \/ UNCHANGED vars
  BY <1>3 DEF Crash, Settled, vars, KeptByStep
<1> QED
  BY <1>1, <1>2, <1>3 DEF Next

(* A failed call keeps its cache: nothing goes from the directory before a *)
(* call that was not told to keep it has published, in this process and    *)
(* since the last removal, and no call has the cache open any more         *)
(* (finally block of generate(), destroy()).                               *)
THEOREM CacheIsKept == Spec => CacheKept
<1>1. GenerateInv /\ [Next]_vars => [KeptByStep]_vars
  BY NextKeepsCache
<1> QED
  BY <1>1, GenerateInvariant, PTL DEF Spec, CacheKept, KeptByStep
=============================================================================
