---------------------------- MODULE Publication ----------------------------
(***************************************************************************)
(* assemble(), merge() and extract() of crates/core (index.js): concurrent *)
(* calls that write a partial file beside their output through the native  *)
(* core and rename it into place.                                          *)
(*                                                                         *)
(* A file is the list of the calls whose inputs were written to it, and    *)
(* how far it got.  The steps of a call between two awaits are cut at its  *)
(* checks of the abort signal, so the signal may fire a little earlier     *)
(* here than the event loop would let it.                                  *)
(***************************************************************************)
EXTENDS Naturals, Sequences, FiniteSets

CONSTANTS
    Ops,      \* the calls
    Paths,    \* output paths
    Kind,     \* which function each call is of
    Target,   \* the output path of each call
    Inputs,   \* the number of inputs of each call
    Faults    \* what may go wrong, a subset of FaultKinds

FaultKinds == {"arguments", "native", "callback", "selection",
               "rename", "stat", "rm", "crash"}

ASSUME KindsKnown == Kind \in [Ops -> {"assemble", "merge", "extract"}]
ASSUME TargetsKnown == Target \in [Ops -> Paths]
ASSUME InputsPositive == Inputs \in [Ops -> Nat \ {0}]
ASSUME ExtractReadsOne == \A o \in Ops : Kind[o] = "extract" => Inputs[o] = 1
ASSUME FaultsKnown == Faults \subseteq FaultKinds

(* Mutant of PartialOf: one partial file per output path.                  *)
PartialOfOutput(o) == <<"partial", Target[o]>>

(* partialPathFor(): the process id and a random UUID make the name the    *)
(* call's own.                                                             *)
PartialOf(o) == <<"partial", o>>
OutputOf(o)  == <<"output", Target[o]>>

Partials == {PartialOf(o) : o \in Ops}
Outputs  == {<<"output", p>> : p \in Paths}
Files    == Partials \union Outputs

VARIABLES
    pc,         \* where each call is
    done,       \* inputs each call has appended
    outcome,    \* what each call settles with once it has cleaned up
    writer,     \* the native writer of each call
    aborted,    \* calls whose signal has fired
    disk,       \* every file
    published,  \* calls whose rename happened
    late        \* calls whose stat() or rm() failed

vars == <<pc, done, outcome, writer, aborted, disk, published, late>>

Settled  == {"resolved", "rejected"}
PcStates == {"idle", "counting", "looping", "appending", "finalizing",
             "renaming", "statting", "cleaning", "dead"} \union Settled

Contents == [calls : Seq(Ops), state : {"absent", "old", "torn", "whole"}]

Absent == [calls |-> <<>>, state |-> "absent"]
Old    == [calls |-> <<>>, state |-> "old"]
Empty  == [calls |-> <<>>, state |-> "torn"]

TypeOK ==
    /\ pc \in [Ops -> PcStates]
    /\ done \in [Ops -> Nat] /\ \A o \in Ops : done[o] <= Inputs[o]
    /\ outcome \in [Ops -> {"pending", "ok", "error"}]
    /\ writer \in [Ops -> {"none", "ready", "busy", "abandoned", "closed"}]
    /\ aborted \subseteq Ops
    /\ disk \in [Files -> Contents]
    /\ published \subseteq Ops
    /\ late \subseteq Ops

Init ==
    /\ pc = [o \in Ops |-> "idle"]
    /\ done = [o \in Ops |-> 0]
    /\ outcome = [o \in Ops |-> "pending"]
    /\ writer = [o \in Ops |-> "none"]
    /\ aborted = {}
    /\ disk = [f \in Files |-> IF f \in Outputs THEN Old ELSE Absent]
    /\ published = {}
    /\ late = {}

(* Mutant of MoreInputs: the loop runs once too often.                     *)
MoreInputsInclusive(o) == done[o] <= Inputs[o]

MoreInputs(o) == done[o] < Inputs[o]

Goto(o, label) == pc' = [pc EXCEPT ![o] = label]
Fails(fault)   == fault \in Faults

-----------------------------------------------------------------------------
(* The native core writes the partial file.                                *)

Create(o)   == disk' = [disk EXCEPT ![PartialOf(o)] = Empty]
Write(o)    == disk' = [disk EXCEPT ![PartialOf(o)].calls = Append(@, o)]
Complete(o) == disk' = [disk EXCEPT ![PartialOf(o)].state = "whole"]

(* The finally block: abort() closes the writer, at once unless a task has *)
(* it, and rm() starts.                                                    *)
Leave(o, result) ==
    /\ outcome' = [outcome EXCEPT ![o] = result]
    /\ writer' = [writer EXCEPT ![o] =
                     CASE @ = "none" -> "none"
                       [] @ = "busy" -> "abandoned"
                       [] OTHER      -> "closed"]
    /\ Goto(o, "cleaning")

(* Mutant of ThrowIfAborted: an aborted call stops and never settles.      *)
ThrowIfAbortedSilently(o) == FALSE

(* signal?.throwIfAborted() inside the try block.                          *)
ThrowIfAborted(o) == o \in aborted /\ Leave(o, "error")

(* onShard, onProgress: it may throw, or fire the call's own signal.       *)
Callback(o, throws) ==
    /\ throws => Fails("callback")
    /\ \/ UNCHANGED aborted
       \/ Fails("callback") /\ aborted' = aborted \union {o}

-----------------------------------------------------------------------------
(* The arguments are checked before anything exists.                       *)
Refused(o) ==
    /\ Fails("arguments")
    /\ Goto(o, "rejected")
    /\ UNCHANGED <<outcome, writer, disk>>

(* Nothing exists yet when the first check throws; a file the constructor  *)
(* made is removed when it throws.                                         *)
Begin(o) ==
    /\ pc[o] = "idle"
    /\ \/ Refused(o)
       \/ /\ o \in aborted
          /\ Goto(o, "rejected")
          /\ UNCHANGED <<outcome, writer, disk>>
       \/ /\ o \notin aborted
          /\ Kind[o] = "extract"
          /\ Goto(o, "counting")
          /\ UNCHANGED <<outcome, writer, disk>>
       \/ /\ o \notin aborted
          /\ Kind[o] # "extract"
          /\ \/ /\ Create(o)
                /\ writer' = [writer EXCEPT ![o] = "ready"]
                /\ Goto(o, "looping")
                /\ UNCHANGED outcome
             \/ /\ Fails("native")
                /\ Create(o) \/ UNCHANGED disk
                /\ Leave(o, "error")
    /\ UNCHANGED <<done, aborted, published, late>>

(* extract(): pageCountAsync() has settled, then the selection is checked. *)
Counted(o) ==
    /\ pc[o] = "counting"
    /\ \/ /\ o \in aborted \/ Fails("native") \/ Fails("selection")
          /\ Goto(o, "rejected")
       \/ /\ o \notin aborted
          /\ Goto(o, "appending")
    /\ UNCHANGED <<done, outcome, writer, aborted, disk, published, late>>

(* assemble(): a synchronous append and its onShard.                       *)
AppendSync(o) ==
    /\ pc[o] = "looping"
    /\ Kind[o] = "assemble"
    /\ MoreInputs(o)
    /\ \/ /\ ThrowIfAborted(o)
          /\ UNCHANGED <<done, aborted, disk>>
       \/ /\ o \notin aborted
          /\ Write(o)
          /\ done' = [done EXCEPT ![o] = @ + 1]
          /\ \E throws \in BOOLEAN :
                /\ Callback(o, throws)
                /\ IF throws THEN Leave(o, "error")
                             ELSE UNCHANGED <<pc, outcome, writer>>
       \/ /\ o \notin aborted
          /\ Fails("native")
          /\ Write(o) \/ UNCHANGED disk
          /\ Leave(o, "error")
          /\ UNCHANGED <<done, aborted>>
    /\ UNCHANGED <<published, late>>

(* merge(): appendShardAsync() or appendShardBytesAsync() is awaited.      *)
AppendStart(o) ==
    /\ pc[o] = "looping"
    /\ Kind[o] = "merge"
    /\ MoreInputs(o)
    /\ \/ ThrowIfAborted(o)
       \/ /\ o \notin aborted
          /\ writer' = [writer EXCEPT ![o] = "busy"]
          /\ Goto(o, "appending")
          /\ UNCHANGED outcome
    /\ UNCHANGED <<done, aborted, disk, published, late>>

(* The task gives the writer back before its promise settles.              *)
AppendEnd(o) ==
    /\ pc[o] = "appending"
    /\ Kind[o] = "merge"
    /\ \/ /\ Write(o)
          /\ done' = [done EXCEPT ![o] = @ + 1]
          /\ \E throws \in BOOLEAN :
                /\ Callback(o, throws)
                /\ \/ /\ throws
                      /\ outcome' = [outcome EXCEPT ![o] = "error"]
                      /\ writer' = [writer EXCEPT ![o] = "closed"]
                      /\ Goto(o, "cleaning")
                   \/ /\ ~throws
                      /\ writer' = [writer EXCEPT ![o] = "ready"]
                      /\ Goto(o, "looping")
                      /\ UNCHANGED outcome
       \/ /\ Fails("native")
          /\ Write(o) \/ UNCHANGED disk
          /\ outcome' = [outcome EXCEPT ![o] = "error"]
          /\ writer' = [writer EXCEPT ![o] = "closed"]
          /\ Goto(o, "cleaning")
          /\ UNCHANGED <<done, aborted>>
    /\ UNCHANGED <<published, late>>

(* extract(): one task reads, selects and writes the whole file.           *)
ExtractEnd(o) ==
    /\ pc[o] = "appending"
    /\ Kind[o] = "extract"
    /\ \/ /\ disk' = [disk EXCEPT ![PartialOf(o)] =
                         [calls |-> <<o>>, state |-> "whole"]]
          /\ done' = [done EXCEPT ![o] = 1]
          /\ \E throws \in BOOLEAN :
                /\ Callback(o, throws)
                /\ IF throws \/ o \in aborted'
                   THEN Leave(o, "error")
                   ELSE Goto(o, "renaming") /\ UNCHANGED <<outcome, writer>>
       \/ /\ Fails("native")
          /\ Create(o) \/ UNCHANGED disk
          /\ Leave(o, "error")
          /\ UNCHANGED <<done, aborted>>
    /\ UNCHANGED <<published, late>>

(* assemble() finalizes in place and goes on to rename(); the writer is    *)
(* consumed whatever the outcome.                                          *)
FinalizeSync(o) ==
    /\ pc[o] = "looping"
    /\ Kind[o] = "assemble"
    /\ done[o] = Inputs[o]
    /\ \/ /\ ThrowIfAborted(o)
          /\ UNCHANGED disk
       \/ /\ o \notin aborted
          /\ Complete(o)
          /\ writer' = [writer EXCEPT ![o] = "closed"]
          /\ Goto(o, "renaming")
          /\ UNCHANGED outcome
       \/ /\ o \notin aborted
          /\ Fails("native")
          /\ Leave(o, "error")
          /\ UNCHANGED disk
    /\ UNCHANGED <<done, aborted, published, late>>

(* merge() awaits finalizeAsync() and checks the signal once more.         *)
FinalizeStart(o) ==
    /\ pc[o] = "looping"
    /\ Kind[o] = "merge"
    /\ done[o] = Inputs[o]
    /\ \/ ThrowIfAborted(o)
       \/ /\ o \notin aborted
          /\ writer' = [writer EXCEPT ![o] = "busy"]
          /\ Goto(o, "finalizing")
          /\ UNCHANGED outcome
    /\ UNCHANGED <<done, aborted, disk, published, late>>

FinalizeEnd(o) ==
    /\ pc[o] = "finalizing"
    /\ writer' = [writer EXCEPT ![o] = "closed"]
    /\ \/ /\ Complete(o)
          /\ \/ /\ o \notin aborted
                /\ Goto(o, "renaming")
                /\ UNCHANGED outcome
             \/ /\ o \in aborted
                /\ Goto(o, "cleaning")
                /\ outcome' = [outcome EXCEPT ![o] = "error"]
       \/ /\ Fails("native")
          /\ Goto(o, "cleaning")
          /\ outcome' = [outcome EXCEPT ![o] = "error"]
          /\ UNCHANGED disk
    /\ UNCHANGED <<done, aborted, published, late>>

-----------------------------------------------------------------------------
(* Only merge() and extract() ask for the size of what they published.     *)
Renamed(o) ==
    /\ pc[o] = "renaming"
    /\ \/ /\ disk[PartialOf(o)].state # "absent"
          /\ disk' = [disk EXCEPT ![OutputOf(o)]  = disk[PartialOf(o)],
                                  ![PartialOf(o)] = Absent]
          /\ published' = published \union {o}
          /\ IF Kind[o] = "assemble"
             THEN Leave(o, "ok")
             ELSE Goto(o, "statting") /\ UNCHANGED <<outcome, writer>>
       \/ /\ disk[PartialOf(o)].state = "absent" \/ Fails("rename")
          /\ Leave(o, "error")
          /\ UNCHANGED <<disk, published>>
    /\ UNCHANGED <<done, aborted, late>>

Statted(o) ==
    /\ pc[o] = "statting"
    /\ \/ Leave(o, "ok") /\ UNCHANGED late
       \/ /\ Fails("stat")
          /\ Leave(o, "error")
          /\ late' = late \union {o}
    /\ UNCHANGED <<done, aborted, disk, published>>

(* Mutants of Cleaned: the error is swallowed; the file is not removed.    *)
CleanedSwallowing(o) ==
    /\ pc[o] = "cleaning"
    /\ disk' = [disk EXCEPT ![PartialOf(o)] = Absent]
    /\ Goto(o, "resolved")
    /\ UNCHANGED <<done, outcome, writer, aborted, published, late>>

CleanedKeeping(o) ==
    /\ pc[o] = "cleaning"
    /\ Goto(o, IF outcome[o] = "ok" THEN "resolved" ELSE "rejected")
    /\ UNCHANGED <<done, outcome, writer, aborted, disk, published, late>>

(* rm(force) has settled; its own error replaces the outcome.              *)
Cleaned(o) ==
    /\ pc[o] = "cleaning"
    /\ \/ /\ disk' = [disk EXCEPT ![PartialOf(o)] = Absent]
          /\ Goto(o, IF outcome[o] = "ok" THEN "resolved" ELSE "rejected")
          /\ UNCHANGED late
       \/ /\ Fails("rm")
          /\ Goto(o, "rejected")
          /\ late' = late \union {o}
          /\ UNCHANGED disk
    /\ UNCHANGED <<done, outcome, writer, aborted, published>>

-----------------------------------------------------------------------------
Abort(o) ==
    /\ o \notin aborted
    /\ pc[o] \notin Settled \union {"dead"}
    /\ aborted' = aborted \union {o}
    /\ UNCHANGED <<pc, done, outcome, writer, disk, published, late>>

(* The process dies: nothing of it is left but the files.                  *)
Crash ==
    /\ Fails("crash")
    /\ \E o \in Ops : pc[o] \notin Settled \union {"idle", "dead"}
    /\ pc' = [o \in Ops |-> IF pc[o] \in Settled THEN pc[o] ELSE "dead"]
    /\ UNCHANGED <<done, outcome, writer, aborted, disk, published, late>>

Step(o) ==
    \/ Begin(o) \/ Counted(o)
    \/ AppendSync(o) \/ AppendStart(o) \/ AppendEnd(o) \/ ExtractEnd(o)
    \/ FinalizeSync(o) \/ FinalizeStart(o) \/ FinalizeEnd(o)
    \/ Renamed(o) \/ Statted(o) \/ Cleaned(o)

Next == Crash \/ \E o \in Ops : Step(o) \/ Abort(o)

Spec == Init /\ [][Next]_vars

(* The event loop and libuv finish what a call has started.                *)
FairSpec == Spec /\ \A o \in Ops : WF_vars(Step(o))

-----------------------------------------------------------------------------
(* What a call that ran to its end has written.                            *)
Document(o) == [calls |-> [i \in 1..Inputs[o] |-> o], state |-> "whole"]

(* At every moment, after any failure, an output path holds what was there *)
(* before or the complete document of one call: never a part, never a mix. *)
OutputsWhole ==
    \A p \in Paths :
        \/ disk[<<"output", p>>] = Old
        \/ \E o \in Ops : Target[o] = p /\ disk[<<"output", p>>] = Document(o)

(* A call that resolves has published, and one that rejects has left the   *)
(* output as it was, unless it rejects because a step after the rename     *)
(* failed: stat(), or the rm() of the cleanup.                             *)
SettledAsPublished ==
    \A o \in Ops :
        /\ pc[o] = "resolved" => o \in published
        /\ pc[o] = "rejected" /\ o \notin late => o \notin published

(* A call that has settled leaves no partial file behind, unless its rm()  *)
(* failed.                                                                 *)
NoLeftovers ==
    \A o \in Ops : pc[o] \in Settled /\ o \notin late => disk[PartialOf(o)] = Absent

(* Every call settles, cancelled or not, or dies with the process.         *)
EveryCallSettles ==
    \A o \in Ops : pc[o] # "idle" ~> pc[o] \in Settled \union {"dead"}
=============================================================================
