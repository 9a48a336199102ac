---------------------------- MODULE AssemblySlot ----------------------------
(***************************************************************************)
(* One native Assembly object of crates/core (node.rs): the slot that owns *)
(* its writer, the synchronous methods that run on the JavaScript thread,  *)
(* and the tasks that borrow the writer on the libuv threadpool.           *)
(*                                                                         *)
(* Every method call is a member of Calls, used once.  A document is the   *)
(* sequence of the append calls whose pages are in it.  Parsing, the PDF   *)
(* objects and the error codes are not modelled; a failing append either   *)
(* leaves the writer as it was or leaves it torn, with objects in the file *)
(* that no page list knows.                                                *)
(***************************************************************************)
EXTENDS Naturals, Sequences, FiniteSets

CONSTANTS
    Calls,     \* the method calls made on the object
    Careful,   \* the caller aborts after a failed append, as guard() requires
    NoOutput   \* stands for an output file that was never completed

ASSUME CallsFinite == IsFiniteSet(Calls)
ASSUME CarefulBoolean == Careful \in BOOLEAN
ASSUME NoOutputIsNoDocument == NoOutput \notin Seq(Calls)

VARIABLES
    slot,      \* Slot of the object
    kind,      \* what each call is
    stage,     \* where each call is
    took,      \* take_ready() gave the call the writer
    holds,     \* the task still has the writer
    result,    \* what the call returned, or its promise settles with
    doc,       \* page_ids of the writer
    torn,      \* the writer wrote objects of a shard it then refused
    reported,  \* appends the caller was told succeeded, oldest first
    failed,    \* the caller was told an append failed
    output     \* the document finalize() completed

callVars   == <<kind, stage, took, holds, result>>
writerVars == <<doc, torn, output>>
vars       == <<slot, callVars, writerVars, reported, failed>>

Slots  == {"Ready", "Busy", "Consumed"}
Stages == {"unused", "queued", "running", "computed", "settled"}

TypeOK ==
    /\ slot \in Slots
    /\ kind \in [Calls -> {"none", "append", "finalize"}]
    /\ stage \in [Calls -> Stages]
    /\ took \in [Calls -> BOOLEAN]
    /\ holds \in [Calls -> BOOLEAN]
    /\ result \in [Calls -> {"pending", "ok", "error"}]
    /\ doc \in Seq(Calls)
    /\ torn \in BOOLEAN
    /\ reported \in Seq(Calls)
    /\ failed \in BOOLEAN
    /\ output \in Seq(Calls) \union {NoOutput}
    /\ \A c \in Calls : holds[c] => took[c] /\ stage[c] # "settled"

Init ==
    /\ slot = "Ready"
    /\ kind = [c \in Calls |-> "none"]
    /\ stage = [c \in Calls |-> "unused"]
    /\ took = [c \in Calls |-> FALSE]
    /\ holds = [c \in Calls |-> FALSE]
    /\ result = [c \in Calls |-> "pending"]
    /\ doc = <<>>
    /\ torn = FALSE
    /\ reported = <<>>
    /\ failed = FALSE
    /\ output = NoOutput

-----------------------------------------------------------------------------
Callable(c) ==
    /\ stage[c] = "unused"
    /\ Careful => ~failed

(* Mutant of AppendOutcome: a failing write counts as a success.           *)
AppendOutcomeSwallowed(c, r) ==
    r = "ok" /\ doc' = Append(doc, c) /\ torn' \in {torn, TRUE}

(* What append_shard_doc() does to the writer of call c, and its result.   *)
AppendOutcome(c, r) ==
    \/ r = "ok" /\ doc' = Append(doc, c) /\ UNCHANGED torn
    \/ r = "error" /\ UNCHANGED doc /\ torn' \in {torn, TRUE}

(* finalize() of the writer: the file is complete, or an error left it.    *)
FinalizeOutcome(r) ==
    \/ r = "ok" /\ output' = doc
    \/ r = "error" /\ UNCHANGED output

(* The caller learns the result of an append that had the writer.          *)
ReportAppend(c, r) ==
    /\ reported' = IF r = "ok" THEN Append(reported, c) ELSE reported
    /\ failed' = (failed \/ r = "error")

(* A synchronous call is over when it returns.                             *)
ReturnSync(c, k, r) ==
    /\ kind' = [kind EXCEPT ![c] = k]
    /\ stage' = [stage EXCEPT ![c] = "settled"]
    /\ result' = [result EXCEPT ![c] = r]
    /\ UNCHANGED <<took, holds>>

-----------------------------------------------------------------------------
(* The JavaScript thread.                                                  *)

(* appendShard(), appendShardBytes(): with_ready() runs them in place.     *)
AppendSync(c) ==
    /\ Callable(c)
    /\ slot = "Ready"
    /\ \E r \in {"ok", "error"} :
          /\ AppendOutcome(c, r)
          /\ ReportAppend(c, r)
          /\ ReturnSync(c, "append", r)
    /\ UNCHANGED <<slot, output>>

(* Mutant of FinalizeSync: the slot is not consumed.                       *)
FinalizeSyncReusable(c) ==
    /\ Callable(c)
    /\ slot = "Ready"
    /\ \E r \in {"ok", "error"} :
          /\ FinalizeOutcome(r)
          /\ ReturnSync(c, "finalize", r)
    /\ UNCHANGED <<slot, doc, torn, reported, failed>>

(* finalize(): the slot is consumed before the writer runs.                *)
FinalizeSync(c) ==
    /\ Callable(c)
    /\ slot = "Ready"
    /\ slot' = "Consumed"
    /\ \E r \in {"ok", "error"} :
          /\ FinalizeOutcome(r)
          /\ ReturnSync(c, "finalize", r)
    /\ UNCHANGED <<doc, torn, reported, failed>>

(* A bad argument, a busy or a consumed assembly: a coded error at once.   *)
RejectSync(c) ==
    /\ Callable(c)
    /\ \E k \in {"append", "finalize"} : ReturnSync(c, k, "error")
    /\ UNCHANGED <<slot, writerVars, reported, failed>>

(* appendShardAsync(), appendShardBytesAsync(), finalizeAsync(): the task  *)
(* is queued in any case; it has the writer only if the argument is valid  *)
(* and the slot was ready.                                                 *)
TakeReady(c) ==
    /\ slot = "Ready"
    /\ slot' = "Busy"
    /\ took' = [took EXCEPT ![c] = TRUE]
    /\ holds' = [holds EXCEPT ![c] = TRUE]

Spawn(c, k) ==
    /\ Callable(c)
    /\ kind' = [kind EXCEPT ![c] = k]
    /\ stage' = [stage EXCEPT ![c] = "queued"]
    /\ TakeReady(c) \/ UNCHANGED <<slot, took, holds>>
    /\ UNCHANGED <<result, writerVars, reported, failed>>

AppendAsync(c)   == Spawn(c, "append")
FinalizeAsync(c) == Spawn(c, "finalize")

(* abort(): an idle writer is dropped, one in flight by its task.          *)
Abort ==
    /\ slot # "Consumed"
    /\ slot' = "Consumed"
    /\ UNCHANGED <<callVars, writerVars, reported, failed>>

-----------------------------------------------------------------------------
(* A thread of the libuv pool.                                             *)

Start(c) ==
    /\ stage[c] = "queued"
    /\ stage' = [stage EXCEPT ![c] = "running"]
    /\ UNCHANGED <<slot, kind, took, holds, result, writerVars, reported, failed>>

Computed(c, r) ==
    /\ stage' = [stage EXCEPT ![c] = "computed"]
    /\ result' = [result EXCEPT ![c] = r]
    /\ UNCHANGED <<slot, kind, took, reported, failed>>

(* compute() of AppendShardTask; without the writer it only fails.         *)
ComputeAppend(c) ==
    /\ stage[c] = "running"
    /\ kind[c] = "append"
    /\ \E r \in {"ok", "error"} :
          /\ \/ holds[c] /\ AppendOutcome(c, r)
             \/ ~holds[c] /\ r = "error" /\ UNCHANGED <<doc, torn>>
          /\ Computed(c, r)
    /\ UNCHANGED <<holds, output>>

(* compute() of FinalizeTask: the writer is gone when it returns.          *)
ComputeFinalize(c) ==
    /\ stage[c] = "running"
    /\ kind[c] = "finalize"
    /\ \E r \in {"ok", "error"} :
          /\ \/ holds[c] /\ FinalizeOutcome(r)
             \/ ~holds[c] /\ r = "error" /\ UNCHANGED output
          /\ Computed(c, r)
    /\ holds' = [holds EXCEPT ![c] = FALSE]
    /\ UNCHANGED <<doc, torn>>

Compute(c) == ComputeAppend(c) \/ ComputeFinalize(c)

-----------------------------------------------------------------------------
(* Back on the JavaScript thread: the promise settles and finally() runs.  *)

(* Mutant of SlotAfter: a finalize leaves the slot busy.                   *)
SlotAfterStayingBusy(c) ==
    IF took[c] /\ slot = "Busy" /\ kind[c] = "append" THEN "Ready" ELSE slot

(* give_back(), or the end of an owned slot; both leave an aborted one.    *)
SlotAfter(c) ==
    IF took[c] /\ slot = "Busy"
    THEN IF kind[c] = "append" THEN "Ready" ELSE "Consumed"
    ELSE slot

(* Mutant of Settle: finally() does not drop the writer.                   *)
SettleLeaking(c) ==
    /\ stage[c] = "computed"
    /\ stage' = [stage EXCEPT ![c] = "settled"]
    /\ slot' = SlotAfter(c)
    /\ IF kind[c] = "append" /\ took[c]
       THEN ReportAppend(c, result[c])
       ELSE UNCHANGED <<reported, failed>>
    /\ UNCHANGED <<kind, took, holds, result, writerVars>>

Settle(c) ==
    /\ stage[c] = "computed"
    /\ stage' = [stage EXCEPT ![c] = "settled"]
    /\ slot' = SlotAfter(c)
    /\ holds' = [holds EXCEPT ![c] = FALSE]
    /\ IF kind[c] = "append" /\ took[c]
       THEN ReportAppend(c, result[c])
       ELSE UNCHANGED <<reported, failed>>
    /\ UNCHANGED <<kind, took, result, writerVars>>

-----------------------------------------------------------------------------
Next ==
    \/ \E c \in Calls :
          \/ AppendSync(c) \/ FinalizeSync(c) \/ RejectSync(c)
          \/ AppendAsync(c) \/ FinalizeAsync(c)
          \/ Start(c) \/ Compute(c) \/ Settle(c)
    \/ Abort

Spec == Init /\ [][Next]_vars

(* The pool runs what is queued, and the event loop what has completed;    *)
(* nothing makes a caller call.                                            *)
Fairness == \A c \in Calls : WF_vars(Start(c) \/ Compute(c) \/ Settle(c))

FairSpec == Spec /\ Fairness

-----------------------------------------------------------------------------
(* Tasks that were given the writer and have not settled.                  *)
InFlight == {c \in Calls : took[c] /\ stage[c] # "settled"}

(* "At most one operation may run on it at a time": one task at most has   *)
(* the writer, a ready slot means none does, and busy means that some task *)
(* will end it.                                                            *)
OneOperation ==
    /\ \A c, d \in InFlight : c = d
    /\ slot = "Ready" => InFlight = {}
    /\ slot = "Busy" => InFlight # {}

(* An idle assembly holds just the shards the caller was told it holds:    *)
(* no append is lost, doubled or reordered by the threadpool.              *)
IdleIsReported == slot = "Ready" => doc = reported

(* A caller that aborts after a failed append never gets a finished file   *)
(* with objects of a refused shard in it.                                  *)
OutputIntact == Careful /\ output # NoOutput => ~torn

(* Consumed is for ever: no later completion brings the writer back, and   *)
(* no later call gets it.                                                  *)
ConsumedForEver ==
    [][slot = "Consumed" => slot' = "Consumed" /\ UNCHANGED took]_vars

(* What is published is what was acknowledged, once.                       *)
Doc == INSTANCE Document
         WITH Shards <- Calls, Unpublished <- NoOutput,
              acknowledged <- reported, published <- output
DocumentSpec == Doc!Spec

(* An assembly is busy until the promise in flight settles, not longer.    *)
BusyEnds == slot = "Busy" ~> slot # "Busy"
=============================================================================
