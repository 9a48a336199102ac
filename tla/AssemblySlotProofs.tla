------------------------- MODULE AssemblySlotProofs -------------------------
(***************************************************************************)
(* Proofs about AssemblySlot, for any set of calls.                        *)
(***************************************************************************)
EXTENDS AssemblySlot, TLAPS

(* The writer is in the task from the take until its work needs it no more.*)
Carries(c) ==
    /\ took[c]
    /\ \/ stage[c] \in {"queued", "running"}
       \/ stage[c] = "computed" /\ kind[c] = "append"

HoldsExact ==
    \A c \in Calls :
        /\ holds[c] = Carries(c)
        /\ took[c] => stage[c] # "unused" /\ kind[c] # "none"

(* An append that is done and not yet reported.                            *)
Unreported(c) ==
    /\ c \in InFlight
    /\ kind[c] = "append"
    /\ stage[c] = "computed"

(* The writer is ahead of the caller by the unreported append, if any.     *)
WriterAhead ==
    /\ \A c \in Calls :
          Unreported(c) /\ result[c] = "ok" => doc = Append(reported, c)
    /\ (\A c \in Calls : Unreported(c) => result[c] # "ok") => doc = reported

(* Once something is published, nothing that could append is left.         *)
PublishedLast ==
    output # NoOutput =>
        /\ output = doc
        /\ slot # "Ready"
        /\ \A c \in InFlight : kind[c] = "finalize" /\ stage[c] = "computed"

(* A torn writer has been reported, or is about to be; no finalize of a    *)
(* careful caller has it.                                                  *)
TearKnown ==
    /\ torn => failed \/ \E c \in Calls : Unreported(c) /\ result[c] = "error"
    /\ Careful => \A c \in InFlight : kind[c] = "finalize" => ~torn
    /\ OutputIntact

SlotInv ==
    /\ TypeOK
    /\ OneOperation
    /\ HoldsExact
    /\ WriterAhead
    /\ PublishedLast
    /\ TearKnown

-----------------------------------------------------------------------------
LEMMA InitSlot == Init => SlotInv
<1> SUFFICES ASSUME Init PROVE SlotInv
  OBVIOUS
<1>1. InFlight = {}
  BY DEF Init, InFlight
<1>2. doc \in Seq(Calls) /\ reported \in Seq(Calls)
  BY DEF Init
<1>3. TypeOK
  BY <1>2 DEF Init, TypeOK, Slots, Stages
<1>4. HoldsExact
  BY DEF Init, HoldsExact, Carries
<1> QED
  BY <1>1, <1>3, <1>4
  DEF Init, SlotInv, OneOperation, WriterAhead, Unreported, PublishedLast,
      TearKnown, OutputIntact

(* A call that returns at once and leaves slot and writer alone.           *)
LEMMA RejectSlot ==
    ASSUME SlotInv, NEW c \in Calls, RejectSync(c)
    PROVE  SlotInv'
<1>1. PICK k \in {"append", "finalize"} : ReturnSync(c, k, "error")
  BY DEF RejectSync
<1>2. /\ stage[c] = "unused" /\ ~took[c] /\ ~holds[c]
      /\ UNCHANGED <<slot, took, holds, doc, torn, output, reported, failed>>
  BY DEF RejectSync, Callable, ReturnSync, SlotInv, HoldsExact, TypeOK, writerVars
<1>3. /\ stage' = [stage EXCEPT ![c] = "settled"]
      /\ kind' = [kind EXCEPT ![c] = k]
      /\ result' = [result EXCEPT ![c] = "error"]
  BY <1>1 DEF ReturnSync
<1>4. ASSUME NEW d \in Calls, took[d]
      PROVE  kind'[d] = kind[d] /\ stage'[d] = stage[d] /\ result'[d] = result[d]
  BY <1>2, <1>3, <1>4 DEF SlotInv, TypeOK
<1>5. TypeOK'
  BY <1>2, <1>3 DEF SlotInv, TypeOK, Stages
<1>6. InFlight' = InFlight
  BY <1>2, <1>4 DEF InFlight
<1>7. HoldsExact'
  BY <1>2, <1>4 DEF SlotInv, HoldsExact, Carries
<1>8. \A d \in Calls : Unreported(d)' = Unreported(d)
  BY <1>4, <1>6 DEF Unreported, InFlight
<1>9. \A d \in Calls : Unreported(d) => result'[d] = result[d]
  BY <1>4 DEF Unreported, InFlight
<1>10. WriterAhead' /\ TearKnown'
  BY <1>2, <1>4, <1>6, <1>8, <1>9
  DEF SlotInv, WriterAhead, TearKnown, OutputIntact, InFlight
<1>11. PublishedLast'
  BY <1>2, <1>4, <1>6 DEF SlotInv, PublishedLast, InFlight
<1> QED
  BY <1>2, <1>5, <1>6, <1>7, <1>10, <1>11 DEF SlotInv, OneOperation

(* When the slot is ready nothing is in flight, and nothing unreported.    *)
LEMMA ReadyIsIdle ==
    ASSUME SlotInv, slot = "Ready"
    PROVE  /\ InFlight = {}
           /\ \A c \in Calls : ~Unreported(c) /\ ~holds[c]
           /\ doc = reported
           /\ output = NoOutput
           /\ torn => failed
<1>1. InFlight = {}
  BY DEF SlotInv, OneOperation
<1>2. \A c \in Calls : ~Unreported(c)
  BY <1>1 DEF Unreported
<1>3. \A c \in Calls : ~holds[c]
  BY <1>1 DEF SlotInv, TypeOK, InFlight
<1> QED
  BY <1>1, <1>2, <1>3 DEF SlotInv, WriterAhead, PublishedLast, TearKnown

(* An append whose result is reported at once.                             *)
LEMMA AppendEffect ==
    ASSUME SlotInv, NEW c \in Calls, NEW r \in {"ok", "error"},
           AppendOutcome(c, r), ReportAppend(c, r),
           doc = reported, torn => failed
    PROVE  /\ doc' \in Seq(Calls) /\ reported' \in Seq(Calls)
           /\ torn' \in BOOLEAN /\ failed' \in BOOLEAN
           /\ doc' = reported' /\ (torn' => failed')
<1>1. CASE r = "ok"
  <2>1. /\ doc' = Append(doc, c) /\ reported' = Append(reported, c)
        /\ UNCHANGED torn
    BY <1>1 DEF AppendOutcome, ReportAppend
  <2>2. UNCHANGED failed
    BY <1>1 DEF ReportAppend, SlotInv, TypeOK
  <2> QED
    BY <2>1, <2>2 DEF SlotInv, TypeOK
<1>2. CASE r = "error"
  <2>1. UNCHANGED <<doc, reported>> /\ torn' \in {torn, TRUE} /\ failed' = TRUE
    BY <1>2 DEF AppendOutcome, ReportAppend
  <2> QED
    BY <2>1 DEF SlotInv, TypeOK
<1> QED
  BY <1>1, <1>2

LEMMA SyncSlot ==
    ASSUME SlotInv, NEW c \in Calls, AppendSync(c) \/ FinalizeSync(c)
    PROVE  SlotInv'
<1>1. /\ slot = "Ready" /\ stage[c] = "unused" /\ (Careful => ~failed)
      /\ UNCHANGED <<took, holds>>
      /\ slot' \in {"Ready", "Consumed"}
      /\ AppendSync(c) => slot' = "Ready"
      /\ FinalizeSync(c) => slot' = "Consumed"
  BY DEF AppendSync, FinalizeSync, Callable, ReturnSync
<1>2. PICK k \in {"append", "finalize"}, r \in {"ok", "error"} :
          /\ stage' = [stage EXCEPT ![c] = "settled"]
          /\ kind' = [kind EXCEPT ![c] = k]
          /\ result' = [result EXCEPT ![c] = r]
  BY DEF AppendSync, FinalizeSync, ReturnSync
<1>3. /\ InFlight = {} /\ doc = reported /\ output = NoOutput
      /\ torn => failed
      /\ \A d \in Calls : ~took[d] \/ stage[d] = "settled"
      /\ \A d \in Calls : ~holds[d]
  BY <1>1, ReadyIsIdle DEF InFlight
<1>4. InFlight' = {} /\ \A d \in Calls : ~Unreported(d)'
  BY <1>1, <1>2, <1>3 DEF InFlight, Unreported, SlotInv, TypeOK
<1>5. HoldsExact'
  BY <1>1, <1>2, <1>3 DEF HoldsExact, Carries, SlotInv, TypeOK
<1>6. /\ doc' \in Seq(Calls) /\ reported' \in Seq(Calls)
      /\ torn' \in BOOLEAN /\ failed' \in BOOLEAN
      /\ doc' = reported' /\ (torn' => failed')
      /\ \/ output' = NoOutput
         \/ slot' = "Consumed" /\ output' = doc' /\ ~(Careful /\ torn')
  <2>1. CASE AppendSync(c)
    <3>1. PICK q \in {"ok", "error"} : AppendOutcome(c, q) /\ ReportAppend(c, q)
      BY <2>1 DEF AppendSync
    <3>2. UNCHANGED output
      BY <2>1 DEF AppendSync
    <3> QED
      BY <1>3, <3>1, <3>2, AppendEffect
  <2>2. CASE FinalizeSync(c)
    <3>1. PICK q \in {"ok", "error"} : FinalizeOutcome(q)
      BY <2>2 DEF FinalizeSync
    <3>2. UNCHANGED <<doc, torn, reported, failed>>
      BY <2>2 DEF FinalizeSync
    <3>3. output' = NoOutput \/ output' = doc
      BY <1>3, <3>1 DEF FinalizeOutcome
    <3> QED
      BY <1>1, <1>3, <2>2, <3>2, <3>3 DEF SlotInv, TypeOK
  <2> QED
    BY <2>1, <2>2
<1>7. TypeOK'
  BY <1>1, <1>2, <1>3, <1>6 DEF SlotInv, TypeOK, Slots, Stages
<1>8. WriterAhead' /\ PublishedLast'
  BY <1>1, <1>4, <1>6 DEF WriterAhead, PublishedLast
<1>9. TearKnown'
  BY <1>4, <1>6 DEF TearKnown, OutputIntact
<1> QED
  BY <1>1, <1>4, <1>5, <1>7, <1>8, <1>9 DEF SlotInv, OneOperation

LEMMA SpawnSlot ==
    ASSUME SlotInv, NEW c \in Calls, NEW k \in {"append", "finalize"}, Spawn(c, k)
    PROVE  SlotInv'
<1>1. /\ kind' = [kind EXCEPT ![c] = k]
      /\ stage' = [stage EXCEPT ![c] = "queued"]
      /\ stage[c] = "unused" /\ (Careful => ~failed)
      /\ UNCHANGED <<result, doc, torn, output, reported, failed>>
  BY DEF Spawn, Callable, writerVars
<1>2. ~took[c] /\ ~holds[c]
  BY <1>1 DEF SlotInv, HoldsExact, TypeOK
<1>3. ASSUME NEW d \in Calls, d # c
      PROVE  /\ kind'[d] = kind[d] /\ stage'[d] = stage[d]
             /\ took'[d] = took[d] /\ holds'[d] = holds[d]
  BY <1>3 DEF Spawn, TakeReady, SlotInv, TypeOK
<1>4. /\ kind'[c] = k /\ stage'[c] = "queued"
      /\ took'[c] = holds'[c] /\ took'[c] \in BOOLEAN
  <2>1. kind'[c] = k /\ stage'[c] = "queued"
    BY <1>1 DEF SlotInv, TypeOK
  <2>2. CASE TakeReady(c)
    BY <2>1, <2>2 DEF TakeReady, SlotInv, TypeOK
  <2>3. CASE UNCHANGED <<slot, took, holds>>
    BY <1>2, <2>1, <2>3 DEF SlotInv, TypeOK
  <2> QED
    BY <2>2, <2>3 DEF Spawn
<1>5. TypeOK'
  <2>1. /\ slot' \in Slots /\ took' \in [Calls -> BOOLEAN]
        /\ holds' \in [Calls -> BOOLEAN]
    BY DEF Spawn, TakeReady, SlotInv, TypeOK, Slots
  <2>2. kind' \in [Calls -> {"none", "append", "finalize"}] /\ stage' \in [Calls -> Stages]
    BY <1>1 DEF SlotInv, TypeOK, Stages
  <2>3. \A d \in Calls : holds'[d] => took'[d] /\ stage'[d] # "settled"
    BY <1>3, <1>4 DEF SlotInv, TypeOK
  <2> QED
    BY <1>1, <2>1, <2>2, <2>3 DEF SlotInv, TypeOK
<1>6. HoldsExact'
  BY <1>3, <1>4 DEF SlotInv, HoldsExact, Carries
<1>7. \A d \in Calls : Unreported(d)' = Unreported(d)
  BY <1>2, <1>3, <1>4 DEF Unreported, InFlight
<1>8. WriterAhead'
  BY <1>1, <1>7 DEF SlotInv, WriterAhead
<1>9. CASE TakeReady(c)
  <2>1. InFlight' = {c} /\ slot' = "Busy" /\ output = NoOutput /\ ~(Careful /\ torn)
    BY <1>1, <1>2, <1>3, <1>4, <1>9, ReadyIsIdle
    DEF TakeReady, InFlight, SlotInv, TypeOK
  <2> QED
    BY <1>1, <1>5, <1>6, <1>7, <1>8, <2>1
    DEF SlotInv, OneOperation, PublishedLast, TearKnown, OutputIntact
<1>10. CASE UNCHANGED <<slot, took, holds>>
  <2>1. InFlight' = InFlight /\ \A d \in InFlight : d # c
    BY <1>2, <1>3, <1>10 DEF InFlight
  <2>2. OneOperation' /\ PublishedLast'
    BY <1>1, <1>3, <1>10, <2>1 DEF SlotInv, OneOperation, PublishedLast, InFlight
  <2>3. TearKnown'
    BY <1>1, <1>3, <1>7, <2>1 DEF SlotInv, TearKnown, OutputIntact, InFlight
  <2> QED
    BY <1>5, <1>6, <1>8, <2>2, <2>3 DEF SlotInv
<1> QED
  BY <1>9, <1>10 DEF Spawn

LEMMA StartSlot ==
    ASSUME SlotInv, NEW c \in Calls, Start(c)
    PROVE  SlotInv'
<1>1. /\ stage[c] = "queued" /\ stage' = [stage EXCEPT ![c] = "running"]
      /\ UNCHANGED <<slot, kind, took, holds, result, doc, torn, output,
                     reported, failed>>
  BY DEF Start, writerVars
<1>2. stage'[c] = "running" /\ \A d \in Calls : d # c => stage'[d] = stage[d]
  BY <1>1 DEF SlotInv, TypeOK
<1>3. TypeOK'
  BY <1>1, <1>2 DEF SlotInv, TypeOK, Stages
<1>4. InFlight' = InFlight
  BY <1>1, <1>2 DEF InFlight
<1>5. HoldsExact'
  BY <1>1, <1>2 DEF SlotInv, HoldsExact, Carries
<1>6. \A d \in Calls : Unreported(d)' = Unreported(d)
  BY <1>1, <1>2, <1>4 DEF Unreported
<1>7. WriterAhead' /\ TearKnown'
  BY <1>1, <1>4, <1>6 DEF SlotInv, WriterAhead, TearKnown, OutputIntact
<1>8. PublishedLast'
  BY <1>1, <1>2, <1>4 DEF SlotInv, PublishedLast
<1> QED
  BY <1>1, <1>3, <1>4, <1>5, <1>7, <1>8 DEF SlotInv, OneOperation

(* A task without the writer only fails.                                   *)
LEMMA ComputeNothing ==
    ASSUME SlotInv, NEW c \in Calls, Compute(c), ~holds[c]
    PROVE  SlotInv'
<1>1. /\ stage[c] = "running" /\ stage' = [stage EXCEPT ![c] = "computed"]
      /\ result' = [result EXCEPT ![c] = "error"]
      /\ UNCHANGED <<slot, kind, took, doc, torn, output, reported, failed>>
  BY DEF Compute, ComputeAppend, ComputeFinalize, Computed
<1>2. UNCHANGED holds
  BY DEF Compute, ComputeAppend, ComputeFinalize, SlotInv, TypeOK
<1>3. ~took[c]
  BY <1>1 DEF SlotInv, HoldsExact, Carries
<1>4. ASSUME NEW d \in Calls, took[d]
      PROVE  stage'[d] = stage[d] /\ result'[d] = result[d]
  BY <1>1, <1>3, <1>4 DEF SlotInv, TypeOK
<1>5. TypeOK'
  BY <1>1, <1>2, <1>3 DEF SlotInv, TypeOK, Stages
<1>6. InFlight' = InFlight
  BY <1>1, <1>4 DEF InFlight
<1>7. HoldsExact'
  BY <1>1, <1>2, <1>3, <1>4 DEF SlotInv, HoldsExact, Carries
<1>8. \A d \in Calls : /\ Unreported(d)' = Unreported(d)
                       /\ Unreported(d) => result'[d] = result[d]
  BY <1>1, <1>4, <1>6 DEF Unreported, InFlight
<1>9. WriterAhead' /\ TearKnown'
  BY <1>1, <1>6, <1>8 DEF SlotInv, WriterAhead, TearKnown, OutputIntact
<1>10. PublishedLast'
  BY <1>1, <1>4, <1>6 DEF SlotInv, PublishedLast, InFlight
<1> QED
  BY <1>1, <1>5, <1>6, <1>7, <1>9, <1>10 DEF SlotInv, OneOperation

(* A task that computes with the writer is the only one in flight, and     *)
(* nothing is published yet.                                               *)
LEMMA HolderIsAlone ==
    ASSUME SlotInv, NEW c \in Calls, holds[c], stage[c] = "running"
    PROVE  /\ InFlight = {c}
           /\ doc = reported
           /\ output = NoOutput
           /\ torn => failed
           /\ \A d \in Calls : d # c => ~took[d] \/ stage[d] = "settled"
<1>1. c \in InFlight
  BY DEF SlotInv, TypeOK, InFlight
<1>2. InFlight = {c}
  BY <1>1 DEF SlotInv, OneOperation
<1>3. \A d \in Calls : ~Unreported(d)
  BY <1>2 DEF Unreported
<1> QED
  BY <1>1, <1>2, <1>3
  DEF SlotInv, WriterAhead, PublishedLast, TearKnown, InFlight

LEMMA ComputeAppendSlot ==
    ASSUME SlotInv, NEW c \in Calls, ComputeAppend(c), holds[c]
    PROVE  SlotInv'
<1>1. PICK r \in {"ok", "error"} :
          /\ AppendOutcome(c, r)
          /\ stage' = [stage EXCEPT ![c] = "computed"]
          /\ result' = [result EXCEPT ![c] = r]
          /\ UNCHANGED <<slot, kind, took, reported, failed>>
  BY DEF ComputeAppend, Computed
<1>2. /\ stage[c] = "running" /\ kind[c] = "append"
      /\ UNCHANGED <<holds, output>>
  BY DEF ComputeAppend
<1>3. /\ InFlight = {c} /\ doc = reported /\ output = NoOutput
      /\ torn => failed
      /\ \A d \in Calls : d # c => ~took[d] \/ stage[d] = "settled"
  BY <1>2, HolderIsAlone
<1>4. took[c] /\ stage'[c] = "computed" /\ result'[c] = r
  BY <1>1 DEF SlotInv, TypeOK
<1>5. \A d \in Calls : d # c => stage'[d] = stage[d] /\ result'[d] = result[d]
  BY <1>1 DEF SlotInv, TypeOK
<1>6. InFlight' = {c}
  BY <1>1, <1>3, <1>4, <1>5 DEF InFlight
<1>7. /\ Unreported(c)'
      /\ \A d \in Calls : Unreported(d)' => d = c
  BY <1>1, <1>2, <1>4, <1>6 DEF Unreported
<1>8. /\ doc' \in Seq(Calls) /\ torn' \in BOOLEAN
      /\ r = "ok" => doc' = Append(reported, c) /\ torn' = torn
      /\ r # "ok" => doc' = reported
  <2>1. CASE r = "ok"
    <3>1. doc' = Append(doc, c) /\ torn' = torn
      BY <1>1, <2>1 DEF AppendOutcome
    <3> QED
      BY <1>3, <2>1, <3>1 DEF SlotInv, TypeOK
  <2>2. CASE r = "error"
    <3>1. doc' = doc /\ torn' \in {torn, TRUE}
      BY <1>1, <2>2 DEF AppendOutcome
    <3> QED
      BY <1>3, <2>2, <3>1 DEF SlotInv, TypeOK
  <2> QED
    BY <2>1, <2>2
<1>9. TypeOK'
  BY <1>1, <1>2, <1>4, <1>5, <1>8 DEF SlotInv, TypeOK, Stages
<1>10. HoldsExact'
  <2>1. \A d \in Calls : d # c => Carries(d)' = Carries(d)
    BY <1>1, <1>5 DEF Carries
  <2>2. Carries(c)' /\ kind'[c] # "none"
    BY <1>1, <1>2, <1>4 DEF Carries
  <2>3. holds[c] = TRUE
    BY DEF SlotInv, TypeOK
  <2> QED
    BY <1>1, <1>2, <1>4, <1>5, <2>1, <2>2, <2>3 DEF SlotInv, HoldsExact
<1>11. WriterAhead'
  BY <1>1, <1>4, <1>7, <1>8 DEF WriterAhead
<1>12. PublishedLast'
  BY <1>2, <1>3 DEF PublishedLast
<1>13. TearKnown'
  BY <1>1, <1>2, <1>3, <1>4, <1>6, <1>7, <1>8 DEF TearKnown, OutputIntact
<1> QED
  BY <1>1, <1>3, <1>6, <1>9, <1>10, <1>11, <1>12, <1>13 DEF SlotInv, OneOperation

LEMMA ComputeFinalizeSlot ==
    ASSUME SlotInv, NEW c \in Calls, ComputeFinalize(c), holds[c]
    PROVE  SlotInv'
<1>1. PICK r \in {"ok", "error"} :
          /\ FinalizeOutcome(r)
          /\ stage' = [stage EXCEPT ![c] = "computed"]
          /\ result' = [result EXCEPT ![c] = r]
          /\ UNCHANGED <<slot, kind, took, reported, failed>>
  BY DEF ComputeFinalize, Computed
<1>2. /\ stage[c] = "running" /\ kind[c] = "finalize"
      /\ holds' = [holds EXCEPT ![c] = FALSE]
      /\ UNCHANGED <<doc, torn>>
  BY DEF ComputeFinalize
<1>3. /\ InFlight = {c} /\ doc = reported /\ output = NoOutput
      /\ torn => failed
      /\ \A d \in Calls : d # c => ~took[d] \/ stage[d] = "settled"
  BY <1>2, HolderIsAlone
<1>4. /\ took[c] /\ stage'[c] = "computed" /\ ~holds'[c]
      /\ slot # "Ready"
  BY <1>1, <1>2, <1>3 DEF SlotInv, TypeOK, OneOperation
<1>5. \A d \in Calls : d # c => stage'[d] = stage[d] /\ holds'[d] = holds[d]
  BY <1>1, <1>2 DEF SlotInv, TypeOK
<1>6. InFlight' = {c}
  BY <1>1, <1>3, <1>4, <1>5 DEF InFlight
<1>7. \A d \in Calls : ~Unreported(d)'
  BY <1>1, <1>2, <1>6 DEF Unreported
<1>8. output' \in {NoOutput, doc}
  BY <1>1, <1>3 DEF FinalizeOutcome
<1>9. TypeOK'
  BY <1>1, <1>2, <1>4, <1>5, <1>8 DEF SlotInv, TypeOK, Stages
<1>10. HoldsExact'
  <2>1. \A d \in Calls : d # c => Carries(d)' = Carries(d)
    BY <1>1, <1>5 DEF Carries
  <2>2. Carries(c)' = FALSE /\ kind'[c] # "none"
    BY <1>1, <1>2, <1>4 DEF Carries
  <2>3. holds'[c] = FALSE
    BY <1>2 DEF SlotInv, TypeOK
  <2> QED
    BY <1>1, <1>4, <1>5, <2>1, <2>2, <2>3 DEF SlotInv, HoldsExact
<1>11. WriterAhead' /\ PublishedLast'
  BY <1>1, <1>2, <1>3, <1>4, <1>6, <1>7, <1>8 DEF WriterAhead, PublishedLast
<1>12. TearKnown'
  BY <1>1, <1>2, <1>3, <1>6 DEF SlotInv, TearKnown, OutputIntact
<1> QED
  BY <1>1, <1>4, <1>6, <1>9, <1>10, <1>11, <1>12 DEF SlotInv, OneOperation

(* Completion of a task that never had the writer.                         *)
LEMMA SettleNothing ==
    ASSUME SlotInv, NEW c \in Calls, Settle(c), ~took[c]
    PROVE  SlotInv'
<1>1. /\ stage[c] = "computed" /\ stage' = [stage EXCEPT ![c] = "settled"]
      /\ UNCHANGED <<slot, kind, took, result, doc, torn, output, reported, failed>>
  BY DEF Settle, SlotAfter, writerVars
<1>2. UNCHANGED holds
  BY DEF Settle, SlotInv, TypeOK
<1>3. ASSUME NEW d \in Calls, took[d]
      PROVE  stage'[d] = stage[d]
  BY <1>1, <1>3 DEF SlotInv, TypeOK
<1>4. TypeOK'
  <2>1. \A d \in Calls : holds[d] => took[d] /\ stage'[d] # "settled"
    BY <1>3 DEF SlotInv, TypeOK
  <2> QED
    BY <1>1, <1>2, <2>1 DEF SlotInv, TypeOK, Stages
<1>5. InFlight' = InFlight
  BY <1>1, <1>3 DEF InFlight
<1>6. HoldsExact'
  <2>1. \A d \in Calls : Carries(d)' = Carries(d)
    BY <1>1, <1>3 DEF Carries
  <2>2. \A d \in Calls : took[d] => stage'[d] # "unused" /\ kind[d] # "none"
    BY <1>3 DEF SlotInv, HoldsExact
  <2> QED
    BY <1>1, <1>2, <2>1, <2>2 DEF SlotInv, HoldsExact
<1>7. \A d \in Calls : Unreported(d)' = Unreported(d)
  BY <1>1, <1>3, <1>5 DEF Unreported, InFlight
<1>8. WriterAhead' /\ TearKnown'
  BY <1>1, <1>5, <1>7 DEF SlotInv, WriterAhead, TearKnown, OutputIntact
<1>9. PublishedLast'
  BY <1>1, <1>3, <1>5 DEF SlotInv, PublishedLast, InFlight
<1> QED
  BY <1>1, <1>4, <1>5, <1>6, <1>8, <1>9 DEF SlotInv, OneOperation

(* Completion of the task that has or had the writer: the slot is free or  *)
(* consumed, and the caller is told.                                       *)
LEMMA SettleOwner ==
    ASSUME SlotInv, NEW c \in Calls, Settle(c), took[c]
    PROVE  SlotInv'
<1>1. /\ stage[c] = "computed" /\ stage' = [stage EXCEPT ![c] = "settled"]
      /\ slot' = SlotAfter(c)
      /\ holds' = [holds EXCEPT ![c] = FALSE]
      /\ UNCHANGED <<kind, took, result, doc, torn, output>>
  BY DEF Settle, writerVars
<1>2. InFlight = {c} /\ \A d \in Calls : d # c => ~took[d] \/ stage[d] = "settled"
  BY <1>1 DEF SlotInv, OneOperation, InFlight
<1>3. /\ stage'[c] = "settled" /\ ~holds'[c]
      /\ \A d \in Calls : d # c => stage'[d] = stage[d] /\ holds'[d] = holds[d]
  BY <1>1 DEF SlotInv, TypeOK
<1>4. InFlight' = {} /\ \A d \in Calls : ~Unreported(d)'
  BY <1>1, <1>2, <1>3 DEF InFlight, Unreported
<1>5. /\ slot' \in {"Ready", "Consumed"}
      /\ slot' = "Ready" => kind[c] = "append"
  BY <1>1, <1>2 DEF SlotAfter, SlotInv, TypeOK, Slots, OneOperation
<1>6. /\ reported' \in Seq(Calls) /\ failed' \in BOOLEAN
      /\ doc' = reported' /\ (torn' => failed')
  <2>1. CASE kind[c] = "append" /\ result[c] = "ok"
    <3>1. Unreported(c) /\ \A d \in Calls : Unreported(d) => d = c
      BY <1>1, <1>2, <2>1 DEF Unreported
    <3>2. doc = Append(reported, c) /\ (torn => failed)
      BY <2>1, <3>1 DEF SlotInv, WriterAhead, TearKnown
    <3>3. reported' = Append(reported, c)
      BY <2>1 DEF Settle, ReportAppend
    <3>4. failed' = failed
      BY <2>1 DEF Settle, ReportAppend, SlotInv, TypeOK
    <3> QED
      BY <1>1, <3>2, <3>3, <3>4 DEF SlotInv, TypeOK
  <2>2. CASE kind[c] = "append" /\ result[c] = "error"
    <3>1. \A d \in Calls : Unreported(d) => result[d] # "ok"
      BY <1>2, <2>2 DEF Unreported
    <3>2. doc = reported
      BY <3>1 DEF SlotInv, WriterAhead
    <3>3. reported' = reported /\ failed' = TRUE
      BY <2>2 DEF Settle, ReportAppend
    <3> QED
      BY <1>1, <3>2, <3>3 DEF SlotInv, TypeOK
  <2>3. CASE kind[c] = "append" /\ result[c] = "pending"
    <3>1. \A d \in Calls : Unreported(d) => result[d] = "pending"
      BY <1>2, <2>3 DEF Unreported
    <3>2. doc = reported /\ (torn => failed)
      BY <3>1 DEF SlotInv, WriterAhead, TearKnown
    <3>3. reported' = reported
      BY <2>3 DEF Settle, ReportAppend
    <3>4. failed' = failed
      BY <2>3 DEF Settle, ReportAppend, SlotInv, TypeOK
    <3> QED
      BY <1>1, <3>2, <3>3, <3>4 DEF SlotInv, TypeOK
  <2>4. CASE kind[c] # "append"
    <3>1. \A d \in Calls : ~Unreported(d)
      BY <1>2, <2>4 DEF Unreported
    <3>2. doc = reported /\ (torn => failed)
      BY <3>1 DEF SlotInv, WriterAhead, TearKnown
    <3>3. UNCHANGED <<reported, failed>>
      BY <2>4 DEF Settle
    <3> QED
      BY <1>1, <3>2, <3>3 DEF SlotInv, TypeOK
  <2>5. result[c] \in {"pending", "ok", "error"}
    BY DEF SlotInv, TypeOK
  <2> QED
    BY <2>1, <2>2, <2>3, <2>4, <2>5
<1>7. TypeOK'
  BY <1>1, <1>3, <1>5, <1>6 DEF SlotInv, TypeOK, Slots, Stages
<1>8. HoldsExact'
  <2>1. \A d \in Calls : d # c => Carries(d)' = Carries(d)
    BY <1>1, <1>3 DEF Carries
  <2>2. Carries(c)' = FALSE
    BY <1>3 DEF Carries
  <2>3. holds'[c] = FALSE
    BY <1>1 DEF SlotInv, TypeOK
  <2> QED
    BY <1>1, <1>3, <2>1, <2>2, <2>3 DEF SlotInv, HoldsExact
<1>9. WriterAhead'
  BY <1>4, <1>6 DEF WriterAhead
<1>10. PublishedLast'
  BY <1>1, <1>2, <1>4, <1>5 DEF SlotInv, PublishedLast
<1>11. TearKnown'
  BY <1>1, <1>4, <1>6 DEF SlotInv, TearKnown, OutputIntact
<1> QED
  BY <1>4, <1>5, <1>7, <1>8, <1>9, <1>10, <1>11 DEF SlotInv, OneOperation

LEMMA AbortSlot ==
    ASSUME SlotInv, Abort
    PROVE  SlotInv'
<1>1. /\ slot' = "Consumed"
      /\ UNCHANGED <<kind, stage, took, holds, result, doc, torn, output,
                     reported, failed>>
  BY DEF Abort, callVars, writerVars
<1>2. InFlight' = InFlight
  BY <1>1 DEF InFlight
<1> QED
  BY <1>1, <1>2
  DEF SlotInv, TypeOK, Slots, OneOperation, HoldsExact, Carries, WriterAhead,
      Unreported, PublishedLast, TearKnown, OutputIntact

LEMMA NextSlot == SlotInv /\ [Next]_vars => SlotInv'
<1> SUFFICES ASSUME SlotInv, [Next]_vars PROVE SlotInv'
  OBVIOUS
<1>1. ASSUME NEW c \in Calls, Compute(c) PROVE SlotInv'
  BY <1>1, ComputeNothing, ComputeAppendSlot, ComputeFinalizeSlot DEF Compute
<1>2. ASSUME NEW c \in Calls, Settle(c) PROVE SlotInv'
  BY <1>2, SettleNothing, SettleOwner
<1>3. ASSUME NEW c \in Calls, AppendAsync(c) \/ FinalizeAsync(c) PROVE SlotInv'
  BY <1>3, SpawnSlot DEF AppendAsync, FinalizeAsync
<1>4. CASE UNCHANGED vars
  BY <1>4
  DEF vars, callVars, writerVars, SlotInv, TypeOK, OneOperation, InFlight,
      HoldsExact, Carries, WriterAhead, Unreported, PublishedLast, TearKnown,
      OutputIntact
<1> QED
  BY <1>1, <1>2, <1>3, <1>4, RejectSlot, SyncSlot, StartSlot, AbortSlot DEF Next

-----------------------------------------------------------------------------
THEOREM SlotInvariant == Spec => []SlotInv
<1> QED
  BY InitSlot, NextSlot, PTL DEF Spec

(* Every variable keeps its type, and only a task that took the writer and *)
(* has not settled has it.                                                 *)
THEOREM TypeCorrect == Spec => []TypeOK
<1>1. SlotInv => TypeOK
  BY DEF SlotInv
<1> QED
  BY <1>1, SlotInvariant, PTL

(* node.rs: at most one operation runs on an assembly, a ready one is not  *)
(* borrowed, and a busy one will be given back or consumed.                *)
THEOREM OneAtATime == Spec => []OneOperation
<1>1. SlotInv => OneOperation
  BY DEF SlotInv
<1> QED
  BY <1>1, SlotInvariant, PTL

(* An idle assembly holds the appends that were acknowledged, in order.    *)
THEOREM IdleReported == Spec => []IdleIsReported
<1>1. SlotInv => IdleIsReported
  BY ReadyIsIdle DEF IdleIsReported
<1> QED
  BY <1>1, SlotInvariant, PTL

(* A caller that aborts after a failed append never gets a torn output.    *)
THEOREM OutputStaysIntact == Spec => []OutputIntact
<1>1. SlotInv => OutputIntact
  BY DEF SlotInv, TearKnown
<1> QED
  BY <1>1, SlotInvariant, PTL

(* Nothing brings a consumed assembly back.                                *)
THEOREM ConsumedStays == Spec => ConsumedForEver
<1>1. [Next]_vars
        => [slot = "Consumed" => slot' = "Consumed" /\ UNCHANGED took]_vars
  <2> SUFFICES ASSUME [Next]_vars, slot = "Consumed"
               PROVE  slot' = "Consumed" /\ UNCHANGED took
    OBVIOUS
  <2> QED
    BY DEF Next, vars, callVars, AppendSync, FinalizeSync, RejectSync, ReturnSync,
           AppendAsync, FinalizeAsync, Spawn, TakeReady, Start, Compute,
           ComputeAppend, ComputeFinalize, Computed, Settle, SlotAfter, Abort
<1> QED
  BY <1>1, PTL DEF Spec, ConsumedForEver

-----------------------------------------------------------------------------
LEMMA ReportIsAcknowledge ==
    ASSUME NEW c \in Calls, NEW r, ReportAppend(c, r), output = NoOutput,
           UNCHANGED output
    PROVE  [Doc!Next]_<<reported, output>>
  BY DEF ReportAppend, Doc!Next, Doc!Acknowledge

LEMMA FinalizeIsPublish ==
    ASSUME NEW r, FinalizeOutcome(r), doc = reported, output = NoOutput,
           UNCHANGED reported
    PROVE  [Doc!Next]_<<reported, output>>
  BY DEF FinalizeOutcome, Doc!Next, Doc!Publish

(* Every step of an Assembly is a step of the abstract document.           *)
LEMMA DocumentStep ==
    ASSUME SlotInv, [Next]_vars
    PROVE  [Doc!Next]_<<reported, output>>
<1>1. CASE UNCHANGED <<reported, output>>
  BY <1>1
<1>2. ASSUME NEW c \in Calls, AppendSync(c)
      PROVE  [Doc!Next]_<<reported, output>>
  BY <1>2, ReadyIsIdle, ReportIsAcknowledge DEF AppendSync
<1>3. ASSUME NEW c \in Calls, FinalizeSync(c)
      PROVE  [Doc!Next]_<<reported, output>>
  BY <1>3, ReadyIsIdle, FinalizeIsPublish DEF FinalizeSync
<1>4. ASSUME NEW c \in Calls, ComputeFinalize(c), holds[c]
      PROVE  [Doc!Next]_<<reported, output>>
  BY <1>4, HolderIsAlone, FinalizeIsPublish DEF ComputeFinalize, Computed
<1>5. ASSUME NEW c \in Calls, Settle(c), kind[c] = "append", took[c]
      PROVE  [Doc!Next]_<<reported, output>>
  <2>1. stage[c] = "computed" /\ UNCHANGED output
    BY <1>5 DEF Settle, writerVars
  <2>2. output = NoOutput
    BY <1>5, <2>1 DEF SlotInv, PublishedLast, InFlight
  <2> QED
    BY <1>5, <2>1, <2>2, ReportIsAcknowledge DEF Settle
<1>6. ASSUME NEW c \in Calls, ComputeFinalize(c), ~holds[c]
      PROVE  UNCHANGED <<reported, output>>
  BY <1>6 DEF ComputeFinalize, Computed
<1>7. ASSUME NEW c \in Calls, Settle(c), ~(kind[c] = "append" /\ took[c])
      PROVE  UNCHANGED <<reported, output>>
  BY <1>7 DEF Settle, writerVars
<1>8. ASSUME NEW c \in Calls,
             \/ RejectSync(c) \/ AppendAsync(c) \/ FinalizeAsync(c)
             \/ Start(c) \/ ComputeAppend(c)
      PROVE  UNCHANGED <<reported, output>>
  BY <1>8 DEF RejectSync, AppendAsync, FinalizeAsync, Spawn, Start,
              ComputeAppend, Computed, writerVars
<1>9. Abort \/ UNCHANGED vars => UNCHANGED <<reported, output>>
  BY DEF Abort, vars, writerVars
<1> QED
  BY <1>1, <1>2, <1>3, <1>4, <1>5, <1>6, <1>7, <1>8, <1>9 DEF Next, Compute

(* The threadpool, aborts and bad calls do not show: an Assembly publishes *)
(* the appends it acknowledged, in their order, and acknowledges none      *)
(* after that.                                                             *)
THEOREM ImplementsDocument == Spec => DocumentSpec
<1>1. Init => Doc!Init
  BY DEF Init, Doc!Init
<1>2. SlotInv /\ [Next]_vars => [Doc!Next]_<<reported, output>>
  BY DocumentStep
<1> QED
  BY <1>1, <1>2, SlotInvariant, PTL
  DEF Spec, DocumentSpec, Doc!Spec, Doc!documentVars
=============================================================================
