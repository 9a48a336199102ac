-------------------------- MODULE PublicationProofs --------------------------
(***************************************************************************)
(* Proofs about Publication, for any calls, inputs, paths and faults.      *)
(***************************************************************************)
EXTENDS Publication, TLAPS

(* What a partial file holds after n appends of call o.                    *)
Copies(o, n) == [i \in 1..n |-> o]
InProgress(o) == [calls |-> Copies(o, done[o]), state |-> "torn"]

(* The writer is between the creation and the completion of the file.      *)
Writing(o) ==
    \/ pc[o] \in {"looping", "finalizing"}
    \/ pc[o] = "appending" /\ Kind[o] # "extract"

(* The partial file of a call is what its place in the code says.          *)
PartialMatches(o) ==
    /\ pc[o] \in {"idle", "counting", "statting"} => disk[PartialOf(o)] = Absent
    /\ Writing(o) => disk[PartialOf(o)] = InProgress(o)
    /\ pc[o] = "renaming" => disk[PartialOf(o)] = Document(o)
    /\ pc[o] \in Settled /\ o \notin late => disk[PartialOf(o)] = Absent

(* How far the call is with its inputs, and which function can be where.   *)
ProgressMatches(o) ==
    /\ pc[o] = "idle" => done[o] = 0
    /\ pc[o] = "counting" => Kind[o] = "extract"
    /\ pc[o] = "looping" => Kind[o] # "extract"
    /\ pc[o] = "appending" /\ Kind[o] # "extract" => done[o] < Inputs[o]
    /\ pc[o] = "finalizing" => done[o] = Inputs[o]

(* Who has replaced the output.                                            *)
PublishedMatches(o) ==
    /\ pc[o] \notin {"statting", "cleaning", "dead"} \union Settled => o \notin published
    /\ pc[o] = "statting" => o \in published
    /\ pc[o] = "cleaning" /\ outcome[o] = "ok" => o \in published
    /\ pc[o] = "cleaning" /\ outcome[o] # "ok" /\ o \notin late => o \notin published
    /\ pc[o] = "resolved" => o \in published
    /\ pc[o] = "rejected" /\ o \notin late => o \notin published

CallInv(o) == PartialMatches(o) /\ ProgressMatches(o) /\ PublishedMatches(o)

PublicationInv ==
    /\ TypeOK
    /\ \A o \in Ops : CallInv(o)
    /\ OutputsWhole

-----------------------------------------------------------------------------
(* PartialOf(): the partial file of a call is its own.                     *)
LEMMA OwnPartial ==
    ASSUME NEW o \in Ops
    PROVE  /\ PartialOf(o) \in Files /\ PartialOf(o) \notin Outputs
           /\ OutputOf(o) \in Files /\ OutputOf(o) \in Outputs
           /\ \A p \in Ops : PartialOf(p) = PartialOf(o) => p = o
<1>1. Target[o] \in Paths
  BY TargetsKnown
<1> QED
  BY <1>1 DEF PartialOf, OutputOf, Files, Partials, Outputs

LEMMA InputsNatural == \A o \in Ops : Inputs[o] \in Nat \ {0}
  BY InputsPositive

LEMMA CopiesGrow ==
    ASSUME NEW o \in Ops, NEW n \in Nat
    PROVE  /\ Copies(o, n) \in Seq(Ops)
           /\ Append(Copies(o, n), o) = Copies(o, n + 1)
           /\ Copies(o, 0) = << >>
           /\ Copies(o, 1) = <<o>>
<1>1. Copies(o, n) \in Seq(Ops) /\ Len(Copies(o, n)) = n
  BY DEF Copies
<1>2. Append(Copies(o, n), o) = Copies(o, n + 1)
  BY <1>1 DEF Copies
<1>3. Copies(o, 0) = << >> /\ Copies(o, 1) = <<o>>
  BY DEF Copies
<1> QED
  BY <1>1, <1>2, <1>3

-----------------------------------------------------------------------------
(* A step that touches nothing but call o and its partial file.            *)
Alone(o) ==
    /\ TypeOK'
    /\ \A p \in Ops \ {o} :
          /\ pc'[p] = pc[p] /\ done'[p] = done[p] /\ outcome'[p] = outcome[p]
          /\ p \in late' <=> p \in late
    /\ \A f \in Files \ {PartialOf(o)} : disk'[f] = disk[f]
    /\ UNCHANGED published

LEMMA AloneKeeps ==
    ASSUME PublicationInv, NEW o \in Ops, Alone(o), CallInv(o)'
    PROVE  PublicationInv'
<1>1. ASSUME NEW p \in Ops PROVE CallInv(p)'
  <2>1. CASE p = o
    BY <2>1
  <2>2. CASE p # o
    <3>1. /\ pc'[p] = pc[p] /\ done'[p] = done[p] /\ outcome'[p] = outcome[p]
          /\ p \in late' <=> p \in late
          /\ published' = published
      BY <2>2 DEF Alone
    <3>2. disk'[PartialOf(p)] = disk[PartialOf(p)]
      BY <2>2, OwnPartial DEF Alone
    <3>3. CallInv(p)
      BY DEF PublicationInv
    <3>4. PartialMatches(p)'
      BY <3>1, <3>2, <3>3
      DEF CallInv, PartialMatches, Writing, InProgress, PartialOf, Document
    <3>5. ProgressMatches(p)'
      BY <3>1, <3>3 DEF CallInv, ProgressMatches
    <3>6. PublishedMatches(p)'
      BY <3>1, <3>3 DEF CallInv, PublishedMatches
    <3> QED
      BY <3>4, <3>5, <3>6 DEF CallInv
  <2> QED
    BY <2>1, <2>2
<1>2. OutputsWhole'
  <2>1. \A f \in Outputs : disk'[f] = disk[f]
    BY OwnPartial DEF Alone, Files
  <2>2. \A q \in Paths : <<"output", q>> \in Outputs
    BY DEF Outputs
  <2> SUFFICES ASSUME NEW q \in Paths
               PROVE  \/ disk'[<<"output", q>>] = Old
                      \/ \E p \in Ops : Target[p] = q /\ disk'[<<"output", q>>] = Document(p)
    BY DEF OutputsWhole, Document
  <2> QED
    BY <2>1, <2>2 DEF PublicationInv, OutputsWhole
<1> QED
  BY <1>1, <1>2 DEF PublicationInv, Alone

LEMMA InitPublication == Init => PublicationInv
<1> SUFFICES ASSUME Init PROVE PublicationInv
  OBVIOUS
<1>1. TypeOK
  BY InputsNatural
  DEF Init, TypeOK, PcStates, Contents, Absent, Old
<1>2. ASSUME NEW o \in Ops PROVE CallInv(o)
  <2>1. pc[o] = "idle" /\ done[o] = 0 /\ disk[PartialOf(o)] = Absent /\ published = {}
    BY OwnPartial DEF Init
  <2> QED
    BY <2>1 DEF CallInv, PartialMatches, ProgressMatches, PublishedMatches, Writing, Settled
<1>3. OutputsWhole
  BY DEF Init, OutputsWhole, Files, Outputs
<1> QED
  BY <1>1, <1>2, <1>3 DEF PublicationInv

-----------------------------------------------------------------------------
(* What the parts of a step do.                                            *)

Writers == {"none", "ready", "busy", "abandoned", "closed"}

DoneMoves(o) ==
    /\ done' \in [Ops -> Nat] /\ \A p \in Ops : done'[p] <= Inputs[p]
    /\ \A p \in Ops \ {o} : done'[p] = done[p]

FileMoves(o) ==
    /\ disk' \in [Files -> Contents]
    /\ \A f \in Files \ {PartialOf(o)} : disk'[f] = disk[f]

CallMoves(o) ==
    /\ pc' \in [Ops -> PcStates] /\ \A p \in Ops \ {o} : pc'[p] = pc[p]
    /\ outcome' \in [Ops -> {"pending", "ok", "error"}]
    /\ \A p \in Ops \ {o} : outcome'[p] = outcome[p]
    /\ writer' \in [Ops -> Writers]

LEMMA MovesAlone ==
    ASSUME TypeOK, NEW o \in Ops, CallMoves(o), DoneMoves(o), FileMoves(o),
           aborted' \subseteq Ops, UNCHANGED <<published, late>>
    PROVE  Alone(o)
  BY DEF TypeOK, Alone, CallMoves, DoneMoves, FileMoves, Writers

LEMMA StillMoves ==
    ASSUME TypeOK, NEW o \in Ops
    PROVE  /\ UNCHANGED done => DoneMoves(o)
           /\ UNCHANGED disk => FileMoves(o)
           /\ UNCHANGED <<pc, outcome, writer>> => CallMoves(o)
  BY DEF TypeOK, DoneMoves, FileMoves, CallMoves, Writers

LEMMA FileSet ==
    ASSUME TypeOK, NEW o \in Ops, NEW c \in Contents,
           disk' = [disk EXCEPT ![PartialOf(o)] = c]
    PROVE  FileMoves(o) /\ disk'[PartialOf(o)] = c
  BY OwnPartial DEF TypeOK, FileMoves

LEMMA CreateSets ==
    ASSUME TypeOK, NEW o \in Ops, Create(o)
    PROVE  FileMoves(o) /\ disk'[PartialOf(o)] = Empty
<1>1. Empty \in Contents
  BY DEF Empty, Contents
<1> QED
  BY <1>1, FileSet DEF Create

(* An append adds one more copy of the call to its file.                   *)
LEMMA WriteSets ==
    ASSUME PublicationInv, NEW o \in Ops, Writing(o), Write(o)
    PROVE  /\ FileMoves(o)
           /\ disk'[PartialOf(o)] = [calls |-> Copies(o, done[o] + 1), state |-> "torn"]
<1> DEFINE c == [calls |-> Copies(o, done[o] + 1), state |-> "torn"]
<1>1. TypeOK /\ done[o] \in Nat /\ disk[PartialOf(o)] = InProgress(o)
  BY DEF PublicationInv, TypeOK, CallInv, PartialMatches
<1>2. c \in Contents
  BY <1>1, CopiesGrow DEF Contents
<1>3. disk' = [disk EXCEPT ![PartialOf(o)] = c]
  <2>1. disk' = [disk EXCEPT ![PartialOf(o)] =
                    [disk[PartialOf(o)] EXCEPT !.calls = Append(disk[PartialOf(o)].calls, o)]]
    BY DEF Write
  <2>2. [InProgress(o) EXCEPT !.calls = Append(InProgress(o).calls, o)] = c
    <3>1. Append(Copies(o, done[o]), o) = Copies(o, done[o] + 1)
      BY <1>1, CopiesGrow
    <3>2. [InProgress(o) EXCEPT !.calls = Append(InProgress(o).calls, o)]
            = [calls |-> Append(Copies(o, done[o]), o), state |-> "torn"]
      BY DEF InProgress
    <3> QED
      BY <3>1, <3>2
  <2> QED
    BY <1>1, <2>1, <2>2
<1> HIDE DEF c
<1>4. FileMoves(o) /\ disk'[PartialOf(o)] = c
  BY <1>1, <1>2, <1>3, FileSet
<1> QED
  BY <1>4 DEF c

(* Completed after the last input, the file is the document of the call.   *)
LEMMA CompleteSets ==
    ASSUME PublicationInv, NEW o \in Ops, Writing(o), done[o] = Inputs[o], Complete(o)
    PROVE  FileMoves(o) /\ disk'[PartialOf(o)] = Document(o)
<1>1. TypeOK /\ done[o] \in Nat /\ disk[PartialOf(o)] = InProgress(o)
  BY DEF PublicationInv, TypeOK, CallInv, PartialMatches
<1>2. Document(o) = [calls |-> Copies(o, done[o]), state |-> "whole"]
  BY DEF Document, Copies
<1>3. Document(o) \in Contents
  BY <1>1, <1>2, CopiesGrow DEF Contents
<1>4. disk' = [disk EXCEPT ![PartialOf(o)] = Document(o)]
  <2>1. disk' = [disk EXCEPT ![PartialOf(o)] = [disk[PartialOf(o)] EXCEPT !.state = "whole"]]
    BY DEF Complete
  <2>2. [InProgress(o) EXCEPT !.state = "whole"] = Document(o)
    BY <1>2 DEF InProgress
  <2> QED
    BY <1>1, <2>1, <2>2
<1> QED
  BY <1>1, <1>3, <1>4, FileSet

LEMMA LeaveMoves ==
    ASSUME TypeOK, NEW o \in Ops, NEW r \in {"ok", "error"}, Leave(o, r)
    PROVE  CallMoves(o) /\ pc'[o] = "cleaning" /\ outcome'[o] = r
<1>1. pc' = [pc EXCEPT ![o] = "cleaning"] /\ outcome' = [outcome EXCEPT ![o] = r]
  BY DEF Leave, Goto
<1>2. writer' \in [Ops -> Writers]
  BY DEF Leave, TypeOK, Writers
<1> QED
  BY <1>1, <1>2 DEF CallMoves, TypeOK, PcStates

LEMMA GotoMoves ==
    ASSUME TypeOK, NEW o \in Ops, NEW l \in PcStates, Goto(o, l),
           UNCHANGED outcome, writer' \in [Ops -> Writers]
    PROVE  CallMoves(o) /\ pc'[o] = l
  BY DEF CallMoves, TypeOK, Goto

LEMMA CallbackMoves ==
    ASSUME TypeOK, NEW o \in Ops, NEW throws \in BOOLEAN, Callback(o, throws)
    PROVE  aborted' \subseteq Ops
  BY DEF Callback, TypeOK

(* A call that leaves with an error before its rename.                     *)
Unpublished == {"idle", "counting", "looping", "appending", "finalizing", "renaming"}

LEMMA ErrorExit ==
    ASSUME PublicationInv, NEW o \in Ops, pc[o] \in Unpublished,
           CallMoves(o), pc'[o] = "cleaning",
           DoneMoves(o), FileMoves(o), aborted' \subseteq Ops,
           UNCHANGED <<published, late>>
    PROVE  outcome'[o] = "error" => PublicationInv'
<1> SUFFICES ASSUME outcome'[o] = "error" PROVE PublicationInv'
  OBVIOUS
<1>1. Alone(o)
  BY MovesAlone DEF PublicationInv
<1>2. o \notin published'
  BY DEF PublicationInv, CallInv, PublishedMatches, Unpublished, Settled
<1>3. CallInv(o)'
  BY <1>2 DEF CallInv, PartialMatches, ProgressMatches, PublishedMatches, Writing, Settled
<1> QED
  BY <1>1, <1>3, AloneKeeps

-----------------------------------------------------------------------------
(* One lemma for each action.                                              *)

LEMMA BeginKeeps ==
    ASSUME PublicationInv, NEW o \in Ops, Begin(o)
    PROVE  PublicationInv'
<1>1. /\ TypeOK /\ pc[o] = "idle" /\ done[o] = 0 /\ o \notin published
      /\ disk[PartialOf(o)] = Absent
      /\ UNCHANGED <<done, aborted, published, late>> /\ aborted' \subseteq Ops
      /\ DoneMoves(o) /\ pc[o] \in Unpublished
  BY StillMoves
  DEF Begin, PublicationInv, CallInv, PartialMatches, ProgressMatches, PublishedMatches,
      Settled, TypeOK, Unpublished
<1>2. CASE UNCHANGED <<outcome, writer, disk>> /\ Goto(o, "rejected")
  <2>1. FileMoves(o) /\ CallMoves(o) /\ pc'[o] = "rejected"
    BY <1>1, <1>2, StillMoves, GotoMoves DEF TypeOK, PcStates, Settled, Writers
  <2>2. CallInv(o)'
    BY <1>1, <1>2, <2>1
    DEF CallInv, PartialMatches, ProgressMatches, PublishedMatches, Writing, Settled,
        PartialOf
  <2> QED
    BY <1>1, <2>1, <2>2, MovesAlone, AloneKeeps
<1>3. CASE Kind[o] = "extract" /\ UNCHANGED <<outcome, writer, disk>> /\ Goto(o, "counting")
  <2>1. FileMoves(o) /\ CallMoves(o) /\ pc'[o] = "counting"
    BY <1>1, <1>3, StillMoves, GotoMoves DEF TypeOK, PcStates, Settled, Writers
  <2>2. CallInv(o)'
    BY <1>1, <1>3, <2>1
    DEF CallInv, PartialMatches, ProgressMatches, PublishedMatches, Writing, Settled,
        PartialOf
  <2> QED
    BY <1>1, <2>1, <2>2, MovesAlone, AloneKeeps
<1>4. CASE /\ Kind[o] # "extract" /\ Create(o) /\ Goto(o, "looping")
           /\ writer' = [writer EXCEPT ![o] = "ready"] /\ UNCHANGED outcome
  <2>1. writer' \in [Ops -> Writers]
    BY <1>1, <1>4 DEF TypeOK, Writers
  <2>2. FileMoves(o) /\ disk'[PartialOf(o)] = Empty
    BY <1>1, <1>4, CreateSets
  <2>3. CallMoves(o) /\ pc'[o] = "looping"
    BY <1>1, <1>4, <2>1, GotoMoves DEF PcStates
  <2>4. InProgress(o)' = Empty
    BY <1>1, CopiesGrow DEF InProgress, Empty
  <2>5. CallInv(o)'
    BY <1>1, <1>4, <2>2, <2>3, <2>4
    DEF CallInv, PartialMatches, ProgressMatches, PublishedMatches, Writing, Settled,
        PartialOf
  <2> QED
    BY <1>1, <2>2, <2>3, <2>5, MovesAlone, AloneKeeps
<1>5. CASE (Create(o) \/ UNCHANGED disk) /\ Leave(o, "error")
  BY <1>1, <1>5, CreateSets, StillMoves, LeaveMoves, ErrorExit
<1> QED
  BY <1>2, <1>3, <1>4, <1>5 DEF Begin, Refused

(* extract(): counted and not written yet; refused, or on to its task.     *)
LEMMA CountedKeeps ==
    ASSUME PublicationInv, NEW o \in Ops, Counted(o)
    PROVE  PublicationInv'
<1>1. /\ TypeOK /\ Kind[o] = "extract" /\ o \notin published
      /\ disk[PartialOf(o)] = Absent
      /\ UNCHANGED <<done, aborted, disk, outcome, writer, published, late>>
      /\ aborted' \subseteq Ops /\ writer' \in [Ops -> Writers]
      /\ DoneMoves(o) /\ FileMoves(o)
  BY StillMoves
  DEF Counted, PublicationInv, CallInv, PartialMatches, ProgressMatches, PublishedMatches,
      Settled, TypeOK, Writers
<1>2. PICK l \in {"rejected", "appending"} : Goto(o, l)
  BY DEF Counted
<1>3. CallMoves(o) /\ pc'[o] = l
  BY <1>1, <1>2, GotoMoves DEF PcStates, Settled
<1>4. CallInv(o)'
  BY <1>1, <1>3
  DEF CallInv, PartialMatches, ProgressMatches, PublishedMatches, Writing, Settled, PartialOf
<1> QED
  BY <1>1, <1>3, <1>4, MovesAlone, AloneKeeps

(* An append that has succeeded, in a call that goes on.                   *)
LEMMA AppendedGoesOn ==
    ASSUME PublicationInv, NEW o \in Ops, Writing(o), MoreInputs(o), Kind[o] # "extract",
           Write(o), done' = [done EXCEPT ![o] = @ + 1],
           CallMoves(o), pc'[o] = "looping", aborted' \subseteq Ops,
           UNCHANGED <<published, late>>
    PROVE  PublicationInv'
<1>1. TypeOK /\ done[o] \in Nat /\ done[o] < Inputs[o] /\ o \notin published
  BY DEF PublicationInv, TypeOK, MoreInputs, CallInv, PublishedMatches, Writing, Settled
<1>2. FileMoves(o) /\ disk'[PartialOf(o)] = InProgress(o)'
  BY <1>1, WriteSets DEF InProgress, Copies, TypeOK
<1>3. DoneMoves(o)
  BY <1>1, InputsNatural DEF DoneMoves, TypeOK
<1>4. CallInv(o)'
  BY <1>1, <1>2
  DEF CallInv, PartialMatches, ProgressMatches, PublishedMatches, Writing, Settled, PartialOf
<1> QED
  BY <1>1, <1>2, <1>3, <1>4, MovesAlone, AloneKeeps

(* The append is counted in any case.                                      *)
LEMMA DoneGrows ==
    ASSUME TypeOK, NEW o \in Ops, MoreInputs(o), done' = [done EXCEPT ![o] = @ + 1]
    PROVE  DoneMoves(o)
  BY InputsNatural DEF TypeOK, MoreInputs, DoneMoves

LEMMA AppendSyncKeeps ==
    ASSUME PublicationInv, NEW o \in Ops, AppendSync(o)
    PROVE  PublicationInv'
<1>1. /\ TypeOK /\ Kind[o] # "extract" /\ Writing(o) /\ pc[o] = "looping"
      /\ MoreInputs(o) /\ UNCHANGED <<published, late>> /\ pc[o] \in Unpublished
  BY DEF AppendSync, PublicationInv, Writing, Unpublished
<1>2. CASE Leave(o, "error") /\ UNCHANGED <<done, aborted>> /\ (Write(o) \/ UNCHANGED disk)
  BY <1>1, <1>2, WriteSets, StillMoves, LeaveMoves, ErrorExit DEF TypeOK
<1>3. CASE /\ Write(o) /\ done' = [done EXCEPT ![o] = @ + 1]
           /\ \E throws \in BOOLEAN :
                 /\ Callback(o, throws)
                 /\ Leave(o, "error") \/ UNCHANGED <<pc, outcome, writer>>
  <2>1. aborted' \subseteq Ops /\ FileMoves(o) /\ DoneMoves(o)
    BY <1>1, <1>3, CallbackMoves, WriteSets, DoneGrows
  <2>2. CASE Leave(o, "error")
    BY <1>1, <2>1, <2>2, LeaveMoves, ErrorExit
  <2>3. CASE UNCHANGED <<pc, outcome, writer>>
    BY <1>1, <1>3, <2>1, <2>3, StillMoves, AppendedGoesOn
  <2> QED
    BY <1>3, <2>2, <2>3
<1>4. CASE ThrowIfAborted(o) /\ UNCHANGED <<done, aborted, disk>>
  BY <1>2, <1>4 DEF ThrowIfAborted
<1> QED
  BY <1>2, <1>3, <1>4 DEF AppendSync

LEMMA AppendStartKeeps ==
    ASSUME PublicationInv, NEW o \in Ops, AppendStart(o)
    PROVE  PublicationInv'
<1>1. /\ TypeOK /\ Kind[o] # "extract" /\ pc[o] = "looping" /\ MoreInputs(o)
      /\ disk[PartialOf(o)] = InProgress(o) /\ o \notin published
      /\ UNCHANGED <<done, aborted, disk, published, late>>
      /\ pc[o] \in Unpublished /\ aborted' \subseteq Ops
      /\ DoneMoves(o) /\ FileMoves(o)
  BY StillMoves
  DEF AppendStart, PublicationInv, CallInv, PartialMatches, PublishedMatches, Writing,
      Settled, Unpublished, TypeOK
<1>2. CASE ThrowIfAborted(o)
  BY <1>1, <1>2, LeaveMoves, ErrorExit DEF ThrowIfAborted
<1>3. CASE writer' = [writer EXCEPT ![o] = "busy"] /\ Goto(o, "appending") /\ UNCHANGED outcome
  <2>1. writer' \in [Ops -> Writers]
    BY <1>1, <1>3 DEF TypeOK, Writers
  <2>2. CallMoves(o) /\ pc'[o] = "appending"
    BY <1>1, <1>3, <2>1, GotoMoves DEF PcStates
  <2>3. CallInv(o)'
    BY <1>1, <2>2
    DEF CallInv, PartialMatches, ProgressMatches, PublishedMatches, Writing, Settled,
        PartialOf, InProgress, MoreInputs
  <2> QED
    BY <1>1, <2>2, <2>3, MovesAlone, AloneKeeps
<1> QED
  BY <1>2, <1>3 DEF AppendStart

LEMMA AppendEndKeeps ==
    ASSUME PublicationInv, NEW o \in Ops, AppendEnd(o)
    PROVE  PublicationInv'
<1> DEFINE Closed == /\ outcome' = [outcome EXCEPT ![o] = "error"]
                     /\ writer' = [writer EXCEPT ![o] = "closed"]
                     /\ Goto(o, "cleaning")
           Ready == /\ writer' = [writer EXCEPT ![o] = "ready"]
                    /\ Goto(o, "looping")
                    /\ UNCHANGED outcome
<1>1. /\ TypeOK /\ Kind[o] # "extract" /\ pc[o] = "appending" /\ Writing(o)
      /\ done[o] < Inputs[o]
      /\ UNCHANGED <<published, late>> /\ pc[o] \in Unpublished
  BY DEF AppendEnd, PublicationInv, CallInv, ProgressMatches, Writing, Unpublished
<1>2. Closed => CallMoves(o) /\ pc'[o] = "cleaning" /\ outcome'[o] = "error"
  BY <1>1 DEF TypeOK, CallMoves, Writers, PcStates, Goto
<1>3. Ready => CallMoves(o) /\ pc'[o] = "looping"
  BY <1>1 DEF TypeOK, CallMoves, Writers, PcStates, Goto
<1>4. CASE Closed /\ UNCHANGED <<done, aborted>> /\ (Write(o) \/ UNCHANGED disk)
  <2>1. FileMoves(o) /\ DoneMoves(o) /\ aborted' \subseteq Ops
    BY <1>1, <1>4, WriteSets, StillMoves DEF TypeOK
  <2> QED
    BY <1>1, <1>2, <1>4, <2>1, ErrorExit
<1>5. CASE /\ Write(o) /\ done' = [done EXCEPT ![o] = @ + 1]
           /\ \E throws \in BOOLEAN : Callback(o, throws) /\ (Closed \/ Ready)
  <2>1. aborted' \subseteq Ops /\ FileMoves(o) /\ DoneMoves(o) /\ MoreInputs(o)
    BY <1>1, <1>5, CallbackMoves, WriteSets, DoneGrows DEF MoreInputs
  <2>2. CASE Closed
    BY <1>1, <1>2, <2>1, <2>2, ErrorExit
  <2>3. CASE Ready
    BY <1>1, <1>3, <1>5, <2>1, <2>3, AppendedGoesOn
  <2> QED
    BY <1>5, <2>2, <2>3
<1> QED
  BY <1>4, <1>5 DEF AppendEnd

(* The task of extract() writes its one input whole.                       *)
LEMMA ExtractEndKeeps ==
    ASSUME PublicationInv, NEW o \in Ops, ExtractEnd(o)
    PROVE  PublicationInv'
<1>1. /\ TypeOK /\ Kind[o] = "extract" /\ pc[o] = "appending" /\ Inputs[o] = 1
      /\ UNCHANGED <<published, late>> /\ pc[o] \in Unpublished /\ o \notin published
  BY ExtractReadsOne
  DEF ExtractEnd, PublicationInv, CallInv, PublishedMatches, Settled, Unpublished
<1>2. CASE (Create(o) \/ UNCHANGED disk) /\ Leave(o, "error") /\ UNCHANGED <<done, aborted>>
  BY <1>1, <1>2, CreateSets, StillMoves, LeaveMoves, ErrorExit DEF TypeOK
<1>3. CASE /\ disk' = [disk EXCEPT ![PartialOf(o)] = [calls |-> <<o>>, state |-> "whole"]]
           /\ done' = [done EXCEPT ![o] = 1]
           /\ \E throws \in BOOLEAN :
                 /\ Callback(o, throws)
                 /\ \/ Leave(o, "error")
                    \/ Goto(o, "renaming") /\ UNCHANGED <<outcome, writer>>
  <2>1. Document(o) = [calls |-> <<o>>, state |-> "whole"] /\ Document(o) \in Contents
    <3>1. Document(o) = [calls |-> Copies(o, 1), state |-> "whole"]
      BY <1>1 DEF Document, Copies
    <3> QED
      BY <3>1, CopiesGrow DEF Contents
  <2>2. FileMoves(o) /\ disk'[PartialOf(o)] = Document(o)
    BY <1>1, <1>3, <2>1, FileSet
  <2>3. DoneMoves(o) /\ aborted' \subseteq Ops
    BY <1>1, <1>3, CallbackMoves, InputsNatural DEF DoneMoves, TypeOK
  <2>4. CASE Leave(o, "error")
    BY <1>1, <2>2, <2>3, <2>4, LeaveMoves, ErrorExit
  <2>5. CASE Goto(o, "renaming") /\ UNCHANGED <<outcome, writer>>
    <3>1. CallMoves(o) /\ pc'[o] = "renaming"
      BY <1>1, <2>5, GotoMoves DEF PcStates, TypeOK, Writers
    <3>2. CallInv(o)'
      BY <1>1, <2>2, <3>1
      DEF CallInv, PartialMatches, ProgressMatches, PublishedMatches, Writing, Settled,
          PartialOf, Document
    <3> QED
      BY <1>1, <2>2, <2>3, <3>1, <3>2, MovesAlone, AloneKeeps
  <2> QED
    BY <1>3, <2>4, <2>5
<1> QED
  BY <1>2, <1>3 DEF ExtractEnd

(* A document that is complete, in a call that goes on to rename it.       *)
LEMMA CompletedGoesOn ==
    ASSUME PublicationInv, NEW o \in Ops, Writing(o), done[o] = Inputs[o],
           Complete(o), CallMoves(o), pc'[o] = "renaming",
           UNCHANGED <<done, aborted, published, late>>
    PROVE  PublicationInv'
<1>1. TypeOK /\ o \notin published
  BY DEF PublicationInv, CallInv, PublishedMatches, Writing, Settled
<1>2. FileMoves(o) /\ disk'[PartialOf(o)] = Document(o)
  BY CompleteSets
<1>3. CallInv(o)'
  BY <1>1, <1>2
  DEF CallInv, PartialMatches, ProgressMatches, PublishedMatches, Writing, Settled,
      PartialOf, Document
<1>4. DoneMoves(o) /\ aborted' \subseteq Ops
  BY <1>1, StillMoves DEF TypeOK
<1> QED
  BY <1>1, <1>2, <1>3, <1>4, MovesAlone, AloneKeeps

LEMMA FinalizeSyncKeeps ==
    ASSUME PublicationInv, NEW o \in Ops, FinalizeSync(o)
    PROVE  PublicationInv'
<1>1. /\ TypeOK /\ Writing(o) /\ pc[o] \in Unpublished /\ done[o] = Inputs[o]
      /\ UNCHANGED <<done, aborted, published, late>> /\ aborted' \subseteq Ops
      /\ DoneMoves(o)
  BY StillMoves DEF FinalizeSync, PublicationInv, Writing, Unpublished, TypeOK
<1>2. CASE Leave(o, "error") /\ UNCHANGED disk
  BY <1>1, <1>2, StillMoves, LeaveMoves, ErrorExit
<1>3. CASE /\ Complete(o) /\ Goto(o, "renaming") /\ UNCHANGED outcome
           /\ writer' = [writer EXCEPT ![o] = "closed"]
  <2>1. writer' \in [Ops -> Writers]
    BY <1>1, <1>3 DEF TypeOK, Writers
  <2>2. CallMoves(o) /\ pc'[o] = "renaming"
    BY <1>1, <1>3, <2>1, GotoMoves DEF PcStates
  <2> QED
    BY <1>1, <1>3, <2>2, CompletedGoesOn
<1> QED
  BY <1>2, <1>3 DEF FinalizeSync, ThrowIfAborted

LEMMA FinalizeStartKeeps ==
    ASSUME PublicationInv, NEW o \in Ops, FinalizeStart(o)
    PROVE  PublicationInv'
<1>1. /\ TypeOK /\ pc[o] = "looping" /\ done[o] = Inputs[o]
      /\ disk[PartialOf(o)] = InProgress(o) /\ o \notin published
      /\ UNCHANGED <<done, aborted, disk, published, late>>
      /\ pc[o] \in Unpublished /\ aborted' \subseteq Ops
      /\ DoneMoves(o) /\ FileMoves(o)
  BY StillMoves
  DEF FinalizeStart, PublicationInv, CallInv, PartialMatches, PublishedMatches, Writing,
      Settled, Unpublished, TypeOK
<1>2. CASE ThrowIfAborted(o)
  BY <1>1, <1>2, LeaveMoves, ErrorExit DEF ThrowIfAborted
<1>3. CASE writer' = [writer EXCEPT ![o] = "busy"] /\ Goto(o, "finalizing") /\ UNCHANGED outcome
  <2>1. writer' \in [Ops -> Writers]
    BY <1>1, <1>3 DEF TypeOK, Writers
  <2>2. CallMoves(o) /\ pc'[o] = "finalizing"
    BY <1>1, <1>3, <2>1, GotoMoves DEF PcStates
  <2>3. CallInv(o)'
    BY <1>1, <2>2
    DEF CallInv, PartialMatches, ProgressMatches, PublishedMatches, Writing, Settled,
        PartialOf, InProgress
  <2> QED
    BY <1>1, <2>2, <2>3, MovesAlone, AloneKeeps
<1> QED
  BY <1>2, <1>3 DEF FinalizeStart

LEMMA FinalizeEndKeeps ==
    ASSUME PublicationInv, NEW o \in Ops, FinalizeEnd(o)
    PROVE  PublicationInv'
<1>1. /\ TypeOK /\ Writing(o) /\ pc[o] \in Unpublished /\ done[o] = Inputs[o]
      /\ UNCHANGED <<done, aborted, published, late>> /\ aborted' \subseteq Ops
      /\ DoneMoves(o) /\ writer' \in [Ops -> Writers]
  BY StillMoves
  DEF FinalizeEnd, PublicationInv, CallInv, ProgressMatches, Writing, Unpublished, TypeOK,
      Writers
<1>2. CASE /\ Complete(o) \/ UNCHANGED disk
           /\ Goto(o, "cleaning") /\ outcome' = [outcome EXCEPT ![o] = "error"]
  <2>1. CallMoves(o) /\ pc'[o] = "cleaning" /\ outcome'[o] = "error"
    BY <1>1, <1>2 DEF CallMoves, TypeOK, Goto, PcStates
  <2>2. FileMoves(o)
    BY <1>1, <1>2, CompleteSets, StillMoves
  <2> QED
    BY <1>1, <2>1, <2>2, ErrorExit
<1>3. CASE Complete(o) /\ Goto(o, "renaming") /\ UNCHANGED outcome
  <2>1. CallMoves(o) /\ pc'[o] = "renaming"
    BY <1>1, <1>3, GotoMoves DEF PcStates
  <2> QED
    BY <1>1, <1>3, <2>1, CompletedGoesOn
<1> QED
  BY <1>2, <1>3 DEF FinalizeEnd

(* rename(): the output becomes the document of the call, whatever it was. *)
LEMMA RenamedKeeps ==
    ASSUME PublicationInv, NEW o \in Ops, Renamed(o)
    PROVE  PublicationInv'
<1>1. /\ TypeOK /\ pc[o] = "renaming" /\ disk[PartialOf(o)] = Document(o)
      /\ UNCHANGED <<done, aborted, late>> /\ pc[o] \in Unpublished
      /\ DoneMoves(o) /\ aborted' \subseteq Ops
  BY StillMoves
  DEF Renamed, PublicationInv, CallInv, PartialMatches, Unpublished, TypeOK
<1>2. CASE Leave(o, "error") /\ UNCHANGED <<disk, published>>
  BY <1>1, <1>2, StillMoves, LeaveMoves, ErrorExit
<1>3. CASE /\ disk' = [disk EXCEPT ![OutputOf(o)]  = disk[PartialOf(o)],
                                   ![PartialOf(o)] = Absent]
           /\ published' = published \union {o}
           /\ \/ Leave(o, "ok")
              \/ Goto(o, "statting") /\ UNCHANGED <<outcome, writer>>
  <2>1. /\ CallMoves(o)
        /\ \/ pc'[o] = "cleaning" /\ outcome'[o] = "ok"
           \/ pc'[o] = "statting"
    <3>1. CASE Leave(o, "ok")
      BY <1>1, <3>1, LeaveMoves
    <3>2. CASE Goto(o, "statting") /\ UNCHANGED <<outcome, writer>>
      BY <1>1, <3>2, GotoMoves DEF PcStates, TypeOK, Writers
    <3> QED
      BY <1>3, <3>1, <3>2
  <2>2. /\ disk' \in [Files -> Contents]
        /\ disk'[PartialOf(o)] = Absent
        /\ disk'[OutputOf(o)] = Document(o)
        /\ \A f \in Files \ {PartialOf(o), OutputOf(o)} : disk'[f] = disk[f]
    <3>1. disk[PartialOf(o)] \in Contents /\ Absent \in Contents
      BY <1>1, OwnPartial DEF TypeOK, Absent, Contents
    <3>2. PartialOf(o) # OutputOf(o)
      BY OwnPartial
    <3> QED
      BY <1>1, <1>3, <3>1, <3>2, OwnPartial DEF TypeOK
  <2>3. TypeOK'
    BY <1>1, <1>3, <2>1, <2>2 DEF TypeOK, CallMoves, DoneMoves, Writers
  <2>4. ASSUME NEW p \in Ops PROVE CallInv(p)'
    <3>1. CASE p = o
      <4>1. o \in published' /\ disk'[PartialOf(o)] = Absent
        BY <1>3, <2>2
      <4>2. CallInv(o)'
        BY <2>1, <4>1
        DEF CallInv, PartialMatches, ProgressMatches, PublishedMatches, Writing, Settled,
            PartialOf
      <4> QED
        BY <3>1, <4>2
    <3>2. CASE p # o
      <4>1. /\ pc'[p] = pc[p] /\ done'[p] = done[p] /\ outcome'[p] = outcome[p]
            /\ late' = late /\ (p \in published' <=> p \in published)
        BY <1>1, <1>3, <2>1, <3>2 DEF CallMoves
      <4>2. disk'[PartialOf(p)] = disk[PartialOf(p)]
        <5>1. PartialOf(p) \in Files \ {PartialOf(o), OutputOf(o)}
          BY <3>2, OwnPartial
        <5> QED
          BY <2>2, <5>1
      <4>3. CallInv(p)
        BY DEF PublicationInv
      <4> QED
        BY <4>1, <4>2, <4>3
        DEF CallInv, PartialMatches, ProgressMatches, PublishedMatches, Writing, InProgress,
            PartialOf, Document
    <3> QED
      BY <3>1, <3>2
  <2>5. OutputsWhole'
    <3> SUFFICES ASSUME NEW q \in Paths
                 PROVE  \/ disk'[<<"output", q>>] = Old
                        \/ \E p \in Ops : /\ Target[p] = q
                                          /\ disk'[<<"output", q>>] = Document(p)
      BY DEF OutputsWhole, Document
    <3>1. CASE q = Target[o]
      BY <2>2, <3>1 DEF OutputOf
    <3>2. CASE q # Target[o]
      <4>1. <<"output", q>> \in Files \ {PartialOf(o), OutputOf(o)}
        BY <3>2, OwnPartial DEF Files, Outputs, OutputOf
      <4> QED
        BY <2>2, <4>1 DEF PublicationInv, OutputsWhole
    <3> QED
      BY <3>1, <3>2
  <2> QED
    BY <2>3, <2>4, <2>5 DEF PublicationInv
<1> QED
  BY <1>2, <1>3 DEF Renamed

LEMMA StattedKeeps ==
    ASSUME PublicationInv, NEW o \in Ops, Statted(o)
    PROVE  PublicationInv'
<1>1. /\ TypeOK /\ o \in published
      /\ UNCHANGED <<done, aborted, disk, published>>
      /\ DoneMoves(o) /\ FileMoves(o) /\ aborted' \subseteq Ops
      /\ late' \in {late, late \union {o}}
  BY StillMoves DEF Statted, PublicationInv, CallInv, PublishedMatches, TypeOK
<1>2. PICK r \in {"ok", "error"} : Leave(o, r) /\ (r = "error" => o \in late')
  BY DEF Statted
<1>3. CallMoves(o) /\ pc'[o] = "cleaning" /\ outcome'[o] = r
  BY <1>1, <1>2, LeaveMoves
<1>4. Alone(o)
  BY <1>1, <1>3 DEF Alone, TypeOK, CallMoves, DoneMoves, FileMoves, Writers
<1>5. CallInv(o)'
  BY <1>1, <1>2, <1>3
  DEF CallInv, PartialMatches, ProgressMatches, PublishedMatches, Writing, Settled
<1> QED
  BY <1>4, <1>5, AloneKeeps

LEMMA CleanedKeeps ==
    ASSUME PublicationInv, NEW o \in Ops, Cleaned(o)
    PROVE  PublicationInv'
<1>1. /\ TypeOK /\ pc[o] = "cleaning"
      /\ UNCHANGED <<done, outcome, writer, aborted, published>>
      /\ DoneMoves(o) /\ aborted' \subseteq Ops /\ writer' \in [Ops -> Writers]
      /\ outcome[o] = "ok" => o \in published
      /\ outcome[o] # "ok" /\ o \notin late => o \notin published
  BY StillMoves
  DEF Cleaned, PublicationInv, CallInv, PublishedMatches, TypeOK, Writers
<1>2. CASE /\ disk' = [disk EXCEPT ![PartialOf(o)] = Absent]
           /\ Goto(o, IF outcome[o] = "ok" THEN "resolved" ELSE "rejected")
           /\ UNCHANGED late
  <2>1. Absent \in Contents
    BY DEF Absent, Contents
  <2>2. FileMoves(o) /\ disk'[PartialOf(o)] = Absent
    BY <1>1, <1>2, <2>1, FileSet
  <2>3. PICK l \in {"resolved", "rejected"} :
            Goto(o, l) /\ (l = "resolved" <=> outcome[o] = "ok")
    BY <1>2
  <2>4. CallMoves(o) /\ pc'[o] = l
    BY <1>1, <2>3, GotoMoves DEF PcStates, Settled
  <2>5. CallInv(o)'
    BY <1>1, <1>2, <2>2, <2>3, <2>4
    DEF CallInv, PartialMatches, ProgressMatches, PublishedMatches, Writing, Settled, PartialOf
  <2> QED
    BY <1>1, <1>2, <2>2, <2>4, <2>5, MovesAlone, AloneKeeps
<1>3. CASE Goto(o, "rejected") /\ late' = late \union {o} /\ UNCHANGED disk
  <2>1. FileMoves(o) /\ CallMoves(o) /\ pc'[o] = "rejected"
    BY <1>1, <1>3, StillMoves, GotoMoves DEF PcStates, Settled
  <2>2. Alone(o)
    BY <1>1, <1>3, <2>1 DEF Alone, TypeOK, CallMoves, DoneMoves, FileMoves, Writers
  <2>3. CallInv(o)'
    BY <1>3, <2>1
    DEF CallInv, PartialMatches, ProgressMatches, PublishedMatches, Writing, Settled
  <2> QED
    BY <2>2, <2>3, AloneKeeps
<1> QED
  BY <1>2, <1>3 DEF Cleaned

LEMMA SameKeeps ==
    ASSUME PublicationInv, aborted' \subseteq Ops,
           UNCHANGED <<pc, done, outcome, writer, disk, published, late>>
    PROVE  PublicationInv'
<1>1. TypeOK'
  BY DEF PublicationInv, TypeOK
<1>2. OutputsWhole'
  BY DEF PublicationInv, OutputsWhole, Document
<1>3. ASSUME NEW p \in Ops PROVE CallInv(p)'
  <2>1. CallInv(p)
    BY DEF PublicationInv
  <2>2. PartialMatches(p)'
    BY <2>1 DEF CallInv, PartialMatches, Writing, InProgress, PartialOf, Document
  <2>3. ProgressMatches(p)' /\ PublishedMatches(p)'
    BY <2>1 DEF CallInv, ProgressMatches, PublishedMatches
  <2> QED
    BY <2>2, <2>3 DEF CallInv
<1> QED
  BY <1>1, <1>2, <1>3 DEF PublicationInv

LEMMA AbortKeeps ==
    ASSUME PublicationInv, NEW o \in Ops, Abort(o)
    PROVE  PublicationInv'
<1>1. /\ aborted' \subseteq Ops
      /\ UNCHANGED <<pc, done, outcome, writer, disk, published, late>>
  BY DEF Abort, PublicationInv, TypeOK
<1> QED
  BY <1>1, SameKeeps

(* The calls under way are gone, and the files stay as they are.           *)
LEMMA CrashKeeps ==
    ASSUME PublicationInv, Crash
    PROVE  PublicationInv'
<1>1. /\ pc' = [o \in Ops |-> IF pc[o] \in Settled THEN pc[o] ELSE "dead"]
      /\ UNCHANGED <<done, outcome, writer, aborted, disk, published, late>>
  BY DEF Crash
<1>2. TypeOK' /\ OutputsWhole'
  BY <1>1 DEF PublicationInv, TypeOK, PcStates, OutputsWhole, Document
<1>3. ASSUME NEW p \in Ops PROVE CallInv(p)'
  <2>1. pc'[p] \in Settled => pc'[p] = pc[p]
    BY <1>1 DEF Settled
  <2>2. pc'[p] \in Settled \union {"dead"}
    BY <1>1
  <2>3. CallInv(p)
    BY DEF PublicationInv
  <2> QED
    BY <1>1, <2>1, <2>2, <2>3
    DEF CallInv, PartialMatches, ProgressMatches, PublishedMatches, Writing, Settled, PartialOf
<1> QED
  BY <1>2, <1>3 DEF PublicationInv

LEMMA NextKeepsPublication == PublicationInv /\ [Next]_vars => PublicationInv'
<1> SUFFICES ASSUME PublicationInv, [Next]_vars PROVE PublicationInv'
  OBVIOUS
<1>1. CASE Crash
  BY <1>1, CrashKeeps
<1>2. ASSUME NEW o \in Ops, Abort(o) PROVE PublicationInv'
  BY <1>2, AbortKeeps
<1>3. ASSUME NEW o \in Ops, Step(o) PROVE PublicationInv'
  BY <1>3, BeginKeeps, CountedKeeps, AppendSyncKeeps, AppendStartKeeps, AppendEndKeeps,
     ExtractEndKeeps, FinalizeSyncKeeps, FinalizeStartKeeps, FinalizeEndKeeps,
     RenamedKeeps, StattedKeeps, CleanedKeeps
  DEF Step
<1>4. CASE UNCHANGED vars
  BY <1>4, SameKeeps DEF vars, PublicationInv, TypeOK
<1> QED
  BY <1>1, <1>2, <1>3, <1>4 DEF Next

-----------------------------------------------------------------------------
(* Along every run of the three functions, each partial file holds what    *)
(* the program counter of its call says, and so do the output paths.       *)
THEOREM PublicationInvariant == Spec => []PublicationInv
<1> QED
  BY InitPublication, NextKeepsPublication, PTL DEF Spec

(* Every variable keeps its type.                                          *)
THEOREM TypeCorrect == Spec => []TypeOK
<1>1. PublicationInv => TypeOK
  BY DEF PublicationInv
<1> QED
  BY <1>1, PublicationInvariant, PTL

(* assemble(), merge(), extract(): whatever fails, whoever else writes to  *)
(* the same path, and whenever the process dies, an output path holds what *)
(* it did or the complete document of one call.                            *)
THEOREM OutputsStayWhole == Spec => []OutputsWhole
<1>1. PublicationInv => OutputsWhole
  BY DEF PublicationInv
<1> QED
  BY <1>1, PublicationInvariant, PTL

(* What a call settles with says whether it has replaced its output, but   *)
(* for the calls whose stat() or rm() failed afterwards.                   *)
THEOREM SettlesAsPublished == Spec => []SettledAsPublished
<1>1. PublicationInv => SettledAsPublished
  BY DEF PublicationInv, CallInv, PublishedMatches, SettledAsPublished
<1> QED
  BY <1>1, PublicationInvariant, PTL

(* The finally blocks: a call that has settled has no partial file left,   *)
(* unless its rm() failed.                                                 *)
THEOREM LeavesNothing == Spec => []NoLeftovers
<1>1. PublicationInv => NoLeftovers
  BY DEF PublicationInv, CallInv, PartialMatches, NoLeftovers
<1> QED
  BY <1>1, PublicationInvariant, PTL
=============================================================================
