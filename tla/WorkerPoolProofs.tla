-------------------------- MODULE WorkerPoolProofs --------------------------
(***************************************************************************)
(* Proofs about WorkerPool, for any finite set of tasks, any concurrency   *)
(* and any number of retries.                                              *)
(***************************************************************************)
EXTENDS WorkerPool, FunctionTheorems, FiniteSetTheorems, TLAPS

(* The part of the state the semaphore owns.                               *)
SlotTypes ==
    /\ pc \in [Tasks -> States]
    /\ running \in 0..Concurrency
    /\ waiters \in Seq(Tasks)

SlotInv == SlotTypes /\ SlotAccounting /\ QueueAccounting

-----------------------------------------------------------------------------
(* The holders of slots are a finite set.                                  *)
LEMMA HoldersFinite ==
    /\ IsFiniteSet(Holders)
    /\ Cardinality(Holders) \in Nat
<1>1. Holders \subseteq Tasks
  BY DEF Holders
<1> QED
  BY <1>1, TasksFinite, FS_Subset, FS_CardinalityType

(* acquire() keeps the books of the semaphore, whether it takes a slot or  *)
(* queues.                                                                 *)
LEMMA AcquireKeepsSlotInv ==
    ASSUME NEW t \in Tasks, SlotInv, pc[t] = "idle", Acquire(t)
    PROVE  SlotInv'
<1> USE ConcurrencyPositive
<1>1. CASE /\ running < Concurrency
           /\ running' = running + 1
           /\ pc' = [pc EXCEPT ![t] = "ready"]
           /\ UNCHANGED waiters
  <2>1. Holders' = Holders \union {t} /\ t \notin Holders
    BY <1>1 DEF SlotInv, SlotTypes, Holders, Holding, States
  <2>2. Cardinality(Holders') = Cardinality(Holders) + 1
    BY <2>1, HoldersFinite, FS_AddElement
  <2>3. SlotTypes' /\ SlotAccounting'
    BY <1>1, <2>2 DEF SlotInv, SlotTypes, SlotAccounting, States, Holding
  <2>4. QueueAccounting'
    BY <1>1 DEF SlotInv, SlotTypes, QueueAccounting
  <2> QED
    BY <2>3, <2>4 DEF SlotInv
<1>2. CASE /\ running >= Concurrency
           /\ waiters' = Append(waiters, t)
           /\ pc' = [pc EXCEPT ![t] = "waiting"]
           /\ UNCHANGED running
  <2>1. Holders' = Holders
    BY <1>2 DEF SlotInv, SlotTypes, Holders, Holding, States
  <2>2. SlotTypes' /\ SlotAccounting'
    BY <1>2, <2>1 DEF SlotInv, SlotTypes, SlotAccounting, States
  <2>3. /\ DOMAIN waiters' = 1..(Len(waiters) + 1)
        /\ DOMAIN waiters = 1..Len(waiters)
        /\ Len(waiters) \in Nat
        /\ \A i \in 1..Len(waiters) : waiters'[i] = waiters[i]
        /\ waiters'[Len(waiters) + 1] = t
    BY <1>2 DEF SlotInv, SlotTypes
  <2>4. \A i \in DOMAIN waiters : waiters[i] # t
    BY DEF SlotInv, QueueAccounting
  <2>5. {waiters'[i] : i \in DOMAIN waiters'} =
            {waiters[i] : i \in DOMAIN waiters} \union {t}
    BY <2>3
  <2>6. {u \in Tasks : pc'[u] = "waiting"} =
            {u \in Tasks : pc[u] = "waiting"} \union {t}
    BY <1>2 DEF SlotInv, SlotTypes
  <2>7. \A i, j \in DOMAIN waiters' : waiters'[i] = waiters'[j] => i = j
    BY <2>3, <2>4 DEF SlotInv, QueueAccounting
  <2>8. running' = Concurrency
    BY <1>2 DEF SlotInv, SlotTypes
  <2> QED
    BY <2>2, <2>5, <2>6, <2>7, <2>8 DEF SlotInv, QueueAccounting
<1> QED
  BY <1>1, <1>2 DEF Acquire

(* release() keeps them too: the slot goes to the oldest waiter, which     *)
(* becomes a holder in the same step, or back to the pool.                 *)
LEMMA ReleaseKeepsSlotInv ==
    ASSUME NEW t \in Tasks, NEW outcome \in Finished,
           SlotInv, t \in Holders, Release(t, outcome)
    PROVE  SlotInv'
<1> USE ConcurrencyPositive
<1>1. CASE /\ waiters # <<>>
           /\ waiters' = Tail(waiters)
           /\ pc' = [pc EXCEPT ![t] = outcome, ![Head(waiters)] = "ready"]
           /\ UNCHANGED running
  <2> DEFINE h == Head(waiters)
  <2>1. /\ Len(waiters) \in Nat \ {0}
        /\ DOMAIN waiters = 1..Len(waiters)
        /\ h = waiters[1]
        /\ h \in Tasks
    BY <1>1 DEF SlotInv, SlotTypes
  <2>2. pc[h] = "waiting"
    BY <2>1 DEF SlotInv, QueueAccounting
  <2>3. h # t /\ h \notin Holders
    BY <2>2 DEF Holders, Holding
  <2>4. Holders' = (Holders \ {t}) \union {h}
    BY <1>1, <2>1, <2>2, <2>3
    DEF SlotInv, SlotTypes, Holders, Holding, States, Finished
  <2>5. Cardinality(Holders') = Cardinality(Holders)
    <3>1. /\ IsFiniteSet(Holders \ {t})
          /\ Cardinality(Holders \ {t}) = Cardinality(Holders) - 1
      BY HoldersFinite, FS_RemoveElement
    <3>2. Cardinality(Holders') = Cardinality(Holders \ {t}) + 1
      BY <2>3, <2>4, <3>1, FS_AddElement
    <3> QED
      BY <3>1, <3>2, HoldersFinite
  <2>6. SlotTypes' /\ SlotAccounting'
    BY <1>1, <2>1, <2>5
    DEF SlotInv, SlotTypes, SlotAccounting, States, Holding, Finished
  <2>7. /\ DOMAIN waiters' = 1..(Len(waiters) - 1)
        /\ \A i \in 1..(Len(waiters) - 1) : waiters'[i] = waiters[i + 1]
    BY <1>1, <2>1 DEF SlotInv, SlotTypes
  <2>8. \A i, j \in DOMAIN waiters' : waiters'[i] = waiters'[j] => i = j
    <3> SUFFICES ASSUME NEW i \in DOMAIN waiters', NEW j \in DOMAIN waiters',
                        waiters'[i] = waiters'[j]
                 PROVE  i = j
      OBVIOUS
    <3>1. /\ i + 1 \in DOMAIN waiters
          /\ j + 1 \in DOMAIN waiters
          /\ waiters[i + 1] = waiters[j + 1]
      BY <2>1, <2>7
    <3>2. i + 1 = j + 1
      BY <3>1 DEF SlotInv, QueueAccounting
    <3> QED
      BY <2>1, <2>7, <3>2
  <2>9. {waiters'[i] : i \in DOMAIN waiters'} =
            {waiters[i] : i \in DOMAIN waiters} \ {h}
    <3>1. \A i \in DOMAIN waiters' :
              /\ waiters'[i] \in {waiters[k] : k \in DOMAIN waiters}
              /\ waiters'[i] # h
      BY <2>1, <2>7 DEF SlotInv, QueueAccounting
    <3>2. \A k \in DOMAIN waiters :
              waiters[k] # h =>
                  /\ k - 1 \in DOMAIN waiters'
                  /\ waiters'[k - 1] = waiters[k]
      BY <2>1, <2>7
    <3> QED
      BY <3>1, <3>2
  <2>10. {u \in Tasks : pc'[u] = "waiting"} =
             {u \in Tasks : pc[u] = "waiting"} \ {h}
    BY <1>1, <2>1, <2>3 DEF SlotInv, SlotTypes, Holders, Holding, Finished
  <2>11. running' = Concurrency
    BY <1>1 DEF SlotInv, QueueAccounting
  <2> QED
    BY <2>6, <2>8, <2>9, <2>10, <2>11 DEF SlotInv, QueueAccounting
<1>2. CASE /\ waiters = <<>>
           /\ running' = running - 1
           /\ pc' = [pc EXCEPT ![t] = outcome]
           /\ UNCHANGED waiters
  <2>1. Holders' = Holders \ {t}
    BY <1>2 DEF SlotInv, SlotTypes, Holders, Holding, Finished
  <2>2. Cardinality(Holders') = Cardinality(Holders) - 1
    BY <2>1, HoldersFinite, FS_RemoveElement
  <2>3. running' \in 0..Concurrency
    <3>1. Cardinality(Holders') \in Nat
      BY <2>1, HoldersFinite, FS_RemoveElement, FS_CardinalityType
    <3> QED
      BY <1>2, <2>2, <3>1, HoldersFinite DEF SlotInv, SlotTypes, SlotAccounting
  <2>4. SlotTypes' /\ SlotAccounting'
    BY <1>2, <2>2, <2>3, HoldersFinite
    DEF SlotInv, SlotTypes, SlotAccounting, States, Finished
  <2>5. {u \in Tasks : pc'[u] = "waiting"} = {u \in Tasks : pc[u] = "waiting"}
    BY <1>2 DEF SlotInv, SlotTypes, Holders, Holding, Finished
  <2> QED
    BY <1>2, <2>4, <2>5 DEF SlotInv, QueueAccounting
<1> QED
  BY <1>1, <1>2 DEF Release

-----------------------------------------------------------------------------
(* A reply exists only once its process has stopped working.               *)
ReplyInv ==
    \A c \in Children : wire[c] # "empty" => proc[c] \in {"exiting", "dead", "gone"}

(* Attempts a loop has not reached yet have no process.                    *)
FreshInv ==
    \A t \in Tasks : \A n \in 0..Retries :
        \/ n > attempt[t]
        \/ n = attempt[t] /\ pc[t] \in {"idle", "waiting", "ready"}
        => proc[<<t, n>>] = "none"

(* The inductive invariant of the pool.                                    *)
IInv ==
    /\ TypeOK
    /\ SlotAccounting
    /\ QueueAccounting
    /\ WorkersHoldSlots
    /\ ActiveExact
    /\ ReplyInv
    /\ FreshInv

LEMMA InitIInv == Init => IInv
<1> SUFFICES ASSUME Init PROVE IInv
  OBVIOUS
<1>1. Holders = {}
  BY DEF Init, Holders, Holding
<1>2. SlotAccounting
  BY <1>1, FS_EmptySet, ConcurrencyPositive DEF Init, SlotAccounting
<1>3. TypeOK
  <2>1. pc \in [Tasks -> States] /\ proc \in [Children -> ProcState]
    BY DEF Init, States, ProcState
  <2>2. /\ attempt \in [Tasks -> 0..(Retries + 1)]
        /\ running \in 0..Concurrency
        /\ waiters \in Seq(Tasks)
    BY ConcurrencyPositive, RetriesNatural DEF Init
  <2>3. wire \in [Children -> {"empty", "ok", "error", "read"}]
    BY DEF Init
  <2>4. /\ active \subseteq Children
        /\ doomed \subseteq Children
        /\ aborted \in BOOLEAN
        /\ disposed \in BOOLEAN
    BY DEF Init
  <2> QED
    BY <2>1, <2>2, <2>3, <2>4 DEF TypeOK
<1>4. QueueAccounting
  BY DEF Init, QueueAccounting
<1>5. WorkersHoldSlots /\ ActiveExact /\ ReplyInv /\ FreshInv
  BY DEF Init, WorkersHoldSlots, ActiveExact, ReplyInv, FreshInv, Children
<1> QED
  BY <1>2, <1>3, <1>4, <1>5 DEF IInv

(* Steps that move a call between the states that hold a slot leave the    *)
(* semaphore alone.                                                        *)
LEMMA SameHolders ==
    ASSUME SlotInv, UNCHANGED <<running, waiters>>,
           pc' \in [Tasks -> States],
           \A t \in Tasks : \/ pc'[t] = pc[t]
                            \/ pc[t] \in Holding /\ pc'[t] \in Holding
    PROVE  SlotInv' /\ Holders' = Holders
<1>1. Holders' = Holders
  BY DEF Holders
<1>2. {t \in Tasks : pc'[t] = "waiting"} = {t \in Tasks : pc[t] = "waiting"}
  BY DEF Holding
<1> QED
  BY <1>1, <1>2 DEF SlotInv, SlotTypes, SlotAccounting, QueueAccounting

LEMMA SlotInvFromIInv == IInv => SlotInv
  BY DEF IInv, TypeOK, SlotInv, SlotTypes

(* The children and their books survive a step that only moves calls in    *)
(* and out of the loop.                                                    *)
LEMMA LoopStepKeepsChildren ==
    ASSUME IInv, SlotInv',
           UNCHANGED <<attempt, active, proc, wire, doomed, aborted, disposed>>,
           \A t \in Tasks :
               \/ pc'[t] = pc[t]
               \/ /\ pc[t] # "running"
                  /\ pc[t] \in {"idle", "waiting", "ready"} \/ pc'[t] \in Finished
    PROVE  IInv'
<1>1. TypeOK'
  BY DEF IInv, TypeOK, SlotInv, SlotTypes
<1>2. WorkersHoldSlots' /\ ActiveExact' /\ ReplyInv'
  BY DEF IInv, WorkersHoldSlots, ActiveExact, ReplyInv, Current, Settled, Children
<1>3. FreshInv'
  BY DEF IInv, FreshInv, Finished
<1> QED
  BY <1>1, <1>2, <1>3 DEF IInv, SlotInv

LEMMA RunStep ==
    ASSUME IInv, NEW t \in Tasks, Run(t)
    PROVE  IInv'
<1>1. SlotInv'
  BY SlotInvFromIInv, AcquireKeepsSlotInv DEF Run
<1>2. \A u \in Tasks : u # t => pc'[u] = pc[u]
  BY DEF Run, Acquire, IInv, TypeOK
<1> QED
  BY <1>1, <1>2, LoopStepKeepsChildren DEF Run

LEMMA LeaveStep ==
    ASSUME IInv, NEW t \in Tasks, NEW outcome \in Finished,
           pc[t] \in {"ready", "returning"}, Leave(t, outcome)
    PROVE  IInv'
<1>1. t \in Holders
  BY DEF Holders, Holding
<1>2. SlotInv'
  BY <1>1, SlotInvFromIInv, ReleaseKeepsSlotInv DEF Leave
<1>3. \A u \in Tasks :
          \/ pc'[u] = pc[u]
          \/ /\ pc[u] # "running"
             /\ pc[u] \in {"idle", "waiting", "ready"} \/ pc'[u] \in Finished
  <2>1. waiters # <<>> =>
            Head(waiters) \in Tasks /\ pc[Head(waiters)] = "waiting"
    <3> SUFFICES ASSUME waiters # <<>>
                 PROVE  Head(waiters) \in Tasks /\ pc[Head(waiters)] = "waiting"
      OBVIOUS
    <3>1. 1 \in DOMAIN waiters /\ Head(waiters) = waiters[1]
      BY DEF IInv, TypeOK
    <3> QED
      BY <3>1 DEF IInv, QueueAccounting
  <2> QED
    BY <2>1 DEF Leave, Release, IInv, TypeOK
<1> QED
  BY <1>2, <1>3, LoopStepKeepsChildren DEF Leave

(* What the loop knows about the next child when it forks.                 *)
LEMMA NextChild ==
    ASSUME IInv, NEW t \in Tasks, AttemptsLeft(t)
    PROVE  /\ Current(t) \in Children
           /\ proc[Current(t)] = "none"
           /\ wire[Current(t)] = "empty"
<1>1. attempt[t] \in 0..Retries
  BY RetriesNatural DEF AttemptsLeft, IInv, TypeOK
<1>2. Current(t) \in Children
  BY <1>1 DEF Current, Children
<1>3. proc[Current(t)] = "none"
  BY <1>1 DEF AttemptsLeft, Current, IInv, FreshInv
<1>4. wire[Current(t)] = "empty"
  BY <1>2, <1>3 DEF IInv, ReplyInv
<1> QED
  BY <1>2, <1>3, <1>4

LEMMA ForkStep ==
    ASSUME IInv, NEW t \in Tasks, Fork(t)
    PROVE  IInv'
<1> DEFINE c == Current(t)
<1>1. /\ c \in Children /\ proc[c] = "none" /\ wire[c] = "empty"
      /\ pc[t] = "ready"
  BY NextChild DEF Fork, AttemptsLeft
<1>2. PICK p \in {"working", "unspawned"} : proc' = [proc EXCEPT ![c] = p]
  BY DEF Fork
<1>3. pc' = [pc EXCEPT ![t] = "running"]
  BY DEF Fork
<1>4. SlotInv'
  <2>1. pc' \in [Tasks -> States]
    BY <1>3 DEF IInv, TypeOK, States, Holding
  <2>2. \A u \in Tasks : \/ pc'[u] = pc[u]
                         \/ pc[u] \in Holding /\ pc'[u] \in Holding
    BY <1>1, <1>3 DEF IInv, TypeOK, Holding
  <2> QED
    BY <2>1, <2>2, SlotInvFromIInv, SameHolders DEF Fork
<1>5. TypeOK'
  <2>1. proc' \in [Children -> ProcState]
    BY <1>2 DEF IInv, TypeOK, ProcState, Living
  <2>2. doomed' \subseteq Children /\ aborted' \in BOOLEAN
    BY DEF Fork, Notify, Signalled, IInv, TypeOK
  <2> QED
    BY <1>1, <1>4, <2>1, <2>2 DEF Fork, IInv, TypeOK, SlotInv, SlotTypes
<1>6. WorkersHoldSlots'
  BY <1>1, <1>2, <1>3 DEF Fork, IInv, TypeOK, WorkersHoldSlots, Current, Children
<1>7. ActiveExact'
  BY <1>1, <1>2 DEF Fork, IInv, TypeOK, ActiveExact, Settled
<1>8. ReplyInv' /\ FreshInv'
  <2>1. ReplyInv'
    BY <1>1, <1>2 DEF Fork, IInv, TypeOK, ReplyInv
  <2>2. FreshInv'
    BY <1>1, <1>2, <1>3 DEF Fork, IInv, TypeOK, FreshInv, Current, Children
  <2> QED
    BY <2>1, <2>2
<1> QED
  BY <1>4, <1>5, <1>6, <1>7, <1>8 DEF IInv, SlotInv

LEMMA SendThrowsStep ==
    ASSUME IInv, NEW t \in Tasks, SendThrows(t)
    PROVE  IInv'
<1> DEFINE c == Current(t)
<1>1. /\ c \in Children /\ proc[c] = "none" /\ wire[c] = "empty"
      /\ pc[t] = "ready" /\ attempt[t] <= Retries
  BY NextChild DEF SendThrows, AttemptsLeft
<1>2. /\ proc' = [proc EXCEPT ![c] = "unfed"]
      /\ attempt' = [attempt EXCEPT ![t] = @ + 1]
  BY DEF SendThrows
<1>3. SlotInv'
  BY SlotInvFromIInv, SameHolders DEF SendThrows, IInv, TypeOK
<1>4. TypeOK'
  <2>1. attempt' \in [Tasks -> 0..(Retries + 1)]
    BY <1>1, <1>2, RetriesNatural DEF IInv, TypeOK
  <2>2. proc' \in [Children -> ProcState]
    BY <1>2 DEF IInv, TypeOK, ProcState, Living
  <2>3. doomed' \subseteq Children /\ aborted' \in BOOLEAN
    BY DEF SendThrows, Notify, Signalled, IInv, TypeOK
  <2> QED
    BY <1>1, <1>3, <2>1, <2>2, <2>3 DEF SendThrows, IInv, TypeOK
<1>5. WorkersHoldSlots'
  BY <1>1, <1>2 DEF SendThrows, IInv, TypeOK, WorkersHoldSlots, Current, Children
<1>6. ActiveExact'
  BY <1>1, <1>2 DEF SendThrows, IInv, TypeOK, ActiveExact, Settled
<1>7. ReplyInv'
  BY <1>1, <1>2 DEF SendThrows, IInv, TypeOK, ReplyInv
<1>8. FreshInv'
  <2> SUFFICES ASSUME NEW u \in Tasks, NEW n \in 0..Retries,
                      \/ n > attempt'[u]
                      \/ n = attempt'[u] /\ pc'[u] \in {"idle", "waiting", "ready"}
               PROVE  proc'[<<u, n>>] = "none"
    BY DEF FreshInv
  <2>1. CASE u = t
    <3>1. n > attempt[t]
      BY <1>1, <1>2, <2>1 DEF IInv, TypeOK
    <3>2. proc[<<t, n>>] = "none" /\ <<t, n>> # c
      BY <3>1 DEF IInv, TypeOK, FreshInv, Current
    <3> QED
      BY <1>2, <2>1, <3>2 DEF IInv, TypeOK, Children
  <2>2. CASE u # t
    BY <1>2, <2>2 DEF SendThrows, IInv, TypeOK, FreshInv, Current, Children
  <2> QED
    BY <2>1, <2>2
<1> QED
  BY <1>3, <1>4, <1>5, <1>6, <1>7, <1>8 DEF IInv, SlotInv

(* A child process lives its own life: the pool's books do not move.       *)
LEMMA ChildStep ==
    ASSUME IInv, NEW c \in Children, Reply(c) \/ Crash(c) \/ Die(c)
    PROVE  IInv'
<1>1. UNCHANGED poolVars /\ UNCHANGED <<active, doomed, aborted, disposed>>
  BY DEF Reply, Crash, Die
<1>2. PICK p \in {"exiting", "dead"} : proc' = [proc EXCEPT ![c] = p]
  BY DEF Reply, Crash, Die
<1>3. proc[c] \in {"working", "unfed", "exiting"}
  BY DEF Reply, Crash, Die
<1>4. \/ wire' = wire
      \/ /\ p = "exiting"
         /\ wire[c] = "empty"
         /\ \E r \in {"ok", "error"} : wire' = [wire EXCEPT ![c] = r]
  BY <1>2 DEF Reply, Crash, Die, IInv, TypeOK, ReplyInv
<1>5. TypeOK'
  BY <1>1, <1>2, <1>4 DEF poolVars, IInv, TypeOK, ProcState, Living
<1>6. SlotAccounting' /\ QueueAccounting'
  BY <1>1 DEF poolVars, IInv, SlotAccounting, QueueAccounting, Holders
<1>7. WorkersHoldSlots'
  BY <1>1, <1>2 DEF poolVars, IInv, TypeOK, WorkersHoldSlots, Current, Children
<1>8. ASSUME NEW d \in Children
      PROVE  /\ (proc'[d] = "none") = (proc[d] = "none")
             /\ (proc'[d] = "gone") = (proc[d] = "gone")
             /\ (wire'[d] = "read") = (wire[d] = "read")
  <2>1. CASE d = c
    BY <1>2, <1>3, <1>4, <2>1 DEF IInv, TypeOK
  <2>2. CASE d # c
    BY <1>2, <1>4, <2>2 DEF IInv, TypeOK
  <2> QED
    BY <2>1, <2>2
<1>9. ActiveExact'
  <2>1. {d \in Children : proc'[d] # "none" /\ ~Settled(d)'} =
            {d \in Children : proc[d] # "none" /\ ~Settled(d)}
    BY <1>8 DEF Settled
  <2> QED
    BY <1>1, <2>1 DEF IInv, ActiveExact
<1>10. ReplyInv'
  BY <1>2, <1>4 DEF IInv, TypeOK, ReplyInv
<1>11. FreshInv'
  <2>1. \A t \in Tasks, n \in 0..Retries : <<t, n>> \in Children
    BY DEF Children
  <2> QED
    BY <1>1, <1>8, <2>1 DEF poolVars, IInv, FreshInv
<1> QED
  BY <1>5, <1>6, <1>7, <1>9, <1>10, <1>11 DEF IInv

(* At most the call that awaits child c moves: on to its result, or back   *)
(* to the top of its loop.                                                 *)
AwaiterMoves(c) ==
    \A t \in Tasks :
        \/ pc'[t] = pc[t] /\ attempt'[t] = attempt[t]
        \/ /\ c = Current(t)
           /\ pc[t] = "running"
           /\ \/ pc'[t] = "returning" /\ attempt'[t] = attempt[t]
              \/ pc'[t] = "ready" /\ attempt'[t] = attempt[t] + 1

(* settle() on the first event of a child: it leaves `active`, and the     *)
(* call that awaited it moves on without touching the semaphore.           *)
LEMMA SettleMoves ==
    ASSUME IInv, NEW c \in Children, NEW ok \in BOOLEAN, Settle(c, ok)
    PROVE  /\ SlotInv'
           /\ attempt' \in [Tasks -> 0..(Retries + 1)]
           /\ active' = IF Settled(c) THEN active ELSE active \ {c}
           /\ AwaiterMoves(c)
<1> DEFINE t == c[1]
           awaited == pc[t] = "running" /\ c = Current(t)
<1>1. t \in Tasks /\ c[2] \in 0..Retries
  BY DEF Children
<1>2. CASE Settled(c) \/ ~awaited
  <2>1. UNCHANGED <<pc, attempt, running, waiters>>
    BY <1>2 DEF Settle, poolVars
  <2>2. active' = IF Settled(c) THEN active ELSE active \ {c}
    BY DEF Settle
  <2>3. SlotInv'
    BY <2>1, SlotInvFromIInv
    DEF SlotInv, SlotTypes, SlotAccounting, QueueAccounting, Holders
  <2> QED
    BY <2>1, <2>2, <2>3 DEF IInv, TypeOK, AwaiterMoves
<1>3. CASE ~Settled(c) /\ awaited
  <2>1. /\ UNCHANGED <<running, waiters>>
        /\ active' = active \ {c}
        /\ \/ /\ pc' = [pc EXCEPT ![t] = "returning"]
              /\ attempt' = attempt
           \/ /\ pc' = [pc EXCEPT ![t] = "ready"]
              /\ attempt' = [attempt EXCEPT ![t] = @ + 1]
    BY <1>3 DEF Settle
  <2>2. attempt[t] \in 0..Retries
    BY <1>1, <1>3 DEF Current
  <2>3. attempt' \in [Tasks -> 0..(Retries + 1)]
    BY <2>1, <2>2, RetriesNatural DEF IInv, TypeOK
  <2>4. pc' \in [Tasks -> States]
    BY <2>1 DEF IInv, TypeOK, States, Holding
  <2>5. \A u \in Tasks : \/ pc'[u] = pc[u]
                         \/ pc[u] \in Holding /\ pc'[u] \in Holding
    BY <1>3, <2>1 DEF IInv, TypeOK, Holding
  <2>6. SlotInv'
    BY <2>1, <2>4, <2>5, SlotInvFromIInv, SameHolders
  <2>7. AwaiterMoves(c)
    BY <1>3, <2>1 DEF IInv, TypeOK, AwaiterMoves
  <2> QED
    BY <1>3, <2>1, <2>3, <2>6, <2>7
<1> QED
  BY <1>2, <1>3

LEMMA OnMessageStep ==
    ASSUME IInv, NEW c \in Children, OnMessage(c)
    PROVE  IInv'
<1>1. /\ wire[c] \in {"ok", "error"}
      /\ wire' = [wire EXCEPT ![c] = "read"]
      /\ UNCHANGED <<proc, aborted, disposed>>
  BY DEF OnMessage
<1>2. proc[c] \in {"exiting", "dead", "gone"}
  BY <1>1 DEF IInv, ReplyInv
<1>3. PICK ok \in BOOLEAN : Settle(c, ok)
  BY DEF OnMessage
<1>4. /\ SlotInv'
      /\ attempt' \in [Tasks -> 0..(Retries + 1)]
      /\ active' = IF Settled(c) THEN active ELSE active \ {c}
      /\ AwaiterMoves(c)
  BY <1>3, SettleMoves
<1>5. TypeOK'
  <2>1. doomed' \subseteq Children
    BY DEF OnMessage, IInv, TypeOK
  <2>2. active' \subseteq Children
    BY <1>4 DEF IInv, TypeOK
  <2> QED
    BY <1>1, <1>4, <2>1, <2>2 DEF IInv, TypeOK, SlotInv, SlotTypes
<1>6. WorkersHoldSlots'
  BY <1>1, <1>2, <1>4 DEF IInv, WorkersHoldSlots, Current, Children, AwaiterMoves
<1>7. ActiveExact'
  <2>1. \A d \in Children : Settled(d)' = (Settled(d) \/ d = c)
    BY <1>1 DEF IInv, TypeOK, Settled
  <2> QED
    BY <1>1, <1>4, <2>1 DEF IInv, ActiveExact
<1>8. ReplyInv'
  BY <1>1, <1>2 DEF IInv, TypeOK, ReplyInv
<1>9. FreshInv'
  <2> SUFFICES ASSUME NEW t \in Tasks, NEW n \in 0..Retries,
                      \/ n > attempt'[t]
                      \/ n = attempt'[t] /\ pc'[t] \in {"idle", "waiting", "ready"}
               PROVE  proc[<<t, n>>] = "none"
    BY <1>1 DEF FreshInv
  <2>1. attempt[t] \in Nat /\ attempt'[t] \in Nat
    BY <1>4, RetriesNatural DEF IInv, TypeOK
  <2>2. \/ n > attempt[t]
        \/ n = attempt[t] /\ pc[t] \in {"idle", "waiting", "ready"}
    BY <1>4, <2>1 DEF AwaiterMoves
  <2> QED
    BY <2>2 DEF IInv, FreshInv
<1> QED
  BY <1>4, <1>5, <1>6, <1>7, <1>8, <1>9 DEF IInv, SlotInv

LEMMA OnExitOrErrorStep ==
    ASSUME IInv, NEW c \in Children, OnExitOrError(c)
    PROVE  IInv'
<1>1. /\ proc[c] \in {"dead", "unspawned"}
      /\ proc' = [proc EXCEPT ![c] = "gone"]
      /\ UNCHANGED <<wire, doomed, aborted, disposed>>
  BY DEF OnExitOrError
<1>2. /\ SlotInv'
      /\ attempt' \in [Tasks -> 0..(Retries + 1)]
      /\ active' = IF Settled(c) THEN active ELSE active \ {c}
      /\ AwaiterMoves(c)
  BY SettleMoves DEF OnExitOrError
<1>3. TypeOK'
  <2>1. active' \subseteq Children
    BY <1>2 DEF IInv, TypeOK
  <2>2. proc' \in [Children -> ProcState]
    BY <1>1 DEF IInv, TypeOK, ProcState
  <2> QED
    BY <1>1, <1>2, <2>1, <2>2 DEF IInv, TypeOK, SlotInv, SlotTypes
<1>4. WorkersHoldSlots'
  <2> SUFFICES ASSUME NEW d \in Children, proc'[d] = "working"
               PROVE  pc'[d[1]] = "running" /\ d = <<d[1], attempt'[d[1]]>>
    BY DEF WorkersHoldSlots, Current
  <2>1. d # c /\ proc[d] = "working" /\ d[1] \in Tasks
    BY <1>1 DEF IInv, TypeOK, Children
  <2>2. pc[d[1]] = "running" /\ d = Current(d[1])
    BY <2>1 DEF IInv, WorkersHoldSlots
  <2>3. pc'[d[1]] = pc[d[1]] /\ attempt'[d[1]] = attempt[d[1]]
    BY <1>2, <2>1, <2>2 DEF AwaiterMoves
  <2> QED
    BY <2>2, <2>3 DEF Current
<1>5. ActiveExact'
  <2>1. \A d \in Children : /\ Settled(d)' = (Settled(d) \/ d = c)
                            /\ (proc'[d] = "none") = (proc[d] = "none")
    BY <1>1 DEF IInv, TypeOK, Settled
  <2> QED
    BY <1>1, <1>2, <2>1 DEF IInv, ActiveExact
<1>6. ReplyInv'
  BY <1>1 DEF IInv, TypeOK, ReplyInv
<1>7. FreshInv'
  <2> SUFFICES ASSUME NEW t \in Tasks, NEW n \in 0..Retries,
                      \/ n > attempt'[t]
                      \/ n = attempt'[t] /\ pc'[t] \in {"idle", "waiting", "ready"}
               PROVE  proc'[<<t, n>>] = "none"
    BY DEF FreshInv
  <2>1. attempt[t] \in Nat /\ attempt'[t] \in Nat
    BY <1>2, RetriesNatural DEF IInv, TypeOK
  <2>2. \/ n > attempt[t]
        \/ n = attempt[t] /\ pc[t] \in {"idle", "waiting", "ready"}
    BY <1>2, <2>1 DEF AwaiterMoves
  <2>3. proc[<<t, n>>] = "none"
    BY <2>2 DEF IInv, FreshInv
  <2> QED
    BY <1>1, <2>3 DEF IInv, TypeOK, Children
<1> QED
  BY <1>2, <1>3, <1>4, <1>5, <1>6, <1>7 DEF IInv, SlotInv

(* The caller's abort and dispose() only send signals.                     *)
LEMMA CallerStep ==
    ASSUME IInv, Abort \/ Dispose
    PROVE  IInv'
<1>1. UNCHANGED <<pc, attempt, running, waiters, proc, wire>>
  BY DEF Abort, Dispose, poolVars
<1>2. TypeOK'
  <2>1. active' \subseteq Children /\ doomed' \subseteq Children
    BY DEF Abort, Dispose, Signalled, IInv, TypeOK
  <2>2. aborted' \in BOOLEAN /\ disposed' \in BOOLEAN
    BY DEF Abort, Dispose, IInv, TypeOK
  <2> QED
    BY <1>1, <2>1, <2>2 DEF IInv, TypeOK
<1>3. SlotAccounting' /\ QueueAccounting'
  BY <1>1 DEF IInv, SlotAccounting, QueueAccounting, Holders
<1>4. WorkersHoldSlots' /\ ReplyInv' /\ FreshInv'
  BY <1>1 DEF IInv, WorkersHoldSlots, ReplyInv, FreshInv, Current
<1>5. ActiveExact'
  BY <1>1 DEF Abort, Dispose, IInv, ActiveExact, Settled
<1> QED
  BY <1>2, <1>3, <1>4, <1>5 DEF IInv

-----------------------------------------------------------------------------
(* Every step of the pool keeps the inductive invariant.                   *)
LEMMA NextKeepsIInv == IInv /\ [Next]_vars => IInv'
<1> SUFFICES ASSUME IInv, [Next]_vars PROVE IInv'
  OBVIOUS
<1>1. ASSUME NEW t \in Tasks, Run(t) PROVE IInv'
  BY <1>1, RunStep
<1>2. ASSUME NEW t \in Tasks, Loop(t) PROVE IInv'
  <2>1. CASE ThrowIfAborted(t)
    BY <2>1, LeaveStep DEF ThrowIfAborted, AttemptsLeft, Finished
  <2>2. CASE GiveUp(t)
    BY <2>2, LeaveStep DEF GiveUp, Finished
  <2>3. CASE RetryListenerThrows(t)
    BY <2>3, LeaveStep DEF RetryListenerThrows, AttemptsLeft, Finished
  <2>4. CASE Fork(t)
    BY <2>4, ForkStep
  <2>5. CASE SendThrows(t)
    BY <2>5, SendThrowsStep
  <2>6. CASE Return(t)
    BY <2>6, LeaveStep DEF Return, Finished
  <2> QED
    BY <1>2, <2>1, <2>2, <2>3, <2>4, <2>5, <2>6 DEF Loop
<1>3. ASSUME NEW c \in Children, Reply(c) \/ Crash(c) \/ Die(c) PROVE IInv'
  BY <1>3, ChildStep
<1>4. ASSUME NEW c \in Children, Deliver(c) PROVE IInv'
  BY <1>4, OnMessageStep, OnExitOrErrorStep DEF Deliver
<1>5. CASE Abort \/ Dispose
  BY <1>5, CallerStep
<1>6. CASE UNCHANGED vars
  <2>1. UNCHANGED <<pc, attempt, running, waiters, active, proc, wire, doomed,
                    aborted, disposed>>
    BY <1>6 DEF vars, poolVars
  <2>2. TypeOK' /\ SlotAccounting' /\ QueueAccounting'
    BY <2>1 DEF IInv, TypeOK, SlotAccounting, QueueAccounting, Holders
  <2>3. WorkersHoldSlots' /\ ActiveExact' /\ ReplyInv' /\ FreshInv'
    BY <2>1 DEF IInv, WorkersHoldSlots, ActiveExact, ReplyInv, FreshInv,
                Current, Settled
  <2> QED
    BY <2>2, <2>3 DEF IInv
<1> QED
  BY <1>1, <1>2, <1>3, <1>4, <1>5, <1>6 DEF Next, Done

(* The inductive invariant holds for ever.                                 *)
THEOREM Inductive == Spec => []IInv
<1> QED
  BY InitIInv, NextKeepsIInv, PTL DEF Spec

(* Every variable keeps its type.                                          *)
THEOREM TypeCorrect == Spec => []TypeOK
<1>1. IInv => TypeOK
  BY DEF IInv
<1> QED
  BY <1>1, Inductive, PTL

(* pool.ts: `running` counts the calls that hold a slot and stays within   *)
(* the concurrency, on every path out of run().                            *)
THEOREM SlotsAccounted == Spec => []SlotAccounting
<1>1. IInv => SlotAccounting
  BY DEF IInv
<1> QED
  BY <1>1, Inductive, PTL

(* pool.ts: the waiters are exactly the queued calls, and they only wait   *)
(* while every slot is taken.                                              *)
THEOREM QueueAccounted == Spec => []QueueAccounting
<1>1. IInv => QueueAccounting
  BY DEF IInv
<1> QED
  BY <1>1, Inductive, PTL

(* worker.ts, pool.ts: a process that renders is the current attempt of a  *)
(* call that holds a slot.                                                 *)
THEOREM WorkersInSlots == Spec => []WorkersHoldSlots
<1>1. IInv => WorkersHoldSlots
  BY DEF IInv
<1> QED
  BY <1>1, Inductive, PTL

(* pool.ts: until dispose(), `active` is exactly the unsettled children.   *)
THEOREM ActiveIsExact == Spec => []ActiveExact
<1>1. IInv => ActiveExact
  BY DEF IInv
<1> QED
  BY <1>1, Inductive, PTL

(* At most `concurrency` adapters run at the same time: each working       *)
(* process stands for a different call that holds a slot.                  *)
THEOREM WorkingWithinConcurrency ==
    Spec => [](Cardinality({c \in Children : proc[c] = "working"}) <= Concurrency)
<1> DEFINE Working == {c \in Children : proc[c] = "working"}
<1>1. ASSUME IInv
      PROVE  Cardinality(Working) <= Concurrency
  <2> DEFINE f == [c \in Working |-> c[1]]
  <2>1. \A c \in Working : c[1] \in Holders /\ c = Current(c[1])
    BY <1>1 DEF IInv, WorkersHoldSlots, Holders, Holding, Children
  <2>2. f \in Injection(Working, Holders)
    <3>1. f \in [Working -> Holders]
      BY <2>1
    <3>2. \A c, d \in Working : f[c] = f[d] => c = d
      BY <2>1
    <3> QED
      BY <3>1, <3>2, Fun_IsInj
  <2>3. /\ Cardinality(Working) \in Nat
        /\ Cardinality(Working) <= Cardinality(Holders)
    BY <2>2, HoldersFinite, FS_Injection, FS_CardinalityType
  <2>4. Cardinality(Holders) <= Concurrency
    BY <1>1 DEF IInv, SlotAccounting
  <2> QED
    BY <2>3, <2>4, HoldersFinite, ConcurrencyPositive
<1> QED
  BY <1>1, Inductive, PTL

-----------------------------------------------------------------------------
(* Abort.                                                                  *)

(* pool.ts: once the signal has fired, every tracked child was sent        *)
(* SIGKILL, but for one whose own onRetry listener has fired it.           *)
THEOREM AbortReaches == Spec => []AbortReachesAll
<1>1. Init => AbortReachesAll
  BY DEF Init, AbortReachesAll
<1>2. AbortReachesAll /\ [Next]_vars => AbortReachesAll'
  <2> SUFFICES ASSUME AbortReachesAll, [Next]_vars PROVE AbortReachesAll'
    OBVIOUS
  <2>1. ASSUME NEW t \in Tasks, Run(t) PROVE AbortReachesAll'
    BY <2>1 DEF Run, AbortReachesAll
  <2>2. ASSUME NEW t \in Tasks, Loop(t) PROVE AbortReachesAll'
    <3>1. CASE ThrowIfAborted(t) \/ GiveUp(t) \/ RetryListenerThrows(t) \/ Return(t)
      BY <3>1 DEF ThrowIfAborted, GiveUp, RetryListenerThrows, Return, Leave,
                  AbortReachesAll
    <3>2. CASE Fork(t) \/ SendThrows(t)
      <4>1. /\ ~aborted
            /\ active' = active \union {Current(t)}
            /\ Notify(t)
            /\ UNCHANGED disposed
        BY <3>2 DEF Fork, SendThrows
      <4>2. CASE UNCHANGED <<aborted, doomed>>
        BY <4>1, <4>2 DEF AbortReachesAll
      <4>3. CASE /\ "listenerAborts" \in Faults
                 /\ attempt[t] > 0
                 /\ doomed' = Signalled
        <5> SUFFICES ASSUME ~disposed',
                            NEW c \in active' \ doomed', NEW d \in active' \ doomed'
                     PROVE  c = d /\ c[2] > 0
          BY <4>3 DEF AbortReachesAll
        <5>1. active \subseteq doomed'
          BY <4>1, <4>3 DEF Signalled
        <5>2. c = Current(t) /\ d = Current(t)
          BY <4>1, <5>1
        <5> QED
          BY <4>3, <5>2 DEF Current
      <4> QED
        BY <4>1, <4>2, <4>3 DEF Notify
    <3> QED
      BY <2>2, <3>1, <3>2 DEF Loop
  <2>3. ASSUME NEW c \in Children, Reply(c) \/ Crash(c) \/ Die(c)
        PROVE  AbortReachesAll'
    BY <2>3 DEF Reply, Crash, Die, AbortReachesAll
  <2>4. ASSUME NEW c \in Children, Deliver(c) PROVE AbortReachesAll'
    <3>1. active' \subseteq active
      BY <2>4 DEF Deliver, OnMessage, OnExitOrError, Settle
    <3>2. doomed \subseteq doomed' /\ UNCHANGED <<aborted, disposed>>
      BY <2>4 DEF Deliver, OnMessage, OnExitOrError
    <3> QED
      BY <3>1, <3>2 DEF AbortReachesAll
  <2>5. CASE Abort \/ Dispose
    BY <2>5 DEF Abort, Dispose, Signalled, AbortReachesAll
  <2>6. CASE UNCHANGED vars
    BY <2>6 DEF vars, AbortReachesAll
  <2> QED
    BY <2>1, <2>2, <2>3, <2>4, <2>5, <2>6 DEF Next, Done
<1> QED
  BY <1>1, <1>2, PTL DEF Spec

(* pool.ts: the check at the top of the loop keeps every loop from forking *)
(* once the signal has fired.                                              *)
THEOREM NoForkAfter == Spec => NoForkAfterAbort
<1>1. IInv /\ [Next]_vars =>
          [aborted => \A c \in Children : proc[c] = "none" => proc'[c] = "none"]_vars
  <2> SUFFICES ASSUME IInv, Next, aborted,
                      NEW c \in Children, proc[c] = "none"
               PROVE  proc'[c] = "none"
    OBVIOUS
  <2>1. ASSUME NEW t \in Tasks, Run(t) \/ Loop(t) PROVE proc' = proc
    BY <2>1 DEF Run, Loop, ThrowIfAborted, GiveUp, RetryListenerThrows, Return,
                Leave, Fork, SendThrows
  <2>2. ASSUME NEW d \in Children, Reply(d) \/ Crash(d) \/ Die(d) \/ Deliver(d)
        PROVE  proc'[c] = "none"
    <3>1. CASE d = c
      BY <2>2, <3>1 DEF Reply, Crash, Die, Deliver, OnMessage, OnExitOrError
    <3>2. CASE d # c
      BY <2>2, <3>2 DEF IInv, TypeOK, Reply, Crash, Die, Deliver, OnMessage,
                        OnExitOrError
    <3> QED
      BY <3>1, <3>2
  <2>3. CASE Abort \/ Dispose \/ Done
    BY <2>3 DEF Abort, Dispose, Done, vars
  <2> QED
    BY <2>1, <2>2, <2>3 DEF Next
<1> QED
  BY <1>1, Inductive, PTL DEF Spec, NoForkAfterAbort

-----------------------------------------------------------------------------
(* Refinement: the pool is a counting semaphore that is served in order.   *)

Outside == {t \in Tasks : pc[t] \in Finished}

(* Steps that move calls within the section, or not at all, are stutters.  *)
LEMMA SemaphoreStutter ==
    ASSUME UNCHANGED waiters,
           \A t \in Tasks : \/ pc'[t] = pc[t]
                            \/ pc[t] \in Holding /\ pc'[t] \in Holding
    PROVE  UNCHANGED <<Holders, Outside, waiters>>
BY DEF Holders, Outside, Holding, Finished

(* Those in line are the calls that wait for a slot.                       *)
LEMMA InLine == IInv => Sem!Waiting = {t \in Tasks : pc[t] = "waiting"}
BY DEF IInv, QueueAccounting, Sem!Waiting

(* The semaphore counts its clients as the pool counts its slots.          *)
LEMMA FullIsFull == IInv => (Sem!Full <=> running >= Concurrency)
BY DEF IInv, SlotAccounting, Sem!Full, Cardinality, Sem!Cardinality

(* An acquire is an Enter of the abstract semaphore, or a LineUp.          *)
LEMMA AcquireRefines ==
    ASSUME IInv, NEW t \in Tasks, pc[t] = "idle", Acquire(t)
    PROVE  Sem!Next
<1>1. t \in Sem!Fresh
  BY InLine DEF Sem!Fresh, Holders, Outside, Holding, Finished
<1>2. CASE /\ running < Concurrency /\ UNCHANGED waiters
           /\ pc' = [pc EXCEPT ![t] = "ready"]
  <2>1. Holders' = Holders \union {t} /\ Outside' = Outside
    BY <1>2 DEF Holders, Outside, Holding, Finished, IInv, TypeOK
  <2>2. waiters = <<>>
    BY <1>2 DEF IInv, QueueAccounting, TypeOK
  <2>3. ~(running >= Concurrency)
    BY <1>2, ConcurrencyPositive DEF IInv, TypeOK
  <2>4. ~Sem!Full
    BY <2>3, FullIsFull
  <2> QED
    BY <1>1, <1>2, <2>1, <2>2, <2>4 DEF Sem!Next, Sem!Enter, Outside
<1>3. CASE /\ running >= Concurrency /\ waiters' = Append(waiters, t)
           /\ pc' = [pc EXCEPT ![t] = "waiting"]
  <2>1. Holders' = Holders /\ Outside' = Outside
    BY <1>3 DEF Holders, Outside, Holding, Finished, IInv, TypeOK
  <2>2. Sem!Full
    BY <1>3, FullIsFull
  <2> QED
    BY <1>1, <1>3, <2>1, <2>2 DEF Sem!Next, Sem!LineUp, Outside
<1> QED
  BY <1>2, <1>3 DEF Acquire

(* A release is a Leave of the abstract semaphore, or a HandOver.          *)
LEMMA ReleaseRefines ==
    ASSUME IInv, NEW t \in Tasks, NEW outcome \in Finished,
           pc[t] \in {"ready", "returning"}, Release(t, outcome)
    PROVE  Sem!Next
<1>1. t \in Holders
  BY DEF Holders, Holding
<1>2. CASE /\ waiters # <<>> /\ waiters' = Tail(waiters)
           /\ pc' = [pc EXCEPT ![t] = outcome, ![Head(waiters)] = "ready"]
  <2> DEFINE h == Head(waiters)
  <2>1. 1 \in DOMAIN waiters /\ h = waiters[1]
    BY <1>2 DEF IInv, TypeOK
  <2>2. h \in Tasks /\ pc[h] = "waiting" /\ h # t
    BY <2>1 DEF IInv, QueueAccounting
  <2>3. /\ Holders' = (Holders \ {t}) \union {h}
        /\ Outside' = Outside \union {t}
    BY <1>2, <2>2 DEF Holders, Outside, Holding, Finished, IInv, TypeOK
  <2> QED
    BY <1>1, <1>2, <2>3 DEF Sem!Next, Sem!HandOver, Outside
<1>3. CASE waiters = <<>> /\ pc' = [pc EXCEPT ![t] = outcome] /\ UNCHANGED waiters
  <2>1. /\ Holders' = Holders \ {t}
        /\ Outside' = Outside \union {t}
    BY <1>3 DEF Holders, Outside, Holding, Finished, IInv, TypeOK
  <2> QED
    BY <1>1, <1>3, <2>1 DEF Sem!Next, Sem!Leave, Outside
<1> QED
  BY <1>2, <1>3 DEF Release

(* pool.ts: acquire and release implement a counting semaphore whose slots *)
(* are handed over, to those who wait in the order they came, the fix for  *)
(* the hand-off race of the audit (4.5).                                   *)
THEOREM PoolIsSemaphore == Spec => SemaphoreSpec
<1>1. Init => Sem!Init
  BY DEF Init, Sem!Init, Holders, Holding, Finished
<1>2. IInv /\ [Next]_vars => [Sem!Next]_(Sem!semVars)
  <2> SUFFICES ASSUME IInv, [Next]_vars
               PROVE  Sem!Next \/ UNCHANGED <<Holders, Outside, waiters>>
    BY DEF Sem!semVars, Outside
  <2>1. ASSUME NEW t \in Tasks, Run(t)
        PROVE  Sem!Next
    BY <2>1, AcquireRefines DEF Run
  <2>2. ASSUME NEW t \in Tasks, Loop(t)
        PROVE  Sem!Next \/ UNCHANGED <<Holders, Outside, waiters>>
    <3>1. CASE Fork(t) \/ SendThrows(t)
      BY <3>1, SemaphoreStutter
      DEF Fork, SendThrows, AttemptsLeft, Holding, IInv, TypeOK
    <3>2. CASE ~(Fork(t) \/ SendThrows(t))
      <4>1. PICK outcome \in Finished :
                pc[t] \in {"ready", "returning"} /\ Leave(t, outcome)
        BY <2>2, <3>2 DEF Loop, ThrowIfAborted, GiveUp, RetryListenerThrows,
                          Return, AttemptsLeft, Finished
      <4> QED
        BY <4>1, ReleaseRefines DEF Leave
    <3> QED
      BY <3>1, <3>2
  <2>3. ASSUME NEW c \in Children, Reply(c) \/ Crash(c) \/ Die(c)
        PROVE  UNCHANGED <<Holders, Outside, waiters>>
    BY <2>3, SemaphoreStutter DEF Reply, Crash, Die, poolVars
  <2>4. ASSUME NEW c \in Children, Deliver(c)
        PROVE  UNCHANGED <<Holders, Outside, waiters>>
    <3>1. AwaiterMoves(c) /\ UNCHANGED waiters
      BY <2>4, SettleMoves DEF Deliver, OnMessage, OnExitOrError, Settle, poolVars
    <3> QED
      BY <3>1, SemaphoreStutter DEF AwaiterMoves, Holding
  <2>5. CASE Abort \/ Dispose \/ UNCHANGED vars
    BY <2>5, SemaphoreStutter DEF Abort, Dispose, vars, poolVars
  <2> QED
    BY <2>1, <2>2, <2>3, <2>4, <2>5 DEF Next, Done
<1> QED
  BY <1>1, <1>2, Inductive, PTL DEF Spec, SemaphoreSpec, Sem!Spec
=============================================================================
