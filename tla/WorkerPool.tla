----------------------------- MODULE WorkerPool -----------------------------
(***************************************************************************)
(* The child-process pool of packages/orchestrator: WorkerPool (pool.ts)   *)
(* in the parent, the worker entry point (worker.ts) in each child, and    *)
(* the IPC channel between the two.                                        *)
(*                                                                         *)
(* Tasks are the run() calls of one Promise.all pass of generate().  Each  *)
(* attempt of a task forks a process of its own, so a process is named by  *)
(* the pair <<task, attempt>>.  What crosses the channel is one message,   *)
(* a reply that is ok or an error; the payload of tasks and replies is not *)
(* modelled.                                                               *)
(***************************************************************************)
EXTENDS Naturals, Sequences, FiniteSets

CONSTANTS
    Tasks,        \* the run() calls of one pass
    Concurrency,  \* size of the semaphore, after the constructor's clamp
    Retries,      \* re-attempts per task, after the constructor's clamp
    Unsendable,   \* tasks whose payload child.send() cannot serialize
    Faults        \* what may go wrong around the pool, a subset of FaultKinds

FaultKinds == {"errorReply", "crash", "spawnError",
               "listenerThrows", "listenerAborts"}

ASSUME TasksFinite == IsFiniteSet(Tasks)
ASSUME ConcurrencyPositive == Concurrency \in Nat \ {0}
ASSUME RetriesNatural == Retries \in Nat
ASSUME UnsendableTasks == Unsendable \subseteq Tasks
ASSUME FaultsKnown == Faults \subseteq FaultKinds

VARIABLES
    pc,        \* where each run() call is
    attempt,   \* loop counter of each run() call
    running,   \* slots taken
    waiters,   \* run() calls queued for a slot, oldest first
    active,    \* the children the pool would kill
    proc,      \* the life of each child process
    wire,      \* the one reply of each child
    doomed,    \* children a kill signal was sent to
    aborted,   \* the caller's signal has fired
    disposed   \* dispose() has run: the abort listener is gone

poolVars == <<pc, attempt, running, waiters>>
vars == <<poolVars, active, proc, wire, doomed, aborted, disposed>>

Children == Tasks \X (0..Retries)

(* A run() call that holds a slot is "ready" at the top of its loop,       *)
(* "running" while it awaits a child, or "returning" once it has a result. *)
Holding  == {"ready", "running", "returning"}
Finished == {"fulfilled", "aborted", "failed"}
States   == {"idle", "waiting"} \union Holding \union Finished

Holders == {t \in Tasks : pc[t] \in Holding}

(* "unfed" is a live child whose request could not be sent; "unspawned" a  *)
(* child that never came to life; "gone" one whose exit or error event the *)
(* pool has seen.                                                          *)
Living    == {"working", "unfed", "exiting"}
ProcState == {"none", "dead", "unspawned", "gone"} \union Living

Current(t) == <<t, attempt[t]>>

(* The first event of a child settles its promise, later ones find it so.  *)
Settled(c) == wire[c] = "read" \/ proc[c] = "gone"

TypeOK ==
    /\ pc \in [Tasks -> States]
    /\ attempt \in [Tasks -> 0..(Retries + 1)]
    /\ running \in 0..Concurrency
    /\ waiters \in Seq(Tasks)
    /\ active \subseteq Children
    /\ proc \in [Children -> ProcState]
    /\ wire \in [Children -> {"empty", "ok", "error", "read"}]
    /\ doomed \subseteq Children
    /\ aborted \in BOOLEAN
    /\ disposed \in BOOLEAN

Init ==
    /\ pc = [t \in Tasks |-> "idle"]
    /\ attempt = [t \in Tasks |-> 0]
    /\ running = 0
    /\ waiters = <<>>
    /\ active = {}
    /\ proc = [c \in Children |-> "none"]
    /\ wire = [c \in Children |-> "empty"]
    /\ doomed = {}
    /\ aborted \in BOOLEAN
    /\ disposed = FALSE

-----------------------------------------------------------------------------
(* The semaphore.                                                          *)

(* acquire(): take a slot, or queue for one.                               *)
Acquire(t) ==
    \/ /\ running < Concurrency
       /\ running' = running + 1
       /\ pc' = [pc EXCEPT ![t] = "ready"]
       /\ UNCHANGED waiters
    \/ /\ running >= Concurrency
       /\ waiters' = Append(waiters, t)
       /\ pc' = [pc EXCEPT ![t] = "waiting"]
       /\ UNCHANGED running

(* Mutant of Release: the wake-up is lost.                                 *)
ReleaseWithoutWake(t, outcome) ==
    /\ running' = running - 1
    /\ pc' = [pc EXCEPT ![t] = outcome]
    /\ UNCHANGED waiters

(* Mutant of Release: the slot goes to the youngest waiter.                *)
ReleaseToYoungest(t, outcome) ==
    \/ /\ waiters # <<>>
       /\ waiters' = SubSeq(waiters, 1, Len(waiters) - 1)
       /\ pc' = [pc EXCEPT ![t] = outcome, ![waiters[Len(waiters)]] = "ready"]
       /\ UNCHANGED running
    \/ /\ waiters = <<>>
       /\ running' = running - 1
       /\ pc' = [pc EXCEPT ![t] = outcome]
       /\ UNCHANGED waiters

(* release() as task t leaves with the given outcome: the slot goes to the *)
(* oldest waiter, or back to the pool when nobody waits.                   *)
Release(t, outcome) ==
    \/ /\ waiters # <<>>
       /\ waiters' = Tail(waiters)
       /\ pc' = [pc EXCEPT ![t] = outcome, ![Head(waiters)] = "ready"]
       /\ UNCHANGED running
    \/ /\ waiters = <<>>
       /\ running' = running - 1
       /\ pc' = [pc EXCEPT ![t] = outcome]
       /\ UNCHANGED waiters

-----------------------------------------------------------------------------
(* run(): the retry loop of one task.                                      *)

Run(t) ==
    /\ pc[t] = "idle"
    /\ Acquire(t)
    /\ UNCHANGED <<attempt, active, proc, wire, doomed, aborted, disposed>>

Leave(t, outcome) ==
    /\ Release(t, outcome)
    /\ UNCHANGED <<attempt, active, proc, wire, doomed, aborted, disposed>>

(* Mutant of AttemptsLeft: one retry too many.                             *)
AttemptsLeftOneMore(t) == pc[t] = "ready" /\ attempt[t] <= Retries + 1

AttemptsLeft(t) == pc[t] = "ready" /\ attempt[t] <= Retries

(* Mutant of ThrowIfAborted: the check outside the try block, so that the  *)
(* finally block does not release the slot.                                *)
ThrowIfAbortedKeepingSlot(t) ==
    /\ AttemptsLeft(t)
    /\ aborted
    /\ pc' = [pc EXCEPT ![t] = "aborted"]
    /\ UNCHANGED <<running, waiters, attempt, active, proc, wire, doomed,
                   aborted, disposed>>

(* signal.throwIfAborted() at the top of the loop.                         *)
ThrowIfAborted(t) ==
    /\ AttemptsLeft(t)
    /\ aborted
    /\ Leave(t, "aborted")

(* The attempts are used up: ShardRenderError.                             *)
GiveUp(t) ==
    /\ pc[t] = "ready"
    /\ attempt[t] > Retries
    /\ Leave(t, "failed")

(* The caller's progress listener throws out of onRetry.                   *)
RetryListenerThrows(t) ==
    /\ "listenerThrows" \in Faults
    /\ AttemptsLeft(t)
    /\ attempt[t] > 0
    /\ ~aborted
    /\ Leave(t, "failed")

(* Mutant of Signalled: nobody listens to the signal.                      *)
SignalledNobody == doomed

(* onAbort, while the pool still listens: SIGKILL to the active children.  *)
Signalled == IF disposed THEN doomed ELSE doomed \union active

(* onRetry, when the listener it calls may abort the run, then fork().     *)
Notify(t) ==
    \/ UNCHANGED <<aborted, doomed>>
    \/ /\ "listenerAborts" \in Faults
       /\ attempt[t] > 0
       /\ aborted' = TRUE
       /\ doomed' = Signalled

(* runOnce() up to the await: the child is active and has its request.     *)
Fork(t) ==
    /\ AttemptsLeft(t)
    /\ ~aborted
    /\ t \notin Unsendable
    /\ Notify(t)
    /\ \/ proc' = [proc EXCEPT ![Current(t)] = "working"]
       \/ /\ "spawnError" \in Faults
          /\ proc' = [proc EXCEPT ![Current(t)] = "unspawned"]
    /\ active' = active \union {Current(t)}
    /\ pc' = [pc EXCEPT ![t] = "running"]
    /\ UNCHANGED <<attempt, running, waiters, wire, disposed>>

(* child.send() throws: the promise rejects at once, and the child stays   *)
(* alive and active without a request.                                     *)
SendThrows(t) ==
    /\ AttemptsLeft(t)
    /\ ~aborted
    /\ t \in Unsendable
    /\ Notify(t)
    /\ proc' = [proc EXCEPT ![Current(t)] = "unfed"]
    /\ active' = active \union {Current(t)}
    /\ attempt' = [attempt EXCEPT ![t] = @ + 1]
    /\ UNCHANGED <<pc, running, waiters, wire, disposed>>

(* The awaited result is returned: the finally block releases the slot.    *)
Return(t) ==
    /\ pc[t] = "returning"
    /\ Leave(t, "fulfilled")

Loop(t) ==
    \/ ThrowIfAborted(t)
    \/ GiveUp(t)
    \/ RetryListenerThrows(t)
    \/ Fork(t)
    \/ SendThrows(t)
    \/ Return(t)

-----------------------------------------------------------------------------
(* A child process: one request, one reply, then process.exit(0).          *)

(* Mutant of Reply: no process.exit() after the reply.                     *)
ReplyAndStay(c) ==
    /\ proc[c] = "working"
    /\ wire[c] = "empty"
    /\ wire' = [wire EXCEPT ![c] = "ok"]
    /\ UNCHANGED <<poolVars, active, proc, doomed, aborted, disposed>>

Reply(c) ==
    /\ proc[c] = "working"
    /\ \/ wire' = [wire EXCEPT ![c] = "ok"]
       \/ /\ "errorReply" \in Faults
          /\ wire' = [wire EXCEPT ![c] = "error"]
    /\ proc' = [proc EXCEPT ![c] = "exiting"]
    /\ UNCHANGED <<poolVars, active, doomed, aborted, disposed>>

(* The adapter takes its process down.                                     *)
Crash(c) ==
    /\ "crash" \in Faults
    /\ proc[c] = "working"
    /\ proc' = [proc EXCEPT ![c] = "dead"]
    /\ UNCHANGED <<poolVars, active, wire, doomed, aborted, disposed>>

(* The process ends: process.exit(0) after the reply, or a kill signal.    *)
Die(c) ==
    /\ \/ proc[c] = "exiting"
       \/ proc[c] \in {"working", "unfed"} /\ c \in doomed
    /\ proc' = [proc EXCEPT ![c] = "dead"]
    /\ UNCHANGED <<poolVars, active, wire, doomed, aborted, disposed>>

-----------------------------------------------------------------------------
(* The child's events in the parent.  Nothing orders a reply still in the  *)
(* channel before the exit event of the process that sent it.              *)

(* settle(): the first event decides the promise that run() awaits.        *)
Settle(c, ok) ==
    IF Settled(c) THEN UNCHANGED <<poolVars, active>>
    ELSE /\ active' = active \ {c}
         /\ LET t == c[1]
                awaited == pc[t] = "running" /\ c = Current(t)
            IN  IF ~awaited THEN UNCHANGED <<pc, attempt>>
                ELSE IF ok
                THEN /\ pc' = [pc EXCEPT ![t] = "returning"]
                     /\ UNCHANGED attempt
                ELSE /\ pc' = [pc EXCEPT ![t] = "ready"]
                     /\ attempt' = [attempt EXCEPT ![t] = @ + 1]
         /\ UNCHANGED <<running, waiters>>

(* 'message': settle, then child.kill().                                   *)
OnMessage(c) ==
    /\ wire[c] \in {"ok", "error"}
    /\ Settle(c, wire[c] = "ok")
    /\ wire' = [wire EXCEPT ![c] = "read"]
    /\ doomed' = doomed \union {c}
    /\ UNCHANGED <<proc, aborted, disposed>>

(* 'exit' of a process that died, 'error' of one that never lived.         *)
OnExitOrError(c) ==
    /\ proc[c] \in {"dead", "unspawned"}
    /\ Settle(c, FALSE)
    /\ proc' = [proc EXCEPT ![c] = "gone"]
    /\ UNCHANGED <<wire, doomed, aborted, disposed>>

Deliver(c) == OnMessage(c) \/ OnExitOrError(c)

-----------------------------------------------------------------------------
(* The caller.                                                             *)

Abort ==
    /\ ~aborted
    /\ aborted' = TRUE
    /\ doomed' = Signalled
    /\ UNCHANGED <<poolVars, active, proc, wire, disposed>>

(* generate()'s finally block: the pass is over, or one of its run() calls *)
(* has ended it early by rejecting (or by a result that could not be       *)
(* stored).  The loops of the other calls are not stopped.                 *)
Dispose ==
    /\ ~disposed
    /\ \E t \in Tasks : pc[t] \in Finished
    /\ disposed' = TRUE
    /\ doomed' = doomed \union active
    /\ active' = {}
    /\ UNCHANGED <<poolVars, proc, wire, aborted>>

(* All calls are over, the pool is disposed and every process is reaped.   *)
Quiet ==
    /\ \A t \in Tasks : pc[t] \in Finished
    /\ \A c \in Children : proc[c] \in {"none", "gone"}

Done ==
    /\ Quiet
    /\ disposed
    /\ UNCHANGED vars

Next ==
    \/ \E t \in Tasks : Run(t) \/ Loop(t)
    \/ \E c \in Children : Reply(c) \/ Crash(c) \/ Die(c) \/ Deliver(c)
    \/ Abort
    \/ Dispose
    \/ Done

Spec == Init /\ [][Next]_vars

(* The event loop runs every continuation and delivers every event, the    *)
(* operating system ends every process that exits or is killed.  Nothing   *)
(* here makes an adapter answer: pool.ts sets no timeout.                  *)
Fairness ==
    /\ \A t \in Tasks : WF_vars(Run(t)) /\ WF_vars(Loop(t))
    /\ \A c \in Children : WF_vars(Deliver(c)) /\ WF_vars(Die(c))
    /\ WF_vars(Dispose)

FairSpec == Spec /\ Fairness

-----------------------------------------------------------------------------
(* What the semaphore promises.                                            *)

(* `running` counts exactly the run() calls that hold a slot, and never    *)
(* exceeds the configured concurrency: no release is lost or doubled on    *)
(* any path out of the loop (return, throw, abort, listener error).        *)
SlotAccounting ==
    /\ running = Cardinality(Holders)
    /\ running <= Concurrency

(* The queue holds exactly the calls that wait, once each, and a call only *)
(* waits while all slots are taken: no wake-up is lost.                    *)
QueueAccounting ==
    /\ {waiters[i] : i \in DOMAIN waiters} = {t \in Tasks : pc[t] = "waiting"}
    /\ \A i, j \in DOMAIN waiters : waiters[i] = waiters[j] => i = j
    /\ waiters # <<>> => running = Concurrency

(* The pool is a counting semaphore over the run() calls, which get their  *)
(* slots in the order of the calls (Semaphore.tla).                        *)
Sem == INSTANCE Semaphore WITH
           Clients <- Tasks, Slots <- Concurrency, line <- waiters,
           inside <- Holders, outside <- {t \in Tasks : pc[t] \in Finished}

SemaphoreSpec == Sem!Spec

(* The rendering processes are the current attempts of calls that hold a   *)
(* slot: at most `concurrency` processes still owe their reply, one per    *)
(* task.  True after dispose() and abort too.  What an adapter goes on to  *)
(* do after its reply, until its process is gone, it may do next to the    *)
(* following attempt.                                                      *)
WorkersHoldSlots ==
    \A c \in Children :
        proc[c] = "working" => pc[c[1]] = "running" /\ c = Current(c[1])

(* Until dispose(), abort can reach every child whose promise is pending:  *)
(* `active` is exactly the unsettled children.                             *)
ActiveExact ==
    ~disposed => active = {c \in Children : proc[c] # "none" /\ ~Settled(c)}

(* Once the signal has fired, every child the pool still tracks has been   *)
(* sent SIGKILL, but for the one of a retry whose own onRetry listener has *)
(* fired it: that listener runs between the check and the fork.            *)
AbortReachesAll ==
    aborted /\ ~disposed =>
        \A c, d \in active \ doomed :
            c = d /\ c[2] > 0 /\ "listenerAborts" \in Faults

(* After abort no process is forked, whatever loop is under way.           *)
NoForkAfterAbort ==
    [][aborted => \A c \in Children : proc[c] = "none" => proc'[c] = "none"]_vars

(* Some adapter neither answers, nor crashes, nor is killed.               *)
AdapterHangs == <>[](\E c \in Children : proc[c] = "working")

(* No process that got its request outlives the pool, unless its adapter   *)
(* hangs.  One that got none may: nothing kills a child forked after       *)
(* dispose() when its send() throws.                                       *)
EveryWorkerReaped ==
    \/ AdapterHangs
    \/ <>[](/\ \A t \in Tasks : pc[t] \in Finished
           /\ \A c \in Children : proc[c] \in {"none", "gone", "unfed"})

(* An abort that has reached the active children ends every run() call,    *)
(* even if adapters hang for ever, as long as it comes before dispose().   *)
AbortDrains ==
    (aborted /\ ~disposed /\ active \subseteq doomed)
        ~> (\A t \in Tasks : pc[t] \in Finished)

-----------------------------------------------------------------------------
(* What the documentation says and the code does not do.                   *)

(* pool.ts: dispose() kills any live workers.  The retry loop takes that   *)
(* kill for a crash and forks again, and queued calls go on to fork.       *)
DisposedPoolIsDead ==
    disposed => \A c \in Children : proc[c] = "working" => c \in doomed
=============================================================================
