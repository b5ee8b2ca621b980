---------------------------- MODULE BoundedWork ----------------------------
(***************************************************************************)
(* The bounded work gate (runtime/bounded_work.py): blocking operations    *)
(* that cannot be cancelled run in daemon threads that hold one of a fixed *)
(* number of slots; the caller stops waiting at its deadline, the thread   *)
(* goes on.  Calls and batches share one gate.                             *)
(*                                                                         *)
(* Time is abstract: late is the set of callers whose deadline has passed. *)
(* An operation may return at any time, or never.                          *)
(***************************************************************************)
EXTENDS Naturals, FiniteSets

CONSTANTS
    Calls,         \* invocations of BoundedWorkGate.call, retries included
    KeyOf,         \* [Calls -> keys \cup {NoKey}]: operation_key
    NoKey,         \* operation_key is None
    Waits,         \* the calls with wait_for_slot
    Batches,       \* invocations of run_many_bounded
    Ops,           \* their operations
    BatchOf,       \* [Ops -> Batches]
    MaxInflight,   \* the slots of the gate
    MaxWorkers,    \* max_workers of a batch
    ThreadsMayFail \* Thread.start may raise

ASSUME WorkAssumption ==
    /\ IsFiniteSet(Calls) /\ IsFiniteSet(Ops) /\ IsFiniteSet(Batches)
    /\ Calls \cap Ops = {} /\ Calls \cap Batches = {}
    /\ Waits \subseteq Calls
    /\ BatchOf \in [Ops -> Batches]
    /\ MaxInflight \in Nat \ {0} /\ MaxWorkers \in Nat \ {0}
    /\ ThreadsMayFail \in BOOLEAN

Callers == Calls \cup Batches
Workers == Calls \cup Ops

VARIABLES
    free,   \* the value of the semaphore _slots
    keys,   \* _inflight_keys
    late,   \* callers past their deadline
    pc,     \* where each caller is
    work,   \* where each worker thread is
    answer, \* what a worker's operation returned
    output  \* what a call returned, or a batch reports of an operation

vars == <<free, keys, late, pc, work, answer, output>>

Init ==
    /\ free = MaxInflight
    /\ keys = {} /\ late = {}
    /\ pc = [c \in Callers |-> "idle"]
    /\ work = [w \in Workers |-> "none"]
    /\ answer = [w \in Workers |-> "none"]
    /\ output = [w \in Workers |-> "none"]

-----------------------------------------------------------------------------
(* BoundedWorkGate.call, in the caller's thread.                           *)

Go(c, next) == pc' = [pc EXCEPT ![c] = next]

Return(c, status) == Go(c, "done") /\ output' = [output EXCEPT ![c] = status]

Begin(c) ==
    /\ pc[c] = "idle"
    /\ IF c \in late THEN Return(c, "TIMED_OUT") ELSE Go(c, "check") /\ UNCHANGED output
    /\ UNCHANGED <<free, keys, late, work, answer>>

CheckKey(c) ==
    /\ pc[c] = "check"
    /\ IF KeyOf[c] \in keys THEN Return(c, "BACKPRESSURE") ELSE Go(c, "admit") /\ UNCHANGED output
    /\ UNCHANGED <<free, keys, late, work, answer>>

\* A bug: waiting for a slot has no timeout.
RefusedNever(c) == free = 0 /\ c \notin Waits

\* A call that waits for a slot is refused at its deadline, another at once.
Refused(c) == free = 0 /\ (c \in Waits => c \in late)

SlotFree == free > 0

Admit(c) ==
    /\ pc[c] = "admit"
    /\ \/ SlotFree /\ free' = free - 1 /\ Go(c, "admitted") /\ UNCHANGED output
       \/ Refused(c) /\ Return(c, "BACKPRESSURE") /\ UNCHANGED free
    /\ UNCHANGED <<keys, late, work, answer>>

\* The deadline is tested again after the wait for the slot.
CheckDeadline(c) ==
    /\ pc[c] = "admitted"
    /\ IF c \in late THEN Return(c, "BACKPRESSURE") /\ free' = free + 1
       ELSE Go(c, "register") /\ UNCHANGED <<output, free>>
    /\ UNCHANGED <<keys, late, work, answer>>

\* A bug: the key that was free before the wait for the slot still is.
DuplicateChecked(c) == FALSE

\* The key is tested again under the lock that registers it.
Duplicate(c) == KeyOf[c] \in keys

Register(c) ==
    /\ pc[c] = "register"
    /\ IF Duplicate(c) THEN Return(c, "BACKPRESSURE") /\ free' = free + 1 /\ UNCHANGED keys
       ELSE /\ keys' = keys \cup ({KeyOf[c]} \ {NoKey})
            /\ Go(c, "spawn") /\ UNCHANGED <<output, free>>
    /\ UNCHANGED <<late, work, answer>>

Spawn(c) ==
    /\ pc[c] = "spawn"
    /\ work' = [work EXCEPT ![c] = "running"]
    /\ Go(c, "wait")
    /\ UNCHANGED <<free, keys, late, answer, output>>

\* The thread did not start: the key, then the slot are given back.
SpawnFails(c) ==
    /\ ThreadsMayFail /\ pc[c] = "spawn"
    /\ keys' = keys \ {KeyOf[c]}
    /\ Go(c, "giveBack")
    /\ UNCHANGED <<free, late, work, answer, output>>

GiveBack(c) ==
    /\ pc[c] = "giveBack" /\ free' = free + 1 /\ Return(c, "RAISED")
    /\ UNCHANGED <<keys, late, work, answer>>

\* The answer counts if it is taken from the queue before the deadline.
Collect(c) ==
    /\ pc[c] = "wait" /\ answer[c] # "none"
    /\ Return(c, IF c \in late THEN "TIMED_OUT" ELSE answer[c])
    /\ UNCHANGED <<free, keys, late, work, answer>>

GiveUp(c) ==
    /\ pc[c] = "wait" /\ answer[c] = "none" /\ c \in late
    /\ Return(c, "TIMED_OUT")
    /\ UNCHANGED <<free, keys, late, work, answer>>

-----------------------------------------------------------------------------
(* run_many_bounded, in the caller's thread.                               *)

OpsOf(b)      == {o \in Ops : BatchOf[o] = b}
Unlaunched(b) == {o \in OpsOf(b) : work[o] = "none"}
InFlight(b)   == {o \in OpsOf(b) : work[o] # "none" /\ output[o] = "none"}
Queue(b)      == {o \in InFlight(b) : work[o] = "put"}

BeginBatch(b) ==
    /\ pc[b] = "idle" /\ Go(b, "launch")
    /\ UNCHANGED <<free, keys, late, work, answer, output>>

MayLaunch(b) == Unlaunched(b) # {} /\ b \notin late /\ Cardinality(InFlight(b)) < MaxWorkers

\* If the thread does not start, the exception leaves the batch and nobody
\* gives the slot back.
Launch(b) ==
    /\ pc[b] = "launch" /\ MayLaunch(b) /\ SlotFree
    /\ free' = free - 1
    /\ \E o \in Unlaunched(b) :
         \/ work' = [work EXCEPT ![o] = "running"] /\ UNCHANGED pc
         \/ ThreadsMayFail /\ work' = [work EXCEPT ![o] = "unstarted"] /\ Go(b, "raised")
    /\ UNCHANGED <<keys, late, answer, output>>

StopLaunching(b) ==
    /\ pc[b] = "launch" /\ ~(MayLaunch(b) /\ SlotFree)
    /\ Go(b, IF b \in late \/ InFlight(b) = {} THEN "finish" ELSE "get")
    /\ UNCHANGED <<free, keys, late, work, answer, output>>

Get(b) ==
    /\ pc[b] = "get"
    /\ \E o \in Queue(b) : output' = [output EXCEPT ![o] = answer[o]]
    /\ Go(b, "launch")
    /\ UNCHANGED <<free, keys, late, work, answer>>

GetTimesOut(b) ==
    /\ pc[b] = "get" /\ Queue(b) = {} /\ b \in late
    /\ Go(b, "finish")
    /\ UNCHANGED <<free, keys, late, work, answer, output>>

\* What the batch reports of operation o when it ends.
Reported(b, o) ==
    IF output[o] # "none" THEN output[o]
    ELSE IF o \in Queue(b) THEN answer[o]
    ELSE IF o \in Unlaunched(b) THEN "BACKPRESSURE" ELSE "TIMED_OUT"

Finish(b) ==
    /\ pc[b] = "finish" /\ Go(b, "done")
    /\ output' = [o \in Workers |-> IF o \in OpsOf(b) THEN Reported(b, o) ELSE output[o]]
    /\ UNCHANGED <<free, keys, late, work, answer>>

-----------------------------------------------------------------------------
(* The worker threads.                                                     *)

\* The operation returns or raises.  A call's answer is in its queue at once; a
\* batch's worker compares the clock with the deadline first.
Answer(w) ==
    /\ work[w] = "running"
    /\ \E s \in {"READY", "FAILED"} :
         answer' = [answer EXCEPT ![w] =
           IF s = "READY" /\ w \in Ops /\ BatchOf[w] \in late THEN "TIMED_OUT" ELSE s]
    /\ work' = [work EXCEPT ![w] = "answered"]
    /\ UNCHANGED <<free, keys, late, pc, output>>

\* A bug: the key stays registered after a failure.
UnregisterReady(c) ==
    /\ c \in Calls /\ work[c] = "answered"
    /\ keys' = IF answer[c] = "READY" THEN keys \ {KeyOf[c]} ELSE keys
    /\ work' = [work EXCEPT ![c] = "unregistered"]
    /\ UNCHANGED <<free, late, pc, answer, output>>

Unregister(c) ==
    /\ c \in Calls /\ work[c] = "answered"
    /\ keys' = keys \ {KeyOf[c]}
    /\ work' = [work EXCEPT ![c] = "unregistered"]
    /\ UNCHANGED <<free, late, pc, answer, output>>

ReleaseSlot(w) ==
    /\ work[w] = IF w \in Calls THEN "unregistered" ELSE "answered"
    /\ free' = free + 1
    /\ work' = [work EXCEPT ![w] = "released"]
    /\ UNCHANGED <<keys, late, pc, answer, output>>

\* The result of a batch's operation is queued after its slot is released.
Put(o) ==
    /\ o \in Ops /\ work[o] = "released"
    /\ work' = [work EXCEPT ![o] = "put"]
    /\ UNCHANGED <<free, keys, late, pc, answer, output>>

-----------------------------------------------------------------------------
\* The deadline of a caller that has returned does not matter any more.
Expire(c) ==
    /\ pc[c] \notin {"done", "raised"} /\ c \notin late /\ late' = late \cup {c}
    /\ UNCHANGED <<free, keys, pc, work, answer, output>>

CallStep(c) ==
    \/ Begin(c) \/ CheckKey(c) \/ Admit(c) \/ CheckDeadline(c) \/ Register(c)
    \/ Spawn(c) \/ SpawnFails(c) \/ GiveBack(c) \/ Collect(c) \/ GiveUp(c)

BatchStep(b) ==
    BeginBatch(b) \/ Launch(b) \/ StopLaunching(b) \/ Get(b) \/ GetTimesOut(b) \/ Finish(b)

EndWorker(w) == Unregister(w) \/ ReleaseSlot(w) \/ Put(w)

Next ==
    \/ \E c \in Calls : CallStep(c)
    \/ \E b \in Batches : BatchStep(b)
    \/ \E w \in Workers : Answer(w) \/ EndWorker(w)
    \/ \E c \in Callers : Expire(c)

Spec == Init /\ [][Next]_vars

\* Threads are scheduled and time passes; an operation need not return.
Fairness ==
    /\ \A c \in Calls : WF_vars(CallStep(c))
    /\ \A b \in Batches : WF_vars(BatchStep(b))
    /\ \A w \in Workers : WF_vars(EndWorker(w))
    /\ \A c \in Callers : WF_vars(Expire(c))

FairSpec == Spec /\ Fairness

-----------------------------------------------------------------------------
PCs      == {"idle", "check", "admit", "admitted", "register", "spawn", "giveBack", "wait",
             "launch", "get", "finish", "raised", "done"}
Statuses == {"none", "READY", "FAILED", "TIMED_OUT", "BACKPRESSURE", "RAISED"}

\* Every variable has its type.
TypeOK ==
    /\ free \in Nat
    /\ keys \subseteq {KeyOf[c] : c \in Calls} \ {NoKey}
    /\ late \subseteq Callers
    /\ pc \in [Callers -> PCs]
    /\ work \in [Workers -> {"none", "unstarted", "running", "answered", "unregistered", "released", "put"}]
    /\ answer \in [Workers -> Statuses]
    /\ output \in [Workers -> Statuses]

\* The workers, or the callers on their behalf, that hold a slot.
Holders ==
    {c \in Calls : pc[c] \in {"admitted", "register", "spawn", "giveBack"}}
    \cup {w \in Workers : work[w] \in {"unstarted", "running", "answered", "unregistered"}}

\* Every slot is free or held once: no path through the deadline checks, a
\* duplicate key, a failed thread or a late worker frees a slot twice, and
\* never more than MaxInflight operations run (BoundedWorkGate).
SlotsAccounted == free + Cardinality(Holders) = MaxInflight

\* "Retries cannot multiply identical outstanding transport work": one worker
\* at a time runs an operation of a key, although the key is tested before a
\* wait of any length for a slot (BoundedWorkGate.call).
OneWorkerPerKey ==
    \A c, d \in Calls : (c # d /\ work[c] = "running" /\ work[d] = "running")
        => (KeyOf[c] # KeyOf[d] \/ KeyOf[c] = NoKey)

\* Work reported as BACKPRESSURE was never started, so it may be tried again
\* (BoundedWorkGate.call, run_many_bounded).
BackpressureNeverRan == \A w \in Workers : output[w] = "BACKPRESSURE" => work[w] = "none"

\* "The caller gets a terminal result at its absolute deadline", even if no
\* operation ever returns and no slot ever becomes free.
CallersReturn == \A c \in Callers : pc[c] # "idle" ~> pc[c] \in {"done", "raised"}

\* The bookkeeping of the gate: slots are conserved, a key has one worker, and
\* what was refused did not run (BoundedWorkGate.call, run_many_bounded).
GateSound == SlotsAccounted /\ OneWorkerPerKey /\ BackpressureNeverRan

\* No thread is left and no caller is under way.
Quiet ==
    /\ \A c \in Callers : pc[c] \in {"idle", "done", "raised"}
    /\ \A w \in Workers : work[w] \in {"none", "unstarted", "released", "put"}

\* "A dependency that ignores cancellation may continue only in a daemon thread
\* while holding one global slot": everything is given back, whatever failed and
\* in whatever order calls and workers ended, but for the one slot of a batch
\* whose thread did not start.
StartedGivesBack ==
    Quiet => keys = {} /\ free = MaxInflight - Cardinality({o \in Ops : work[o] = "unstarted"})
=============================================================================
