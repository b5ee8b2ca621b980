----------------------------- MODULE JobRunner -----------------------------
(***************************************************************************)
(* JobRunner of the Node control plane (server/runner.ts): one child       *)
(* process per slot, a timeout that escalates from SIGTERM to SIGKILL and  *)
(* finally gives the slot up, and the shutdown of the whole server.        *)
(*                                                                         *)
(* A run keeps its identifier from runChild until its process is gone and  *)
(* its promise settled.  A process obeys nothing: it may ignore SIGTERM,   *)
(* exit at any time, and outlive its SIGKILL (uninterruptible sleep) or    *)
(* the server itself.  Its exit and the close event are one step: a timer  *)
(* that fires between them might as well have fired before the exit.  Log  *)
(* files, traces and health records are left out.  WorkflowScheduler, the  *)
(* only caller of run, extends this module.                                *)
(***************************************************************************)
EXTENDS Naturals, FiniteSets

CONSTANTS
    Jobs,        \* JobName
    SlotOf,      \* [Jobs -> slot name]: primary, comparison, review, notification
    Ids,         \* identifiers of the runs that exist at once (a bound)
    Keys,        \* dispatch keys a run is started for
    MaxOverdue,  \* runs past their timeout at once (a bound)
    MaxStrays,   \* processes that outlive their slot or server at once (a bound)
    None

ASSUME RunnerAssumption ==
    /\ Ids \subseteq Nat /\ {MaxStrays, MaxOverdue} \subseteq Nat
    /\ None \notin Ids
    /\ SlotOf \in [Jobs -> {SlotOf[j] : j \in Jobs}]
    /\ Keys # {}

VARIABLES
    slot,        \* [Slots -> Ids \cup {None}]: active, comparison, review, notification
    run,         \* [Ids -> run record]
    node         \* the server: "up", "stopping" (inside stop) or "down"

runnerVars == <<slot, run, node>>

Slots == {SlotOf[j] : j \in Jobs}

\* timer: which timer of runChild is armed: the timeout, the escalation after
\* SIGTERM, the hard finish after SIGKILL; "off" once the run is settled, "gone"
\* when its server is, "free" while the identifier is unused.  era: whether stop()
\* found the run in its slot, or the run was started after the scheduler stopped.
RunRecord == [job: Jobs, key: Keys,
              timer: {"timeout", "escalation", "hardFinish", "off", "gone", "free"},
              signal: {"none", "SIGTERM", "SIGKILL"},
              era: {"served", "doomed", "late"}]

NoRun == [job |-> CHOOSE j \in Jobs : TRUE, key |-> CHOOSE k \in Keys : TRUE,
          timer |-> "free", signal |-> "none", era |-> "served"]

Exists(i)  == run[i].timer # "free"
Pending(i) == run[i].timer \in {"timeout", "escalation", "hardFinish"}
Strays     == {i \in Ids : Exists(i) /\ ~Pending(i)}
Overdue    == {i \in Ids : run[i].timer \in {"escalation", "hardFinish"}}
Free       == {i \in Ids : ~Exists(i)}
SlotFree(j) == slot[SlotOf[j]] = None

\* run -> runChild: spawn the process, take the slot, arm the timeout.
RunChild(j, k, era) ==
    \E i \in Free :
        /\ \A o \in Free : i <= o
        /\ run' = [run EXCEPT ![i] = [job |-> j, key |-> k, timer |-> "timeout",
                                      signal |-> "none", era |-> era]]
        /\ slot' = [slot EXCEPT ![SlotOf[j]] = i]
        /\ UNCHANGED node

\* A bug: the slot is given back only when the close event arrives.
SettleKeepsSlot(i, survives) ==
    /\ survives => Cardinality(Strays) < MaxStrays
    /\ slot' = [slot EXCEPT ![SlotOf[run[i].job]] = IF survives THEN @ ELSE None]
    /\ run' = [run EXCEPT ![i] = IF survives THEN [@ EXCEPT !.timer = "off"] ELSE NoRun]
    /\ UNCHANGED node

\* finish: settle once; the slot is given up only by the run that holds it.  The
\* process may survive a hard finish.
Settle(i, survives) ==
    /\ survives => Cardinality(Strays) < MaxStrays
    /\ slot' = [slot EXCEPT ![SlotOf[run[i].job]] = IF @ = i THEN None ELSE @]
    /\ run' = [run EXCEPT ![i] = IF survives THEN [@ EXCEPT !.timer = "off"] ELSE NoRun]
    /\ UNCHANGED node

Succeeded(i, exitZero) == exitZero /\ run[i].timer = "timeout"

\* A process that had outlived its slot or its server ends.
StrayExits(i) ==
    /\ i \in Strays
    /\ run' = [run EXCEPT ![i] = NoRun]
    /\ UNCHANGED <<slot, node>>

Stronger(sent, signal) == IF sent = "SIGKILL" THEN sent ELSE signal

Timeout(i) ==
    /\ run[i].timer = "timeout" /\ Cardinality(Overdue) < MaxOverdue
    /\ run' = [run EXCEPT ![i].timer = "escalation", ![i].signal = Stronger(@, "SIGTERM")]
    /\ UNCHANGED <<slot, node>>

\* A bug: the escalation arms the hard finish and sends nothing.
EscalateGently(i) ==
    /\ run[i].timer = "escalation"
    /\ run' = [run EXCEPT ![i].timer = "hardFinish"]
    /\ UNCHANGED <<slot, node>>

Escalate(i) ==
    /\ run[i].timer = "escalation"
    /\ run' = [run EXCEPT ![i].timer = "hardFinish", ![i].signal = "SIGKILL"]
    /\ UNCHANGED <<slot, node>>

CanHardFinish(i) == run[i].timer = "hardFinish"

\* The process exits, by itself or by a signal, or did not start at all: the
\* close or error event arrives.
CanClose(i) == Pending(i)

\* stop: every child in a slot gets SIGTERM and ten seconds, then SIGKILL.
StopChildren ==
    /\ node = "up" /\ node' = "stopping"
    /\ run' = [i \in Ids |-> IF Exists(i) /\ i \in {slot[s] : s \in Slots}
                             THEN [run[i] EXCEPT !.signal = Stronger(@, "SIGTERM"), !.era = "doomed"]
                             ELSE run[i]]
    /\ UNCHANGED slot

StopEscalates(i) ==
    /\ node = "stopping"
    /\ Pending(i) /\ run[i].era = "doomed"
    /\ run' = [run EXCEPT ![i].signal = "SIGKILL"]
    /\ UNCHANGED <<slot, node>>

\* A bug: stop does not wait for the second signal.
ChildrenSignalled ==
    \A i \in Ids : Exists(i) /\ run[i].era = "doomed" => run[i].signal # "none"

ChildrenStopped ==
    \A i \in Ids : Exists(i) /\ run[i].era = "doomed" => run[i].signal = "SIGKILL"

\* The server is gone; a child that lives on has lost its parent (and the model
\* forgets what only the parent knew of it).
Orphan(r) == [r EXCEPT !.timer = "gone", !.signal = "none", !.era = "served", !.key = CHOOSE k \in Keys : TRUE]
ServerGone ==
    /\ node' = "down"
    /\ slot' = [s \in Slots |-> None]
    /\ \E survivors \in SUBSET {i \in Ids : Exists(i)} :
          /\ Cardinality(survivors) <= MaxStrays
          /\ run' = [i \in Ids |-> IF i \in survivors THEN Orphan(run[i]) ELSE NoRun]

RunnerInit ==
    /\ slot = [s \in Slots |-> None]
    /\ run = [i \in Ids |-> NoRun]
    /\ node = "down"
=============================================================================
