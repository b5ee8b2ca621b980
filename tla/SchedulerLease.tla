--------------------------- MODULE SchedulerLease ---------------------------
(***************************************************************************)
(* One lease row of the scheduler_leases table (runtime/state.py) and the  *)
(* dispatcher processes that fight over it (runtime/scheduler.py).  Rows   *)
(* of different schedule kinds never interact, so a behaviour is about   *)
(* one kind: "MONITOR" (a new dispatch key every minute) or "SLOT" (one    *)
(* key a day, with a deadline after which it is MISSED).                   *)
(*                                                                         *)
(* A process is one CLI invocation: it reads the clock once, looks at the  *)
(* row, acquires it in a second transaction, runs the callback while a     *)
(* heartbeat thread renews the row, and completes or releases the row.     *)
(* Every transaction of the store is one atomic step (BEGIN IMMEDIATE);    *)
(* between two of them any other process may run, and a process may be     *)
(* killed at any point.  A process identity is never reused (pid, start    *)
(* time and boot id), so an exited process is a dead owner.                *)
(***************************************************************************)
EXTENDS Naturals

CONSTANTS
    Procs,        \* process identities, each dispatching once
    Kinds,        \* the schedule kinds explored, of "MONITOR" and "SLOT"
    TTL,          \* lease_ttl_seconds, in ticks
    MinuteTicks,  \* ticks in one minute
    SlotDue,      \* SLOT: when the job becomes due ...
    SlotDeadline, \* ... after which it counts as missed ...
    SlotEnd,      \* ... and when it is no longer proposed at all
    MaxLag,       \* bound: ticks between reading the clock and acquiring
    MaxNow        \* bound: the last tick explored

\* The shipped configuration: a 90 second lease outlives a monitor minute.
ASSUME LeaseAssumption ==
    /\ Kinds \subseteq {"MONITOR", "SLOT"}
    /\ TTL \in Nat /\ MinuteTicks \in Nat \ {0} /\ TTL > MinuteTicks
    /\ SlotDue \in Nat /\ SlotDeadline \in Nat /\ SlotEnd \in Nat
    /\ MaxLag \in Nat /\ MaxNow \in Nat

VARIABLES
    kind,      \* the schedule kind of the row, which never changes
    now,       \* the wall clock, in ticks
    lease,     \* the row, or NoLease
    pc,        \* where each process is in dispatch_once
    cur,       \* `current`, the clock value the process captured
    prev,      \* the dead owner read by the MONITOR probe
    hb,        \* is the process's heartbeat thread still renewing?
    onTime,    \* history: processes that acquired a row not yet expired
    late,      \* history: processes that wrote the row with an outdated clock
    ran,       \* history: processes whose callback was started
    completed, \* history: processes whose success was recorded in the row
    killed,    \* history: processes killed inside their callback
    missedBy   \* history: processes that emitted a MISSED record

vars == <<kind, now, lease, pc, cur, prev, hb, onTime, late, ran, completed, killed, missedBy>>

-----------------------------------------------------------------------------
(* The row and the two dispatch keys of a job.                             *)

NoLease == [state |-> "NONE"]

Due(c) == IF kind = "MONITOR" THEN c \div MinuteTicks ELSE SlotDue

JobKey(c)    == [missed |-> FALSE, due |-> Due(c)]
MissedKey(c) == [missed |-> TRUE,  due |-> Due(c)]

IsDue(c)    == kind = "MONITOR" \/ (SlotDue <= c /\ c < SlotEnd)
IsMissed(c) == kind = "SLOT" /\ c > SlotDeadline

Keys   == [missed : BOOLEAN, due : Nat]
Leases == {NoLease} \cup
          [state : {"ACTIVE", "COMPLETED"}, owner : Procs, expires : Nat, key : Keys]

Alive(p)       == pc[p] \notin {"exit", "dead"}
OwnerIsDead(p) == ~Alive(p)

\* Bugs TLC must notice: acquire_lease forgetting one of its two refusals.
AcquirableWhileActive(c, k) == lease = NoLease \/ ~(lease.key = k /\ lease.state = "COMPLETED")
AcquirableAgain(c, k) == lease = NoLease \/ ~(lease.expires > c /\ lease.state = "ACTIVE")

\* The condition under which acquire_lease writes the row for key k at time c.
Acquirable(c, k) ==
    \/ lease = NoLease
    \/ /\ ~(lease.key = k /\ lease.state = "COMPLETED")
       /\ ~(lease.expires > c /\ lease.state = "ACTIVE")

Held(p, c, k) == [state |-> "ACTIVE", owner |-> p, expires |-> c + TTL, key |-> k]

\* A bug: the killed minute itself is reclaimed, not only an earlier one.
CanReclaimSameMinute(p) ==
    /\ lease # NoLease
    /\ lease.state = "ACTIVE"
    /\ lease.key.due <= Due(cur[p])
    /\ OwnerIsDead(lease.owner)

CanReclaim(p) ==
    /\ kind = "MONITOR"
    /\ lease # NoLease
    /\ lease.state = "ACTIVE"
    /\ lease.key.due < Due(cur[p])
    /\ OwnerIsDead(lease.owner)

\* A bug: only an earlier MISSED record stops a second one.
AlreadyMissed(p) == lease # NoLease /\ lease.key = MissedKey(cur[p])

AlreadyReported(p) == lease # NoLease /\ lease.key \in {JobKey(cur[p]), MissedKey(cur[p])}

InCallback(p) == pc[p] \in {"running", "complete", "release"}

-----------------------------------------------------------------------------
Init ==
    /\ kind \in Kinds
    /\ now = 0
    /\ lease = NoLease
    /\ pc = [p \in Procs |-> "new"]
    /\ cur = [p \in Procs |-> 0]
    /\ prev = [p \in Procs |-> p]
    /\ hb = [p \in Procs |-> FALSE]
    /\ onTime = {} /\ late = {} /\ ran = {} /\ completed = {} /\ killed = {} /\ missedBy = {}

\* The clock a process captured is outdated when it would decide otherwise
\* today: another minute, another verdict on the slot, or a lease that is
\* expired before it is written.
Outdated(p) ==
    \/ Due(cur[p]) # Due(now)
    \/ IsMissed(cur[p]) # IsMissed(now)
    \/ now >= cur[p] + TTL

Goto(p, l) == pc' = [pc EXCEPT ![p] = l]

history == <<onTime, late, ran, completed, killed, missedBy>>

\* dispatch_once reads the clock; a job that is not due ends the process.
Start(p) ==
    /\ pc[p] = "new"
    /\ cur' = [cur EXCEPT ![p] = now]
    /\ Goto(p, IF IsDue(now) THEN "probe" ELSE "exit")
    /\ UNCHANGED <<kind, now, lease, prev, hb, history>>

\* A late slot looks at the row first: a slot that was dispatched, or already
\* reported as missed, is not reported again.
ProbeMissed(p) ==
    /\ pc[p] = "probe" /\ IsMissed(cur[p])
    /\ Goto(p, IF AlreadyReported(p) THEN "exit" ELSE "acquireMissed")
    /\ UNCHANGED <<kind, now, lease, cur, prev, hb, history>>

\* The monitor looks for the row of a provably dead process of an earlier
\* minute; the other kinds go straight to the acquisition.
Probe(p) ==
    /\ pc[p] = "probe" /\ ~IsMissed(cur[p])
    /\ IF CanReclaim(p)
       THEN prev' = [prev EXCEPT ![p] = lease.owner] /\ Goto(p, "reclaim")
       ELSE UNCHANGED prev /\ Goto(p, "acquire")
    /\ UNCHANGED <<kind, now, lease, cur, hb, history>>

\* release_lease(lease, previous owner): deletes the row only if that owner
\* still has it.
Reclaim(p) ==
    /\ pc[p] = "reclaim"
    /\ lease' = IF lease # NoLease /\ lease.owner = prev[p] THEN NoLease ELSE lease
    /\ Goto(p, "acquire")
    /\ UNCHANGED <<kind, now, cur, prev, hb, history>>

\* acquire_lease stamps the row with the captured clock, not with the time of
\* the transaction; a success starts the heartbeat thread and the callback.
Acquire(p) ==
    /\ pc[p] = "acquire"
    /\ IF Acquirable(cur[p], JobKey(cur[p]))
       THEN /\ lease' = Held(p, cur[p], JobKey(cur[p]))
            /\ hb' = [hb EXCEPT ![p] = TRUE]
            /\ onTime' = IF now < cur[p] + TTL THEN onTime \cup {p} ELSE onTime
            /\ late' = IF Outdated(p) THEN late \cup {p} ELSE late
            /\ ran' = ran \cup {p}
            /\ Goto(p, "running")
       ELSE /\ Goto(p, "exit")
            /\ UNCHANGED <<lease, hb, onTime, late, ran>>
    /\ UNCHANGED <<kind, now, cur, prev, completed, killed, missedBy>>

AcquireMissed(p) ==
    /\ pc[p] = "acquireMissed"
    /\ IF Acquirable(cur[p], MissedKey(cur[p]))
       THEN /\ lease' = Held(p, cur[p], MissedKey(cur[p]))
            /\ missedBy' = missedBy \cup {p}
            /\ late' = IF Outdated(p) THEN late \cup {p} ELSE late
            /\ Goto(p, "completeMissed")
       ELSE /\ Goto(p, "exit")
            /\ UNCHANGED <<lease, late, missedBy>>
    /\ UNCHANGED <<kind, now, cur, prev, hb, onTime, ran, completed, killed>>

Owns(p, k) == lease # NoLease /\ lease.owner = p /\ lease.state = "ACTIVE" /\ lease.key = k

Completed(c) == [lease EXCEPT !.state = "COMPLETED", !.expires = c]

CompleteMissed(p) ==
    /\ pc[p] = "completeMissed"
    /\ lease' = IF Owns(p, MissedKey(cur[p])) THEN Completed(cur[p]) ELSE lease
    /\ Goto(p, "exit")
    /\ UNCHANGED <<kind, now, cur, prev, hb, history>>

\* The heartbeat thread: a renewal that finds the row expired or taken over
\* ends the thread.  It is stopped only after the row was completed or
\* released, so a last renewal may come after that ("stopping").
Heartbeat(p) ==
    /\ (InCallback(p) \/ pc[p] = "stopping") /\ hb[p]
    /\ IF lease # NoLease /\ lease.owner = p /\ lease.expires > now
       THEN lease' = [lease EXCEPT !.expires = now + TTL] /\ UNCHANGED hb
       ELSE hb' = [hb EXCEPT ![p] = FALSE] /\ UNCHANGED lease
    /\ UNCHANGED <<kind, now, pc, cur, prev, history>>

\* Any exception of the store ends the heartbeat thread for good.
HeartbeatFails(p) ==
    /\ InCallback(p) /\ hb[p]
    /\ hb' = [hb EXCEPT ![p] = FALSE]
    /\ UNCHANGED <<kind, now, lease, pc, cur, prev, history>>

\* The callback returns; a fail-closed business status and an exception are
\* both followed by release_lease, a success by complete_lease.
CallbackReturns(p) ==
    /\ pc[p] = "running"
    /\ \E l \in {"complete", "release"} : Goto(p, l)
    /\ UNCHANGED <<kind, now, lease, cur, prev, hb, history>>

Complete(p) ==
    /\ pc[p] = "complete"
    /\ IF Owns(p, JobKey(cur[p]))
       THEN lease' = Completed(cur[p]) /\ completed' = completed \cup {p}
       ELSE UNCHANGED <<lease, completed>>
    /\ Goto(p, "stopping")
    /\ UNCHANGED <<kind, now, cur, prev, hb, onTime, late, ran, killed, missedBy>>

\* complete_lease raised: the handler of the callback's exceptions releases
\* the row although the callback succeeded.
CompleteFails(p) ==
    /\ pc[p] = "complete"
    /\ Goto(p, "release")
    /\ UNCHANGED <<kind, now, lease, cur, prev, hb, history>>

\* release_lease, or its failure, which is swallowed.
Release(p) ==
    /\ pc[p] = "release"
    /\ \/ lease' = IF lease # NoLease /\ lease.owner = p THEN NoLease ELSE lease
       \/ UNCHANGED lease
    /\ Goto(p, "stopping")
    /\ UNCHANGED <<kind, now, cur, prev, hb, history>>

Exit(p) ==
    /\ pc[p] = "stopping"
    /\ hb' = [hb EXCEPT ![p] = FALSE]
    /\ Goto(p, "exit")
    /\ UNCHANGED <<kind, now, lease, cur, prev, history>>

\* SIGKILL, timeout or power loss: the threads die with the process.
Crash(p) ==
    /\ Alive(p) /\ pc[p] # "new"
    /\ Goto(p, "dead")
    /\ hb' = [hb EXCEPT ![p] = FALSE]
    /\ killed' = IF InCallback(p) THEN killed \cup {p} ELSE killed
    /\ UNCHANGED <<kind, now, lease, cur, prev, onTime, late, ran, completed, missedBy>>

Acquiring(p) == pc[p] \in {"probe", "reclaim", "acquire", "acquireMissed", "completeMissed"}

\* Time passes.  A live heartbeat thread renews every TTL/3, so the row of a
\* process that is renewing does not lapse; MaxLag bounds the time a process
\* spends between reading the clock and its last use of it before the callback.
Tick ==
    /\ now < MaxNow
    /\ \A p \in Procs : Acquiring(p) => now < cur[p] + MaxLag
    /\ \A p \in Procs :
         (InCallback(p) /\ hb[p] /\ lease # NoLease /\ lease.owner = p)
            => (lease.expires > now + 1 \/ lease.expires <= now)
    /\ now' = now + 1
    /\ UNCHANGED <<kind, lease, pc, cur, prev, hb, history>>

Step(p) ==
    \/ Start(p) \/ ProbeMissed(p) \/ Probe(p) \/ Reclaim(p)
    \/ Acquire(p) \/ AcquireMissed(p) \/ CompleteMissed(p)
    \/ Heartbeat(p) \/ HeartbeatFails(p) \/ CallbackReturns(p)
    \/ Complete(p) \/ CompleteFails(p) \/ Release(p) \/ Exit(p) \/ Crash(p)

Next == Tick \/ \E p \in Procs : Step(p)

Spec == Init /\ [][Next]_vars

-----------------------------------------------------------------------------
PCs == {"new", "probe", "reclaim", "acquire", "acquireMissed", "completeMissed",
        "running", "complete", "release", "stopping", "exit", "dead"}

\* Every variable has its type.
TypeOK ==
    /\ kind \in Kinds /\ now \in Nat
    /\ lease \in Leases
    /\ pc \in [Procs -> PCs]
    /\ cur \in [Procs -> Nat]
    /\ prev \in [Procs -> Procs]
    /\ hb \in [Procs -> BOOLEAN]
    /\ onTime \subseteq Procs /\ late \subseteq Procs /\ ran \subseteq Procs /\ completed \subseteq Procs
    /\ killed \subseteq Procs /\ missedBy \subseteq Procs

\* Two callbacks of one schedule kind never overlap, unless one of the two
\* lost its heartbeat or acquired a row that was already expired when it was
\* written: the acquisition, the renewal and the reclaiming of dead owners
\* together give mutual exclusion (dispatch_once, acquire_lease).
Exclusive ==
    \A p, q \in Procs :
        (InCallback(p) /\ InCallback(q) /\ hb[p] /\ hb[q] /\ {p, q} \subseteq onTime)
            => p = q

\* What a step may not do: start a dispatch whose success was recorded, ...
SuccessRunsOnce == \A q \in ran' \ ran : \A p \in completed : Due(cur[p]) # Due(cur[q])

\* ... start the monitor minute in whose callback a process died, ...
KilledMinuteSkipped ==
    kind = "MONITOR" => \A q \in ran' \ ran : \A p \in killed : Due(cur[p]) # Due(cur[q])

\* ... or report a slot MISSED that was reported or completed before.
MissedOnce == \A q \in missedBy' \ missedBy : missedBy = {} /\ completed = {}

\* As long as no process has written the row with an outdated clock, a dispatch
\* whose success is recorded in the row is not run again, whatever retries,
\* takeovers, reclaims and MISSED reports do (acquire_lease's COMPLETED check,
\* complete_lease).  The clock is captured when the process starts, so that a
\* slow process does write with an outdated one: CompletedNeverRerun.
SuccessIsFinal == [][late' = {} => SuccessRunsOnce]_vars

\* As long as no process has written the row with an outdated clock, the minute
\* of a monitor that died inside its callback is not started again by any
\* process (the reclaim rule of dispatch_once and the 90 second lease).  Without
\* that restriction it is: KilledMinuteNeverReplayed.
KilledMinuteStaysKilled == [][late' = {} => KilledMinuteSkipped]_vars

\* As long as no process has written the row with an outdated clock, a slot is
\* reported MISSED at most once, and never after one of its dispatches completed
\* (the get_lease probe before a MISSED record).  A dispatch that acquires after
\* the deadline with a clock from before it breaks this.
MissedIsFinal == [][late' = {} => MissedOnce]_vars

\* What AUDIT_REMEDIATION_2026-08-25.md says without that restriction:
\* "completion state prevents duplicate completed work" (acquire_lease).
CompletedNeverRerun == [][SuccessRunsOnce]_vars

\* What the comment of dispatch_once says without that restriction: "Never replay
\* the killed minute".
KilledMinuteNeverReplayed == [][KilledMinuteSkipped]_vars
=============================================================================
