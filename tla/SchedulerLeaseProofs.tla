------------------------ MODULE SchedulerLeaseProofs ------------------------
(***************************************************************************)
(* Safety of the scheduler lease, for any set of processes and any TTL     *)
(* longer than a minute.                                                   *)
(*                                                                         *)
(* Exclusive holds for any lag but is not inductive.  What every step      *)
(* keeps is stronger: a process in its callback, with a live heartbeat and *)
(* a row acquired in time, IS the owner of an unexpired ACTIVE row         *)
(* (Covered).  That needs two more facts: no process captured a clock      *)
(* value from the future (acquire_lease compares the row with the captured *)
(* value), and a process about to reclaim a row read the owner of a        *)
(* process that is gone.                                                   *)
(*                                                                         *)
(* The three action properties are about what the row remembers, for any   *)
(* lag, as long as nobody has written the row with an outdated clock (late *)
(* is empty).  Then the row tells what happened in this minute, or slot: a *)
(* success (CompletedRow), a monitor that runs or was killed (InMinute), a *)
(* MISSED report (MissedRow).  Missing is what keeps a MISSED report from  *)
(* overwriting the row of a success: who found no row before it finds no   *)
(* row, or another report, when it writes.  Slow processes may be anywhere *)
(* in between; what they must not do is write (Prompt).                    *)
(***************************************************************************)
EXTENDS SchedulerLease, TLAPS

Covered ==
    \A p \in Procs : (InCallback(p) /\ hb[p] /\ p \in onTime) =>
        /\ lease # NoLease
        /\ lease.owner = p
        /\ lease.state = "ACTIVE"
        /\ lease.expires > now

ClockCaptured == \A p \in Procs : cur[p] <= now

NotYetAcquired ==
    \A p \in onTime : pc[p] \notin {"new", "probe", "reclaim", "acquire"}

ReclaimsDead == \A p \in Procs : pc[p] = "reclaim" => pc[prev[p]] \in {"exit", "dead"}

\* The due minute of a captured clock value is a natural number.
LEMMA DueType == ASSUME NEW c \in Nat PROVE Due(c) \in Nat
  BY LeaseAssumption DEF Due

\* The row written by an acquisition is a row.
LEMMA HeldType ==
    ASSUME NEW p \in Procs, NEW c \in Nat
    PROVE  /\ Held(p, c, JobKey(c)) \in Leases
           /\ Held(p, c, MissedKey(c)) \in Leases
  BY DueType, LeaseAssumption DEF Held, JobKey, MissedKey, Leases, Keys

\* Every reachable state has its type.
THEOREM TypeCorrect == Spec => []TypeOK
<1>1. Init => TypeOK
  BY DEF Init, TypeOK, Leases, PCs
<1>2. TypeOK /\ [Next]_vars => TypeOK'
  <2> SUFFICES ASSUME TypeOK, [Next]_vars PROVE TypeOK'
    OBVIOUS
  <2> USE DEF TypeOK, PCs, Goto, history
  <2>1. CASE Tick
    BY <2>1 DEF Tick
  <2>2. CASE UNCHANGED vars
    BY <2>2 DEF vars
  <2>3. ASSUME NEW p \in Procs, Step(p) PROVE TypeOK'
    <3>1. CASE Start(p)
      BY <3>1 DEF Start
    <3>2. CASE ProbeMissed(p) \/ CallbackReturns(p) \/ CompleteFails(p) \/ Exit(p) \/ HeartbeatFails(p) \/ Crash(p)
      BY <3>2 DEF ProbeMissed, CallbackReturns, CompleteFails, Exit, HeartbeatFails, Crash
    <3>3. CASE Probe(p)
      <4>1. CanReclaim(p) => lease.owner \in Procs
        BY DEF CanReclaim, Leases, NoLease
      <4> QED BY <3>3, <4>1 DEF Probe
    <3>4. CASE Reclaim(p) \/ Release(p)
      BY <3>4 DEF Reclaim, Release, Leases
    <3>5. CASE Acquire(p)
      <4>1. cur[p] \in Nat /\ Held(p, cur[p], JobKey(cur[p])) \in Leases
        BY HeldType
      <4>2. onTime' \subseteq Procs
        BY <3>5 DEF Acquire
      <4> QED BY <3>5, <4>1, <4>2 DEF Acquire
    <3>6. CASE AcquireMissed(p)
      BY <3>6, HeldType DEF AcquireMissed
    <3>7. CASE CompleteMissed(p) \/ Complete(p)
      <4>1. ASSUME NEW k, Owns(p, k) PROVE Completed(cur[p]) \in Leases
        BY <4>1 DEF Owns, Completed, Leases, NoLease
      <4> QED BY <3>7, <4>1 DEF CompleteMissed, Complete
    <3>8. CASE Heartbeat(p)
      <4>1. lease # NoLease => [lease EXCEPT !.expires = now + TTL] \in Leases
        BY LeaseAssumption DEF Leases
      <4> QED BY <3>8, <4>1 DEF Heartbeat
    <3> QED BY <2>3, <3>1, <3>2, <3>3, <3>4, <3>5, <3>6, <3>7, <3>8 DEF Step
  <2> QED BY <2>1, <2>2, <2>3 DEF Next
<1> QED BY <1>1, <1>2, PTL DEF Spec

\* The strengthened invariant holds of the initial state and of every step.
LEMMA InductiveStep ==
    ASSUME TypeOK, TypeOK', Covered, ClockCaptured, NotYetAcquired, ReclaimsDead, [Next]_vars
    PROVE  Covered' /\ ClockCaptured' /\ NotYetAcquired' /\ ReclaimsDead'
<1> USE DEF TypeOK, Goto, history, InCallback
<1>1. CASE Tick
  <2>1. ClockCaptured' /\ NotYetAcquired' /\ ReclaimsDead'
    BY <1>1 DEF Tick, ClockCaptured, NotYetAcquired, ReclaimsDead
  <2>2. lease # NoLease => lease.expires \in Nat
    BY DEF Leases
  <2>3. Covered'
    BY <1>1, <2>2 DEF Tick, Covered
  <2> QED BY <2>1, <2>3
<1>2. CASE UNCHANGED vars
  BY <1>2 DEF vars, Covered, ClockCaptured, NotYetAcquired, ReclaimsDead
<1>3. ASSUME NEW p \in Procs, Step(p) PROVE Covered' /\ ClockCaptured' /\ NotYetAcquired' /\ ReclaimsDead'
  <2>1. ClockCaptured'
    BY <1>3 DEF Step, Start, ProbeMissed, Probe, Reclaim, Acquire, AcquireMissed, CompleteMissed,
                Heartbeat, HeartbeatFails, CallbackReturns, Complete, CompleteFails, Release,
                Exit, Crash, ClockCaptured
  <2>2. ReclaimsDead'
    <3>1. \A q \in Procs : pc[q] \in {"exit", "dead"} => pc'[q] \in {"exit", "dead"}
      BY <1>3 DEF Step, Start, ProbeMissed, Probe, Reclaim, Acquire, AcquireMissed, CompleteMissed,
                  Heartbeat, HeartbeatFails, CallbackReturns, Complete, CompleteFails, Release,
                  Exit, Crash, Alive
    <3>2. \A q \in Procs : (pc'[q] = "reclaim" /\ pc[q] = "reclaim") => prev'[q] = prev[q]
      BY <1>3 DEF Step, Start, ProbeMissed, Probe, Reclaim, Acquire, AcquireMissed, CompleteMissed,
                  Heartbeat, HeartbeatFails, CallbackReturns, Complete, CompleteFails, Release,
                  Exit, Crash
    <3>3. \A q \in Procs : (pc'[q] = "reclaim" /\ pc[q] # "reclaim") =>
              q = p /\ CanReclaim(p) /\ prev'[p] = lease.owner
      BY <1>3 DEF Step, Start, ProbeMissed, Probe, Reclaim, Acquire, AcquireMissed, CompleteMissed,
                  Heartbeat, HeartbeatFails, CallbackReturns, Complete, CompleteFails, Release,
                  Exit, Crash
    <3>4. CanReclaim(p) => lease.owner \in Procs /\ pc[lease.owner] \in {"exit", "dead"}
      BY DEF CanReclaim, OwnerIsDead, Alive, Leases, NoLease
    <3> QED BY <3>1, <3>2, <3>3, <3>4 DEF ReclaimsDead
  <2>3. Covered'
    <3>1. CASE Start(p) \/ ProbeMissed(p) \/ Probe(p) \/ CallbackReturns(p) \/ CompleteFails(p)
                \/ Exit(p) \/ HeartbeatFails(p) \/ Crash(p)
      BY <3>1 DEF Start, ProbeMissed, Probe, CallbackReturns, CompleteFails, Exit,
                  HeartbeatFails, Crash, Covered
    <3>2. CASE Reclaim(p)
      BY <3>2 DEF Reclaim, Covered, ReclaimsDead
    <3>3. CASE Acquire(p)
      <4>1. ASSUME NEW q \in Procs, InCallback(q), hb[q], q \in onTime
            PROVE  ~Acquirable(cur[p], JobKey(cur[p]))
        BY <4>1 DEF Acquirable, Covered, ClockCaptured, Leases, NoLease
      <4>2. CASE Acquirable(cur[p], JobKey(cur[p]))
        <5>1. /\ lease' # NoLease /\ lease'.owner = p /\ lease'.state = "ACTIVE"
              /\ lease'.expires = cur[p] + TTL
              /\ now' = now /\ pc' = [pc EXCEPT ![p] = "running"] /\ hb' = [hb EXCEPT ![p] = TRUE]
          BY <3>3, <4>2 DEF Acquire, Held, NoLease
        <5>2. onTime' = IF now < cur[p] + TTL THEN onTime \cup {p} ELSE onTime
          BY <3>3, <4>2 DEF Acquire
        <5>3. p \in onTime' => cur[p] + TTL > now
          BY <5>2, <3>3, LeaseAssumption DEF NotYetAcquired, Acquire
        <5>4. ASSUME NEW q \in Procs, q # p PROVE ~(InCallback(q)' /\ hb'[q] /\ q \in onTime')
          BY <4>1, <4>2, <5>1, <5>2, <5>4
        <5> QED BY <5>1, <5>3, <5>4 DEF Covered
      <4>3. CASE ~Acquirable(cur[p], JobKey(cur[p]))
        BY <3>3, <4>3 DEF Acquire, Covered
      <4> QED BY <4>2, <4>3
    <3>4. CASE AcquireMissed(p)
      <4>1. ASSUME NEW q \in Procs, InCallback(q), hb[q], q \in onTime
            PROVE  ~Acquirable(cur[p], MissedKey(cur[p]))
        BY <4>1 DEF Acquirable, Covered, ClockCaptured, Leases, NoLease
      <4>2. CASE Acquirable(cur[p], MissedKey(cur[p]))
        BY <3>4, <4>1, <4>2 DEF AcquireMissed, Covered
      <4>3. CASE ~Acquirable(cur[p], MissedKey(cur[p]))
        BY <3>4, <4>3 DEF AcquireMissed, Covered
      <4> QED BY <4>2, <4>3
    <3>5. CASE CompleteMissed(p) \/ Complete(p) \/ Release(p)
      BY <3>5 DEF CompleteMissed, Complete, Release, Owns, Covered
    <3>6. CASE Heartbeat(p)
      <4>1. CASE lease # NoLease /\ lease.owner = p /\ lease.expires > now
        <5>1. lease'.owner = p /\ lease'.state = lease.state /\ lease'.expires = now + TTL /\ lease' # NoLease
          BY <3>6, <4>1, LeaseAssumption DEF Heartbeat, Leases, NoLease
        <5>2. now + TTL > now
          BY LeaseAssumption
        <5> QED BY <3>6, <4>1, <5>1, <5>2 DEF Heartbeat, Covered
      <4>2. CASE ~(lease # NoLease /\ lease.owner = p /\ lease.expires > now)
        BY <3>6, <4>2 DEF Heartbeat, Covered
      <4> QED BY <4>1, <4>2
    <3> QED BY <1>3, <3>1, <3>2, <3>3, <3>4, <3>5, <3>6 DEF Step
  <2>4. NotYetAcquired'
    BY <1>3 DEF Step, Start, ProbeMissed, Probe, Reclaim, Acquire, AcquireMissed, CompleteMissed,
                Heartbeat, HeartbeatFails, CallbackReturns, Complete, CompleteFails, Release,
                Exit, Crash, NotYetAcquired
  <2> QED BY <2>1, <2>2, <2>3, <2>4
<1> QED BY <1>1, <1>2, <1>3 DEF Next

\* Two healthy callbacks of one schedule kind never overlap.
THEOREM MutualExclusion == Spec => []Exclusive
<1>1. Init => Covered /\ ClockCaptured /\ NotYetAcquired /\ ReclaimsDead
  BY DEF Init, Covered, ClockCaptured, NotYetAcquired, ReclaimsDead, InCallback
<1>2. Covered => Exclusive
  BY DEF Covered, Exclusive
<1> QED BY <1>1, <1>2, TypeCorrect, InductiveStep, PTL DEF Spec

-----------------------------------------------------------------------------
(* What a row says of the past, as long as nobody has written it with an   *)
(* outdated clock.                                                         *)

\* What a process is about to do, and has done, suits its clock.
Deeds ==
    \A p \in Procs :
        /\ pc[p] \in {"reclaim", "acquire"} => ~IsMissed(cur[p])
        /\ pc[p] \in {"acquireMissed", "completeMissed"} => IsMissed(cur[p])
        /\ pc[p] = "reclaim" => /\ kind = "MONITOR" /\ pc[prev[p]] \in {"exit", "dead"}
                                /\ Due(cur[prev[p]]) < Due(cur[p])
        /\ p \in completed => pc[p] \in {"stopping", "exit", "dead"}
        /\ p \in killed => pc[p] = "dead"

\* The row is of the minute of its owner, who has not moved past it.
RowOfOwner ==
    lease # NoLease =>
        /\ lease.key.due = Due(cur[lease.owner])
        /\ ~lease.key.missed => pc[lease.owner] \in {"running", "complete", "release", "stopping", "exit", "dead"}
        /\ lease.key.missed => /\ kind = "SLOT" /\ now > SlotDeadline
                               /\ pc[lease.owner] \in {"completeMissed", "exit", "dead"}
        /\ lease.state = "COMPLETED" => pc[lease.owner] \in {"stopping", "exit", "dead"}

\* A success of this minute, or of the slot, is still in the row.
CompletedRow ==
    \A p \in completed : Due(cur[p]) = Due(now) =>
        lease # NoLease /\ lease.state = "COMPLETED" /\ lease.key = JobKey(now)

\* A monitor that runs, or was killed while it ran, holds the row for as long as
\* its minute lasts.
InMinute ==
    kind = "MONITOR" => \A p \in Procs : ((InCallback(p) \/ p \in killed) /\ Due(cur[p]) = Due(now)) =>
        /\ lease # NoLease /\ lease.owner = p /\ lease.state = "ACTIVE"
        /\ lease.expires >= cur[p] + TTL

\* Who found nothing before reporting a MISSED slot finds at most another report.
Missing ==
    \A p \in Procs : pc[p] = "acquireMissed" /\ lease # NoLease =>
        lease.key.missed /\ (lease.state = "ACTIVE" => lease.expires > cur[p])

\* A reported slot stays reported.
MissedRow == missedBy # {} => kind = "SLOT" /\ now > SlotDeadline /\ lease # NoLease /\ lease.key.missed

LagInv == ClockCaptured /\ Deeds /\ RowOfOwner /\ CompletedRow /\ InMinute /\ Missing /\ MissedRow

\* A later clock value is of the same minute or of a later one, and a minute is
\* shorter than a lease.
LEMMA Minutes ==
    ASSUME NEW c \in Nat, NEW d \in Nat, c <= d
    PROVE  /\ Due(c) <= Due(d)
           /\ kind = "MONITOR" /\ Due(c) = Due(d) => d < c + TTL
<1> DEFINE m == MinuteTicks
           q == c \div m
           r == c % m
           p == d \div m
           s == d % m
<1>1. m \in Nat \ {0} /\ TTL \in Nat /\ m < TTL /\ SlotDue \in Nat
  BY LeaseAssumption
<1>2. q \in Nat /\ r \in 0..(m - 1) /\ c = m * q + r
  BY <1>1
<1>3. p \in Nat /\ s \in 0..(m - 1) /\ d = m * p + s
  BY <1>1
<1> HIDE DEF m, q, r, p, s
<1>4. q <= p
  <2> SUFFICES ASSUME p < q PROVE FALSE
    BY <1>2, <1>3
  <2>1. m * p + m <= m * q
    BY <1>1, <1>2, <1>3, SMTT(20)
  <2> QED BY <1>1, <1>2, <1>3, <2>1
<1>5. p = q => d < c + TTL
  <2> SUFFICES ASSUME p = q PROVE d < c + TTL
    OBVIOUS
  <2>1. m * q \in Nat /\ d = m * q + s
    BY <1>1, <1>2, <1>3, SMTT(20)
  <2> DEFINE k == m * q
  <2>2. k \in Nat /\ d = k + s /\ c = k + r
    BY <1>2, <2>1
  <2> HIDE DEF k
  <2> QED BY <1>1, <1>2, <1>3, <2>2
<1> QED BY <1>1, <1>4, <1>5 DEF Due, m, q, p

\* What each step leaves alone: the other processes, the clock and the kind; a
\* process reads the clock once.
LEMMA Frame ==
    ASSUME TypeOK, NEW p \in Procs, Step(p)
    PROVE  /\ kind' = kind /\ now' = now
           /\ \A q \in Procs : q # p => pc'[q] = pc[q] /\ cur'[q] = cur[q] /\ prev'[q] = prev[q]
           /\ pc[p] # "new" => cur'[p] = cur[p] /\ cur' = cur
           /\ pc[p] = "new" => Start(p)
<1> USE DEF TypeOK, Goto, history
<1>1. CASE Start(p)
  BY <1>1 DEF Start
<1>2. CASE ProbeMissed(p) \/ Probe(p) \/ Reclaim(p)
  BY <1>2 DEF ProbeMissed, Probe, Reclaim
<1>3. CASE Acquire(p) \/ AcquireMissed(p) \/ CompleteMissed(p)
  BY <1>3 DEF Acquire, AcquireMissed, CompleteMissed
<1>4. CASE Heartbeat(p) \/ HeartbeatFails(p) \/ CallbackReturns(p)
  BY <1>4 DEF Heartbeat, HeartbeatFails, CallbackReturns, InCallback
<1>5. CASE Complete(p) \/ CompleteFails(p) \/ Release(p) \/ Exit(p) \/ Crash(p)
  BY <1>5 DEF Complete, CompleteFails, Release, Exit, Crash
<1> QED BY <1>1, <1>2, <1>3, <1>4, <1>5 DEF Step

LEMMA LagInit == Init => LagInv
<1> SUFFICES ASSUME Init PROVE LagInv
  OBVIOUS
<1> QED BY DEF Init, LagInv, ClockCaptured, Deeds, RowOfOwner, CompletedRow, InMinute, InCallback, Missing, MissedRow

LEMMA LagTick ==
    ASSUME TypeOK, LagInv, Tick
    PROVE  LagInv'
<1> USE DEF TypeOK, LagInv
<1>2. /\ now' = now + 1 /\ now' \in Nat /\ UNCHANGED <<kind, lease, pc, cur, prev, completed, killed, missedBy>>
  BY DEF Tick, history
<1>3. ClockCaptured'
  BY <1>2 DEF ClockCaptured
<1>4. Deeds'
  BY <1>2 DEF Deeds, IsMissed, Due
<1>5. RowOfOwner'
  BY <1>2, LeaseAssumption DEF RowOfOwner, Due
<1>6. MissedRow'
  BY <1>2, LeaseAssumption DEF MissedRow
<1>7. Missing'
  BY <1>2 DEF Missing
<1>8. \A p \in Procs : Due(cur[p])' = Due(now)' => Due(cur[p]) = Due(now) /\ JobKey(now)' = JobKey(now)
  <2> SUFFICES ASSUME NEW p \in Procs, Due(cur[p])' = Due(now)'
               PROVE  Due(cur[p]) = Due(now) /\ JobKey(now)' = JobKey(now)
    OBVIOUS
  <2>1. PICK c \in Nat, n \in Nat : c = cur[p] /\ n = now /\ c <= n
    BY DEF ClockCaptured
  <2>2. Due(c) <= Due(n) /\ Due(n) <= Due(n + 1)
    BY <2>1, Minutes
  <2>3. Due(c) \in Nat /\ Due(n) \in Nat /\ Due(n + 1) \in Nat
    BY <2>1, DueType
  <2>4. Due(c) = Due(n + 1)
    BY <1>2, <2>1 DEF Due
  <2>5. Due(c) = Due(n) /\ Due(n + 1) = Due(n)
    BY <2>2, <2>3, <2>4
  <2> QED BY <1>2, <2>1, <2>5 DEF Due, JobKey
<1>9. CompletedRow'
  BY <1>2, <1>8 DEF CompletedRow
<1>10. InMinute'
  BY <1>2, <1>8 DEF InMinute, InCallback
<1> QED BY <1>3, <1>4, <1>5, <1>6, <1>7, <1>9, <1>10

LEMMA ClocksStep ==
    ASSUME TypeOK, ClockCaptured, NEW p \in Procs, Step(p)
    PROVE  ClockCaptured'
<1>1. /\ now' = now
      /\ \A q \in Procs : q # p => cur'[q] = cur[q]
      /\ pc[p] # "new" => cur'[p] = cur[p]
      /\ pc[p] = "new" => Start(p)
  BY Frame
<1>2. Start(p) => cur'[p] = now
  BY DEF Start, TypeOK
<1> QED BY <1>1, <1>2 DEF ClockCaptured, TypeOK

LEMMA DeedsStep ==
    ASSUME TypeOK, Deeds, RowOfOwner, NEW p \in Procs, Step(p)
    PROVE  Deeds'
<1>1. /\ now' = now /\ kind' = kind
      /\ \A q \in Procs : q # p => pc'[q] = pc[q] /\ cur'[q] = cur[q] /\ prev'[q] = prev[q]
      /\ pc[p] # "new" => cur'[p] = cur[p] /\ cur' = cur
      /\ pc[p] = "new" => Start(p)
  BY Frame
<1>2. \A q \in Procs : pc[q] \in {"exit", "dead"} => pc'[q] = pc[q] /\ cur'[q] = cur[q]
  <2> SUFFICES ASSUME pc[p] \in {"exit", "dead"} PROVE pc'[p] = pc[p]
    BY <1>1
  <2> QED
    BY DEF TypeOK, Goto, Step, Start, ProbeMissed, Probe, Reclaim, Acquire, AcquireMissed, CompleteMissed, Alive,
       Heartbeat, HeartbeatFails, CallbackReturns, Complete, CompleteFails, Release, Exit, Crash, InCallback
<1>3. /\ \A q \in Procs : q \in completed' => pc'[q] \in {"stopping", "exit", "dead"}
      /\ \A q \in Procs : q \in killed' => pc'[q] = "dead"
  <2>1. completed' = completed \/ (completed' = completed \cup {p} /\ pc'[p] = "stopping")
    BY DEF TypeOK, Goto, Step, Start, ProbeMissed, Probe, Reclaim, Acquire, AcquireMissed, CompleteMissed, history,
       Heartbeat, HeartbeatFails, CallbackReturns, Complete, CompleteFails, Release, Exit, Crash
  <2>2. killed' = killed \/ (killed' = killed \cup {p} /\ pc'[p] = "dead")
    BY DEF TypeOK, Goto, Step, Start, ProbeMissed, Probe, Reclaim, Acquire, AcquireMissed, CompleteMissed, history,
       Heartbeat, HeartbeatFails, CallbackReturns, Complete, CompleteFails, Release, Exit, Crash
  <2>3. pc[p] = "stopping" => pc'[p] \in {"stopping", "exit", "dead"}
    BY DEF TypeOK, Goto, Step, Start, ProbeMissed, Probe, Reclaim, Acquire, AcquireMissed, CompleteMissed,
       Heartbeat, HeartbeatFails, CallbackReturns, Complete, CompleteFails, Release, Exit, Crash, InCallback
  <2> QED BY <1>1, <1>2, <2>1, <2>2, <2>3 DEF Deeds
<1>4. /\ pc'[p] \in {"reclaim", "acquire"} => ~IsMissed(cur[p])' 
      /\ pc'[p] \in {"acquireMissed", "completeMissed"} => IsMissed(cur[p])'
  <2>1. CASE Start(p)
    BY <2>1 DEF Start, Goto, TypeOK
  <2>2. CASE ~Start(p)
    <3>1. cur'[p] = cur[p]
      BY <1>1, <2>2
    <3>2. CASE ProbeMissed(p) \/ Probe(p)
      BY <1>1, <3>1, <3>2 DEF ProbeMissed, Probe, Goto, TypeOK, IsMissed
    <3>3. CASE ~(ProbeMissed(p) \/ Probe(p))
      <4>1. /\ pc'[p] \in {"reclaim", "acquire"} => pc[p] \in {"reclaim", "acquire"}
            /\ pc'[p] \in {"acquireMissed", "completeMissed"} => pc[p] \in {"acquireMissed", "completeMissed"}
        BY <2>2, <3>3 DEF TypeOK, Goto, Step, Reclaim, Acquire, AcquireMissed, CompleteMissed,
           Heartbeat, HeartbeatFails, CallbackReturns, Complete, CompleteFails, Release, Exit, Crash
      <4> QED BY <1>1, <3>1, <4>1 DEF Deeds, IsMissed
    <3> QED BY <3>2, <3>3
  <2> QED BY <2>1, <2>2
<1>5. \A q \in Procs : pc'[q] = "reclaim" =>
          kind' = "MONITOR" /\ pc'[prev'[q]] \in {"exit", "dead"} /\ Due(cur[prev[q]])' < Due(cur[q])'
  <2> SUFFICES ASSUME NEW q \in Procs, pc'[q] = "reclaim"
               PROVE  kind' = "MONITOR" /\ pc'[prev'[q]] \in {"exit", "dead"} /\ Due(cur[prev[q]])' < Due(cur[q])'
    OBVIOUS
  <2>1. CASE pc[q] = "reclaim" /\ prev'[q] = prev[q]
    <3>1. kind = "MONITOR" /\ pc[prev[q]] \in {"exit", "dead"} /\ Due(cur[prev[q]]) < Due(cur[q])
      BY <2>1 DEF Deeds
    <3>2. prev[q] \in Procs /\ cur'[prev[q]] = cur[prev[q]] /\ pc'[prev[q]] = pc[prev[q]]
      BY <1>2, <3>1 DEF TypeOK
    <3>3. cur'[q] = cur[q]
      BY <1>1, <2>1
    <3> QED BY <1>1, <2>1, <3>1, <3>2, <3>3 DEF Due
  <2>2. CASE ~(pc[q] = "reclaim" /\ prev'[q] = prev[q])
    <3>1. q = p /\ Probe(p) /\ CanReclaim(p)
      BY <1>1, <2>2 DEF TypeOK, Goto, Step, Start, ProbeMissed, Probe, Reclaim, Acquire, AcquireMissed, CompleteMissed, history,
         Heartbeat, HeartbeatFails, CallbackReturns, Complete, CompleteFails, Release, Exit, Crash
    <3>2. prev'[p] = lease.owner /\ cur' = cur /\ pc[p] = "probe"
      BY <3>1 DEF Probe, TypeOK
    <3>3. lease.owner \in Procs /\ pc[lease.owner] \in {"exit", "dead"} /\ lease.key.due = Due(cur[lease.owner])
      BY <3>1 DEF CanReclaim, OwnerIsDead, Alive, TypeOK, Leases, NoLease, RowOfOwner
    <3>4. kind = "MONITOR" /\ lease.key.due < Due(cur[p])
      BY <3>1 DEF CanReclaim
    <3> QED BY <1>1, <1>2, <3>1, <3>2, <3>3, <3>4 DEF Due
  <2> QED BY <2>1, <2>2
<1> QED
  <2> SUFFICES ASSUME NEW q \in Procs
               PROVE  /\ pc'[q] \in {"reclaim", "acquire"} => ~IsMissed(cur[q])'
                      /\ pc'[q] \in {"acquireMissed", "completeMissed"} => IsMissed(cur[q])'
    BY <1>3, <1>5 DEF Deeds
  <2> QED BY <1>1, <1>4 DEF Deeds, IsMissed

\* A process does not go back.
LEMMA Forward ==
    ASSUME TypeOK, NEW p \in Procs, Step(p)
    PROVE  \A q \in Procs :
               /\ pc[q] \in {"running", "complete", "release", "stopping", "exit", "dead"}
                      => pc'[q] \in {"running", "complete", "release", "stopping", "exit", "dead"}
               /\ pc[q] \in {"stopping", "exit", "dead"} => pc'[q] \in {"stopping", "exit", "dead"}
               /\ pc[q] \in {"completeMissed", "exit", "dead"} => pc'[q] \in {"completeMissed", "exit", "dead"}
               /\ pc[q] # "new" => cur'[q] = cur[q]
<1>1. \A q \in Procs : q # p => pc'[q] = pc[q] /\ cur'[q] = cur[q]
  BY Frame
<1>2. /\ pc[p] \in {"running", "complete", "release", "stopping", "exit", "dead"}
             => pc'[p] \in {"running", "complete", "release", "stopping", "exit", "dead"}
      /\ pc[p] \in {"stopping", "exit", "dead"} => pc'[p] \in {"stopping", "exit", "dead"}
      /\ pc[p] \in {"completeMissed", "exit", "dead"} => pc'[p] \in {"completeMissed", "exit", "dead"}
  BY DEF TypeOK, Goto, Step, Start, ProbeMissed, Probe, Reclaim, Acquire, AcquireMissed, CompleteMissed, Alive,
     Heartbeat, HeartbeatFails, CallbackReturns, Complete, CompleteFails, Release, Exit, Crash, InCallback
<1> QED BY <1>1, <1>2, Frame

Taken(p)       == Acquire(p) /\ Acquirable(cur[p], JobKey(cur[p]))
TakenMissed(p) == AcquireMissed(p) /\ Acquirable(cur[p], MissedKey(cur[p]))

\* The row is kept, given up, renewed or completed by its owner, or
\* written by an acquisition.
Kept(p)      == lease' = lease
Deleted(p)   == /\ lease # NoLease /\ lease' = NoLease
                /\ \/ pc[p] = "release" /\ pc'[p] = "stopping" /\ lease.owner = p
                   \/ pc[p] = "reclaim" /\ lease.owner = prev[p]
Updated(p)   == /\ lease # NoLease /\ lease' # NoLease
                /\ lease.owner = p /\ lease'.owner = p /\ lease'.key = lease.key
Renewed(p)   == /\ Updated(p) /\ lease'.state = lease.state /\ lease'.expires = now + TTL
                /\ InCallback(p) \/ pc[p] = "stopping"
Done(p)      == /\ Updated(p) /\ lease.state = "ACTIVE" /\ lease'.state = "COMPLETED"
                /\ \/ pc[p] = "complete" /\ pc'[p] = "stopping" /\ lease.key = JobKey(cur[p])
                   \/ pc[p] = "completeMissed" /\ pc'[p] = "exit" /\ lease.key = MissedKey(cur[p])

LEMMA RowMoves ==
    ASSUME TypeOK, NEW p \in Procs, Step(p)
    PROVE  Kept(p) \/ Deleted(p) \/ Renewed(p) \/ Done(p) \/ Taken(p) \/ TakenMissed(p)
<1> USE DEF Goto, history
<1>0. lease # NoLease => /\ lease \in [state : {"ACTIVE", "COMPLETED"}, owner : Procs, expires : Nat, key : Keys]
                         /\ \A r : r \in [state : {"ACTIVE", "COMPLETED"}, owner : Procs, expires : Nat, key : Keys] => r # NoLease
  BY DEF TypeOK, Leases, NoLease
<1>1. CASE Start(p) \/ ProbeMissed(p) \/ Probe(p) \/ HeartbeatFails(p) \/ CallbackReturns(p)
             \/ CompleteFails(p) \/ Exit(p) \/ Crash(p)
  BY <1>1 DEF Start, ProbeMissed, Probe, HeartbeatFails, CallbackReturns, CompleteFails, Exit, Crash, Kept
<1>2. CASE Reclaim(p) \/ Release(p)
  BY <1>2 DEF Reclaim, Release, Kept, Deleted, TypeOK
<1>3. CASE Acquire(p) \/ AcquireMissed(p)
  BY <1>3 DEF Acquire, AcquireMissed, Kept, Taken, TakenMissed
<1>4. CASE Complete(p)
  <2>1. CASE Owns(p, JobKey(cur[p]))
    <3>1. /\ lease # NoLease /\ lease.owner = p /\ lease.state = "ACTIVE" /\ lease.key = JobKey(cur[p])
          /\ lease' = [lease EXCEPT !.state = "COMPLETED", !.expires = cur[p]]
          /\ pc[p] = "complete" /\ pc'[p] = "stopping" /\ cur[p] \in Nat
      BY <1>4, <2>1 DEF Complete, Owns, Completed, TypeOK
    <3>2. lease' \in [state : {"ACTIVE", "COMPLETED"}, owner : Procs, expires : Nat, key : Keys]
          /\ lease'.owner = p /\ lease'.key = lease.key /\ lease'.state = "COMPLETED"
      BY <1>0, <3>1
    <3> QED BY <1>0, <3>1, <3>2 DEF Done, Updated
  <2> QED BY <1>4, <2>1 DEF Complete, Kept
<1>5. CASE CompleteMissed(p)
  <2>1. CASE Owns(p, MissedKey(cur[p]))
    <3>1. /\ lease # NoLease /\ lease.owner = p /\ lease.state = "ACTIVE" /\ lease.key = MissedKey(cur[p])
          /\ lease' = [lease EXCEPT !.state = "COMPLETED", !.expires = cur[p]]
          /\ pc[p] = "completeMissed" /\ pc'[p] = "exit" /\ cur[p] \in Nat
      BY <1>5, <2>1 DEF CompleteMissed, Owns, Completed, TypeOK
    <3>2. lease' \in [state : {"ACTIVE", "COMPLETED"}, owner : Procs, expires : Nat, key : Keys]
          /\ lease'.owner = p /\ lease'.key = lease.key /\ lease'.state = "COMPLETED"
      BY <1>0, <3>1
    <3> QED BY <1>0, <3>1, <3>2 DEF Done, Updated
  <2> QED BY <1>5, <2>1 DEF CompleteMissed, Kept
<1>6. CASE Heartbeat(p)
  <2>1. CASE lease # NoLease /\ lease.owner = p /\ lease.expires > now
    <3>1. /\ lease' = [lease EXCEPT !.expires = now + TTL]
          /\ InCallback(p) \/ pc[p] = "stopping"
          /\ now + TTL \in Nat
      BY <1>6, <2>1, LeaseAssumption DEF Heartbeat, TypeOK
    <3>2. lease' \in [state : {"ACTIVE", "COMPLETED"}, owner : Procs, expires : Nat, key : Keys]
          /\ lease'.owner = p /\ lease'.key = lease.key /\ lease'.state = lease.state /\ lease'.expires = now + TTL
      BY <1>0, <2>1, <3>1
    <3> QED BY <1>0, <2>1, <3>1, <3>2 DEF Renewed, Updated
  <2> QED BY <1>6, <2>1 DEF Heartbeat, Kept
<1> QED BY <1>1, <1>2, <1>3, <1>4, <1>5, <1>6 DEF Step

\* What an acquisition writes, and when.
LEMMA TakenIs ==
    ASSUME TypeOK, NEW p \in Procs
    PROVE  /\ Taken(p) => /\ lease' = Held(p, cur[p], JobKey(cur[p])) /\ pc[p] = "acquire" /\ pc'[p] = "running"
           /\ TakenMissed(p) => /\ lease' = Held(p, cur[p], MissedKey(cur[p])) /\ pc[p] = "acquireMissed"
                                /\ pc'[p] = "completeMissed"
           /\ \A k : Held(p, cur[p], k) # NoLease /\ Held(p, cur[p], k).owner = p /\ Held(p, cur[p], k).state = "ACTIVE"
                     /\ Held(p, cur[p], k).key = k /\ Held(p, cur[p], k).expires = cur[p] + TTL
BY DEF Taken, TakenMissed, Acquire, AcquireMissed, Held, NoLease, TypeOK, Goto

\* Who writes the row while late stays empty has the minute and the verdict of
\* the present, and a lease that is not expired.
LEMMA Prompt ==
    ASSUME TypeOK, NEW p \in Procs, late' = {}, Taken(p) \/ TakenMissed(p)
    PROVE  /\ Due(cur[p]) = Due(now) /\ JobKey(cur[p]) = JobKey(now)
           /\ IsMissed(cur[p]) = IsMissed(now)
           /\ now < cur[p] + TTL
<1>1. ~Outdated(p)
  BY DEF Taken, TakenMissed, Acquire, AcquireMissed
<1>2. now \in Nat /\ cur[p] + TTL \in Nat
  BY LeaseAssumption DEF TypeOK
<1>3. Due(cur[p]) = Due(now) /\ IsMissed(cur[p]) = IsMissed(now) /\ ~(now >= cur[p] + TTL)
  BY <1>1, Zenon DEF Outdated
<1>4. now < cur[p] + TTL
  BY <1>2, <1>3
<1> QED BY <1>3, <1>4 DEF JobKey

LEMMA RowStep ==
    ASSUME TypeOK, LagInv, NEW p \in Procs, Step(p)
    PROVE  RowOfOwner'
<1>1. now' = now /\ kind' = kind
  BY Frame
<1>2. cur[p] \in Nat /\ cur[p] <= now /\ now \in Nat /\ SlotDeadline \in Nat
  BY LeaseAssumption DEF TypeOK, LagInv, ClockCaptured
<1>3. lease # NoLease => lease.owner \in Procs /\ lease.key \in Keys
  BY DEF TypeOK, Leases, NoLease
<1>4. lease # NoLease =>
          /\ pc[lease.owner] \in {"running", "complete", "release", "stopping", "exit", "dead", "completeMissed"}
          /\ cur'[lease.owner] = cur[lease.owner]
  BY <1>3, Forward DEF LagInv, RowOfOwner, Keys
<1>5. CASE Kept(p)
  BY <1>1, <1>3, <1>4, <1>5, Forward DEF Kept, LagInv, RowOfOwner, Due
<1>6. CASE Deleted(p)
  BY <1>6 DEF Deleted, RowOfOwner
<1>7. CASE Renewed(p)
  BY <1>1, <1>3, <1>4, <1>7, Forward DEF Renewed, Updated, LagInv, RowOfOwner, Due
<1>8. CASE Done(p)
  BY <1>1, <1>3, <1>4, <1>8, Forward DEF Done, Updated, LagInv, RowOfOwner, Due
<1>9. CASE Taken(p)
  <2>1. cur'[p] = cur[p]
    BY <1>9, TakenIs, Forward
  <2>2. /\ lease'.owner = p /\ lease'.state = "ACTIVE" /\ pc'[p] = "running"
        /\ lease'.key = JobKey(cur[p])
    BY <1>9, TakenIs
  <2>3. ~lease'.key.missed /\ lease'.key.due = Due(cur[p])
    BY <2>2 DEF JobKey
  <2> QED BY <1>1, <2>1, <2>2, <2>3 DEF RowOfOwner, Due
<1>10. CASE TakenMissed(p)
  <2>1. cur'[p] = cur[p] /\ IsMissed(cur[p])
    BY <1>10, TakenIs, Forward DEF LagInv, Deeds
  <2>2. kind = "SLOT" /\ now > SlotDeadline
    BY <1>2, <2>1 DEF IsMissed
  <2> QED BY <1>1, <1>10, <2>1, <2>2, TakenIs DEF RowOfOwner, MissedKey, Due
<1> QED BY <1>5, <1>6, <1>7, <1>8, <1>9, <1>10, RowMoves

\* What was done before: only a callback that returns is completed, only a
\* process in its callback is killed, only a MISSED acquisition reports.
LEMMA Records ==
    ASSUME TypeOK, NEW p \in Procs, Step(p)
    PROVE  /\ \/ completed' = completed
              \/ /\ completed' = completed \cup {p} /\ Done(p)
                 /\ pc[p] = "complete" /\ lease'.key = JobKey(cur[p])
           /\ \A q \in Procs : (InCallback(q)' \/ q \in killed') => (InCallback(q) \/ q \in killed \/ (q = p /\ Taken(p)))
           /\ (missedBy' = missedBy \/ TakenMissed(p))
<1> USE DEF Goto, history
<1>0. \A r : r \in [state : {"ACTIVE", "COMPLETED"}, owner : Procs, expires : Nat, key : Keys] => r # NoLease
  BY DEF NoLease
<1>1. CASE Start(p) \/ ProbeMissed(p) \/ Probe(p) \/ Reclaim(p) \/ HeartbeatFails(p) \/ CallbackReturns(p)
             \/ CompleteFails(p) \/ Exit(p) \/ Crash(p) \/ Heartbeat(p) \/ Release(p) \/ CompleteMissed(p)
  BY <1>1 DEF Start, ProbeMissed, Probe, Reclaim, HeartbeatFails, CallbackReturns, CompleteFails, Exit, Crash, Heartbeat,
     Release, CompleteMissed, InCallback, TypeOK
<1>2. CASE Acquire(p)
  BY <1>2 DEF Acquire, Taken, InCallback, TypeOK
<1>3. CASE AcquireMissed(p)
  BY <1>3 DEF AcquireMissed, TakenMissed, InCallback, TypeOK
<1>4. CASE Complete(p)
  <2>1. \A q \in Procs : (InCallback(q)' \/ q \in killed') => (InCallback(q) \/ q \in killed)
    BY <1>4 DEF Complete, InCallback, TypeOK
  <2>2. CASE Owns(p, JobKey(cur[p]))
    <3>1. /\ lease # NoLease /\ lease.owner = p /\ lease.state = "ACTIVE" /\ lease.key = JobKey(cur[p])
          /\ lease' = [lease EXCEPT !.state = "COMPLETED", !.expires = cur[p]]
          /\ pc[p] = "complete" /\ pc'[p] = "stopping" /\ completed' = completed \cup {p} /\ missedBy' = missedBy
          /\ lease \in [state : {"ACTIVE", "COMPLETED"}, owner : Procs, expires : Nat, key : Keys]
      BY <1>4, <2>2 DEF Complete, Owns, Completed, TypeOK, Leases
    <3>2. lease' \in [state : {"ACTIVE", "COMPLETED"}, owner : Procs, expires : Nat, key : Keys]
          /\ lease'.owner = p /\ lease'.key = lease.key /\ lease'.state = "COMPLETED"
      BY <3>1 DEF TypeOK
    <3> QED BY <1>0, <2>1, <3>1, <3>2 DEF Done, Updated
  <2> QED BY <1>4, <2>1, <2>2 DEF Complete
<1> QED BY <1>1, <1>2, <1>3, <1>4 DEF Step

LEMMA CompletedStep ==
    ASSUME TypeOK, LagInv, late' = {}, NEW p \in Procs, Step(p)
    PROVE  CompletedRow'
<1>1. now' = now /\ kind' = kind
  BY Frame
<1>2. cur[p] \in Nat /\ cur[p] <= now /\ now \in Nat
  BY DEF TypeOK, LagInv, ClockCaptured
<1>3. SUFFICES ASSUME NEW q \in completed', Due(cur[q])' = Due(now)'
               PROVE  lease' # NoLease /\ lease'.state = "COMPLETED" /\ lease'.key = JobKey(now)'
  BY DEF CompletedRow
<1>4. JobKey(now)' = JobKey(now)
  BY <1>1 DEF JobKey, Due
<1>5. CASE q \notin completed
  <2>1. /\ q = p /\ Done(p) /\ pc[p] = "complete" /\ lease'.key = JobKey(cur[p])
    BY <1>3, <1>5, Records
  <2>2. cur'[p] = cur[p]
    BY <2>1, Forward
  <2>3. Due(cur[p]) = Due(now)
    BY <1>1, <1>3, <2>1, <2>2 DEF Due
  <2> QED BY <1>4, <2>1, <2>3 DEF Done, Updated, JobKey
<1>6. CASE q \in completed
  <2>1. q \in Procs /\ pc[q] \in {"stopping", "exit", "dead"}
    BY <1>6 DEF TypeOK, LagInv, Deeds
  <2>2. cur'[q] = cur[q]
    BY <2>1, Forward
  <2>3. Due(cur[q]) = Due(now)
    BY <1>1, <1>3, <2>2 DEF Due
  <2>4. lease # NoLease /\ lease.state = "COMPLETED" /\ lease.key = JobKey(now)
    BY <1>6, <2>3 DEF LagInv, CompletedRow
  <2>5. /\ lease.owner \in Procs /\ pc[lease.owner] \in {"stopping", "exit", "dead"}
        /\ Due(cur[lease.owner]) = Due(now) /\ ~lease.key.missed
    BY <2>4 DEF LagInv, RowOfOwner, JobKey, TypeOK, Leases
  <2>6. CASE Kept(p)
    BY <1>4, <2>4, <2>6 DEF Kept
  <2>7. ~Deleted(p)
    <3>1. pc[p] = "reclaim" => Due(cur[prev[p]]) < Due(cur[p])
      BY DEF LagInv, Deeds
    <3>2. Due(now) \in Nat /\ Due(cur[p]) \in Nat /\ Due(cur[p]) <= Due(now)
      BY <1>2, DueType, Minutes
    <3> QED BY <2>5, <3>1, <3>2 DEF Deleted
  <2>8. CASE Renewed(p)
    BY <1>4, <2>4, <2>8 DEF Renewed, Updated
  <2>9. ~Done(p)
    BY <2>4 DEF Done
  <2>10. ~Taken(p)
    <3>1. Taken(p) => Acquirable(cur[p], JobKey(now))
      BY Prompt DEF Taken
    <3> QED BY <2>4, <3>1 DEF Acquirable
  <2>11. ~TakenMissed(p)
    BY <2>4, <2>5, TakenIs DEF LagInv, Missing
  <2> QED BY <2>6, <2>7, <2>8, <2>9, <2>10, <2>11, RowMoves
<1> QED BY <1>5, <1>6

LEMMA MinuteStep ==
    ASSUME TypeOK, LagInv, Deeds', NEW p \in Procs, Step(p)
    PROVE  InMinute'
<1>1. now' = now /\ kind' = kind
  BY Frame
<1>2. cur[p] \in Nat /\ cur[p] <= now /\ now \in Nat
  BY DEF TypeOK, LagInv, ClockCaptured
<1>3. SUFFICES ASSUME kind = "MONITOR", NEW q \in Procs, (InCallback(q)' \/ q \in killed'), Due(cur[q])' = Due(now)'
               PROVE  lease' # NoLease /\ lease'.owner = q /\ lease'.state = "ACTIVE" /\ lease'.expires >= cur'[q] + TTL
  BY <1>1 DEF InMinute
<1>4. CASE q = p /\ Taken(p)
  <2>1. cur'[p] = cur[p]
    BY <1>4, TakenIs, Forward
  <2> QED BY <1>2, <1>4, <2>1, TakenIs, LeaseAssumption
<1>5. CASE ~(q = p /\ Taken(p))
  <2>1. InCallback(q) \/ q \in killed
    BY <1>3, <1>5, Records
  <2>2. pc[q] \in {"running", "complete", "release", "dead"}
    BY <2>1 DEF LagInv, Deeds, InCallback
  <2>3. cur'[q] = cur[q] /\ cur[q] \in Nat /\ cur[q] <= now
    BY <2>2, Forward DEF LagInv, ClockCaptured, TypeOK
  <2>4. Due(cur[q]) = Due(now)
    BY <1>1, <1>3, <2>3 DEF Due
  <2>5. lease # NoLease /\ lease.owner = q /\ lease.state = "ACTIVE" /\ lease.expires >= cur[q] + TTL
    BY <1>3, <2>1, <2>4 DEF LagInv, InMinute
  <2>6. now < cur[q] + TTL
    BY <1>2, <1>3, <2>3, <2>4, Minutes
  <2>7. lease.expires \in Nat /\ TTL \in Nat
    BY <2>5, LeaseAssumption DEF TypeOK, Leases, NoLease
  <2>8. CASE Kept(p)
    BY <2>3, <2>5, <2>8 DEF Kept
  <2>9. ~Deleted(p)
    <3>1. pc[p] = "reclaim" => Due(cur[prev[p]]) < Due(cur[p])
      BY DEF LagInv, Deeds
    <3>2. Due(now) \in Nat /\ Due(cur[p]) \in Nat /\ Due(cur[p]) <= Due(now)
      BY <1>2, DueType, Minutes
    <3>3. pc'[p] = "stopping" => p # q
      BY <1>3 DEF Deeds, InCallback
    <3> QED BY <2>4, <2>5, <3>1, <3>2, <3>3 DEF Deleted
  <2>10. CASE Renewed(p)
    BY <1>2, <2>3, <2>5, <2>7, <2>10 DEF Renewed, Updated
  <2>11. ~Done(p)
    BY <1>3, <2>5 DEF Done, Updated, Deeds, InCallback
  <2>12. ~Taken(p)
    <3>1. Taken(p) => Acquirable(cur[p], JobKey(cur[p]))
      BY DEF Taken
    <3>2. lease.expires > cur[p]
      BY <1>2, <2>3, <2>5, <2>6, <2>7
    <3> QED BY <2>5, <3>1, <3>2 DEF Acquirable
  <2>13. ~TakenMissed(p)
    BY <1>3, TakenIs DEF LagInv, Deeds, IsMissed
  <2> QED BY <2>8, <2>9, <2>10, <2>11, <2>12, <2>13, RowMoves
<1> QED BY <1>4, <1>5

\* A slot that has been completed, or reported, keeps a row that says so; who
\* may report it now finds the report of another, or nothing.
LEMMA MissingStep ==
    ASSUME TypeOK, LagInv, late' = {}, Deeds', NEW p \in Procs, Step(p)
    PROVE  Missing'
<1>1. now' = now /\ kind' = kind /\ now \in Nat /\ TTL \in Nat /\ TTL > 0 /\ SlotDeadline \in Nat
  BY Frame, LeaseAssumption DEF TypeOK
<1>2. SUFFICES ASSUME NEW q \in Procs, pc'[q] = "acquireMissed", lease' # NoLease
               PROVE  lease'.key.missed /\ (lease'.state = "ACTIVE" => lease'.expires > cur'[q])
  BY DEF Missing
<1>3. cur'[q] = cur[q] /\ cur[q] \in Nat /\ cur[q] <= now
  <2>1. Start(p) => pc'[p] # "acquireMissed"
    BY DEF Start, Goto, TypeOK
  <2>2. pc[q] # "new"
    BY <1>2, <2>1, Frame
  <2> QED BY <2>2, Frame DEF TypeOK, LagInv, ClockCaptured
<1>4. kind = "SLOT" /\ now > SlotDeadline
  <2>1. IsMissed(cur[q])'
    BY <1>2 DEF Deeds
  <2>2. kind = "SLOT" /\ cur[q] > SlotDeadline
    BY <1>1, <1>3, <2>1 DEF IsMissed
  <2> QED BY <1>1, <1>3, <2>2
<1>5. lease # NoLease => lease.key.missed /\ (lease.state = "ACTIVE" => lease.expires > cur[q])
  <2>1. CASE pc[q] = "acquireMissed"
    BY <2>1 DEF LagInv, Missing
  <2>2. CASE pc[q] # "acquireMissed"
    <3>1. q = p /\ ProbeMissed(p) /\ ~AlreadyReported(p)
      BY <1>2, <2>2, Frame DEF TypeOK, Goto, Step, Start, ProbeMissed, Probe, Reclaim, Acquire, AcquireMissed, CompleteMissed,
         Heartbeat, HeartbeatFails, CallbackReturns, Complete, CompleteFails, Release, Exit, Crash
    <3>2. lease = NoLease
      <4> SUFFICES ASSUME lease # NoLease PROVE FALSE
        OBVIOUS
      <4>1. lease.key \in Keys /\ lease.key.due = SlotDue
        BY <1>4 DEF TypeOK, Leases, NoLease, LagInv, RowOfOwner, Due
      <4>2. lease.key = [missed |-> FALSE, due |-> SlotDue] \/ lease.key = [missed |-> TRUE, due |-> SlotDue]
        BY <4>1 DEF Keys
      <4> QED BY <1>4, <3>1, <4>2 DEF AlreadyReported, JobKey, MissedKey, Due
    <3> QED BY <3>2
  <2> QED BY <2>1, <2>2
<1>6. CASE Kept(p)
  BY <1>2, <1>3, <1>5, <1>6 DEF Kept
<1>7. ~Deleted(p)
  BY <1>2 DEF Deleted
<1>8. CASE Renewed(p)
  BY <1>1, <1>3, <1>5, <1>8 DEF Renewed, Updated
<1>9. CASE Done(p)
  BY <1>5, <1>9 DEF Done, Updated
<1>10. ~Taken(p)
  <2>1. Taken(p) => ~IsMissed(cur[p]) /\ IsMissed(cur[p]) = IsMissed(now)
    BY Prompt, TakenIs DEF LagInv, Deeds
  <2> QED BY <1>4, <2>1 DEF IsMissed
<1>11. CASE TakenMissed(p)
  <2>1. now < cur[p] + TTL /\ cur[p] + TTL \in Nat
    BY <1>1, <1>11, Prompt DEF TypeOK
  <2>2. lease'.key = MissedKey(cur[p]) /\ lease'.expires = cur[p] + TTL
    BY <1>11, TakenIs
  <2> QED BY <1>1, <1>3, <2>1, <2>2 DEF MissedKey
<1> QED BY <1>6, <1>7, <1>8, <1>9, <1>10, <1>11, RowMoves

\* A MISSED report finds no row: a row that another process left for the slot
\* is a report that is in force or completed.
LEMMA ReportFindsNoRow ==
    ASSUME TypeOK, LagInv, NEW p \in Procs, TakenMissed(p)
    PROVE  kind = "SLOT" /\ now > SlotDeadline /\ lease = NoLease
<1>1. pc[p] = "acquireMissed" /\ IsMissed(cur[p]) /\ cur[p] <= now /\ cur[p] \in Nat /\ now \in Nat
  BY TakenIs DEF LagInv, ClockCaptured, Deeds, TypeOK
<1>2. kind = "SLOT" /\ now > SlotDeadline /\ Acquirable(cur[p], MissedKey(cur[p]))
  BY <1>1, LeaseAssumption DEF IsMissed, TakenMissed
<1>3. ASSUME lease # NoLease PROVE FALSE
  <2>1. lease.key.missed /\ (lease.state = "ACTIVE" => lease.expires > cur[p])
    BY <1>1, <1>3 DEF LagInv, Missing
  <2>2. lease.key \in Keys /\ lease.key.due = SlotDue /\ lease.state \in {"ACTIVE", "COMPLETED"}
    BY <1>2, <1>3 DEF TypeOK, Leases, NoLease, LagInv, RowOfOwner, Due
  <2>3. lease.key = MissedKey(cur[p])
    BY <1>2, <2>1, <2>2 DEF Keys, MissedKey, Due
  <2> QED BY <1>2, <1>3, <2>1, <2>2, <2>3 DEF Acquirable
<1> QED BY <1>2, <1>3

LEMMA MissedStep ==
    ASSUME TypeOK, LagInv, late' = {}, NEW p \in Procs, Step(p)
    PROVE  MissedRow'
<1>1. now' = now /\ kind' = kind
  BY Frame
<1>2. CASE TakenMissed(p)
  <2>1. lease' # NoLease /\ lease'.key = MissedKey(cur[p])
    BY <1>2, TakenIs
  <2> QED BY <1>1, <1>2, <2>1, ReportFindsNoRow DEF MissedRow, MissedKey
<1>3. CASE ~TakenMissed(p)
  <2>1. SUFFICES ASSUME missedBy # {}
                 PROVE  lease' # NoLease /\ lease'.key.missed /\ kind = "SLOT" /\ now > SlotDeadline
    BY <1>1, <1>3, Records DEF MissedRow
  <2>2. kind = "SLOT" /\ now > SlotDeadline /\ lease # NoLease /\ lease.key.missed
    BY <2>1 DEF LagInv, MissedRow
  <2>3. lease.owner \in Procs /\ pc[lease.owner] \in {"completeMissed", "exit", "dead"}
    BY <2>2 DEF LagInv, RowOfOwner, TypeOK, Leases
  <2>4. ~Deleted(p)
    BY <2>2, <2>3 DEF Deleted, LagInv, Deeds
  <2>5. ~Taken(p)
    <3>1. Taken(p) => ~IsMissed(cur[p]) /\ IsMissed(cur[p]) = IsMissed(now)
      BY Prompt, TakenIs DEF LagInv, Deeds
    <3> QED BY <2>2, <3>1 DEF IsMissed
  <2> QED BY <1>3, <2>2, <2>4, <2>5, RowMoves DEF Kept, Renewed, Done, Updated
<1> QED BY <1>2, <1>3

LEMMA LagStep ==
    ASSUME TypeOK, LagInv, late' = {}, [Next]_vars
    PROVE  LagInv'
<1>1. CASE Tick
  BY <1>1, LagTick
<1>2. ASSUME NEW p \in Procs, Step(p) PROVE LagInv'
  <2>1. ClockCaptured' /\ Deeds'
    BY <1>2, ClocksStep, DeedsStep DEF LagInv
  <2> QED BY <1>2, <2>1, RowStep, CompletedStep, MinuteStep, MissingStep, MissedStep DEF LagInv
<1>3. CASE UNCHANGED vars
  BY <1>3 DEF vars, LagInv, ClockCaptured, Deeds, IsMissed, Due, RowOfOwner, CompletedRow, JobKey, InMinute, InCallback,
     Missing, MissedRow
<1> QED BY <1>1, <1>2, <1>3 DEF Next

\* A process that wrote the row with an outdated clock is never forgotten.
LEMMA LateStays == ASSUME [Next]_vars PROVE late \subseteq late'
<1>1. ASSUME NEW p \in Procs, Step(p) PROVE late \subseteq late'
  BY <1>1 DEF Step, Start, ProbeMissed, Probe, Reclaim, Acquire, AcquireMissed, CompleteMissed, history,
     Heartbeat, HeartbeatFails, CallbackReturns, Complete, CompleteFails, Release, Exit, Crash
<1> QED BY <1>1 DEF Next, Tick, vars, history

PromptSoFar == late = {} => LagInv

LEMMA PromptAlways == Spec => [](TypeOK /\ PromptSoFar)
<1>1. Init => PromptSoFar
  BY LagInit DEF PromptSoFar
<1>2. TypeOK /\ PromptSoFar /\ [Next]_vars => PromptSoFar'
  BY LagStep, LateStays DEF PromptSoFar
<1> QED BY <1>1, <1>2, TypeCorrect, PTL DEF Spec

\* A start of the callback, as long as late stays empty, finds a row that it may
\* take in the present minute.
LEMMA NewRun ==
    ASSUME TypeOK, LagInv, [Next]_vars, late' = {}, NEW q \in ran' \ ran
    PROVE  /\ q \in Procs /\ Acquirable(cur[q], JobKey(now)) /\ cur' = cur
           /\ Due(cur[q]) = Due(now)
<1>1. PICK p \in Procs : Step(p)
  BY DEF Next, Tick, vars, history
<1>2. q = p /\ Taken(p)
  BY <1>1 DEF Step, Start, ProbeMissed, Probe, Reclaim, Acquire, AcquireMissed, CompleteMissed, history, Taken,
     Heartbeat, HeartbeatFails, CallbackReturns, Complete, CompleteFails, Release, Exit, Crash
<1> QED BY <1>1, <1>2, Prompt DEF Taken, Acquire

\* As long as no process has written the row with an outdated clock, a dispatch
\* whose success is in the row is not run again, whatever retries, reclaims, MISSED
\* reports and slow processes do (acquire_lease, complete_lease, dispatch_once).
THEOREM SuccessNotRepeated == Spec => SuccessIsFinal
<1>1. TypeOK /\ PromptSoFar /\ [Next]_vars => [late' = {} => SuccessRunsOnce]_vars
  <2> SUFFICES ASSUME TypeOK, PromptSoFar, [Next]_vars, late' = {},
                      NEW q \in ran' \ ran, NEW p \in completed, Due(cur[p]) = Due(cur[q])
               PROVE  FALSE
    BY DEF SuccessRunsOnce
  <2>1. LagInv
    BY LateStays DEF PromptSoFar
  <2>2. Acquirable(cur[q], JobKey(now)) /\ Due(cur[q]) = Due(now)
    BY <2>1, NewRun
  <2>3. lease # NoLease /\ lease.state = "COMPLETED" /\ lease.key = JobKey(now)
    BY <2>1, <2>2 DEF LagInv, CompletedRow
  <2> QED BY <2>2, <2>3 DEF Acquirable
<1> QED BY <1>1, PromptAlways, PTL DEF Spec, SuccessIsFinal

\* As long as no process has written the row with an outdated clock, the minute of
\* a monitor that was killed in its callback is not started again: its row
\* outlives the minute, and only a later minute may reclaim it (dispatch_once, the
\* lease of 90 seconds).
THEOREM KilledMinuteOver == Spec => KilledMinuteStaysKilled
<1>1. TypeOK /\ PromptSoFar /\ [Next]_vars => [late' = {} => KilledMinuteSkipped]_vars
  <2> SUFFICES ASSUME TypeOK, PromptSoFar, [Next]_vars, late' = {}, kind = "MONITOR",
                      NEW q \in ran' \ ran, NEW p \in killed, Due(cur[p]) = Due(cur[q])
               PROVE  FALSE
    BY DEF KilledMinuteSkipped
  <2>1. LagInv
    BY LateStays DEF PromptSoFar
  <2>2. Acquirable(cur[q], JobKey(now)) /\ Due(cur[q]) = Due(now)
    BY <2>1, NewRun
  <2>3. /\ p \in Procs /\ cur[p] \in Nat /\ now \in Nat /\ cur[p] <= now /\ TTL \in Nat
        /\ q \in Procs /\ cur[q] \in Nat /\ cur[q] <= now
    BY <2>1, NewRun, LeaseAssumption DEF TypeOK, LagInv, ClockCaptured
  <2>4. lease # NoLease /\ lease.state = "ACTIVE" /\ lease.expires >= cur[p] + TTL /\ lease.expires \in Nat
    BY <2>1, <2>2, <2>3 DEF LagInv, InMinute, TypeOK, Leases
  <2>5. now < cur[p] + TTL
    BY <2>2, <2>3, Minutes
  <2>6. lease.expires > cur[q]
    BY <2>3, <2>4, <2>5
  <2> QED BY <2>2, <2>4, <2>6 DEF Acquirable
<1> QED BY <1>1, PromptAlways, PTL DEF Spec, KilledMinuteStaysKilled

\* As long as no process has written the row with an outdated clock, a slot is
\* reported MISSED once at most, and not after one of its dispatches was completed
\* (dispatch_once).
THEOREM OneMissedReport == Spec => MissedIsFinal
<1>1. TypeOK /\ PromptSoFar /\ [Next]_vars => [late' = {} => MissedOnce]_vars
  <2> SUFFICES ASSUME TypeOK, PromptSoFar, [Next]_vars, late' = {}, NEW q \in missedBy' \ missedBy
               PROVE  missedBy = {} /\ completed = {}
    BY DEF MissedOnce
  <2>1. LagInv
    BY LateStays DEF PromptSoFar
  <2>2. PICK p \in Procs : Step(p)
    BY DEF Next, Tick, vars, history
  <2>3. TakenMissed(p)
    BY <2>2, Records
  <2>4. kind = "SLOT" /\ lease = NoLease
    BY <2>1, <2>3, ReportFindsNoRow
  <2>5. \A o \in completed : Due(cur[o]) = Due(now)
    BY <2>4 DEF Due
  <2> QED BY <2>1, <2>4, <2>5 DEF LagInv, MissedRow, CompletedRow
<1> QED BY <1>1, PromptAlways, PTL DEF Spec, MissedIsFinal
=============================================================================
