------------------------- MODULE WorkflowScheduler -------------------------
(***************************************************************************)
(* WorkflowScheduler of the Node control plane (server/scheduler.ts) over  *)
(* JobRunner.  Every callback of the event loop (a tick, a timer, the end  *)
(* of a child) is one step; the promise reactions it causes follow as      *)
(* steps of their own before the next callback (queue: calls of dispatch   *)
(* still to make, parked ticks whose awaited flight has ended, busy: BUSY  *)
(* answers whose .then has not run).                                       *)
(*                                                                         *)
(* Time counts the instants of a weekday at which the schedule differs;    *)
(* any number of ticks falls into one instant, and a child may live        *)
(* through any number of them.  Left out: Saturdays and Sundays, and the   *)
(* throttles on lastDispatch, which only delay a dispatch.                 *)
(***************************************************************************)
EXTENDS JobRunner

CONSTANTS
    DueRank,         \* [Jobs -> Nat]: the order in which tick dispatches what is due
    DueAt,           \* [Jobs -> instants of the day]
    DailyKey,        \* the fixed instant in the key of the jobs with one key a day
    OnBusy,          \* [Jobs -> "retryTimer", "nextTick" or "drop"]
    RetryWindow,     \* [Jobs -> instants]: withinRecoveryWindow
    Close, Outcomes, Eod, Integrity, Comparison,
    DayLength,       \* instants of a day
    GateFrom,        \* 06:50
    CloseFrom,       \* 15:10
    EodFrom,         \* 17:20
    MaxTime, MaxStarts

ASSUME SchedulerAssumption ==
    /\ {Close, Outcomes, Eod, Integrity, Comparison} \subseteq Jobs
    /\ Comparison \notin {Close, Outcomes, Eod, Integrity}
    /\ Eod \notin {Close, Outcomes, Integrity}
    /\ Integrity \notin {Close, Outcomes} /\ Close # Outcomes
    /\ DayLength \in Nat \ {0}
    /\ {GateFrom, CloseFrom, EodFrom} \subseteq 1..(DayLength - 1)
    /\ GateFrom <= CloseFrom /\ GateFrom <= EodFrom
    /\ {MaxTime, MaxStarts} \subseteq Nat
    /\ DailyKey \in [DOMAIN DailyKey -> 0..(DayLength - 1)]
    /\ None \notin Nat

Retried(j) == OnBusy[j] = "retryTimer"

\* The timetable of tick: a daily key names the first instant at which its job is
\* due; what is due before 06:50 is due once a day; the integrity job, team-eod and
\* the comparison are never due by the clock; a job with a retry timer is due once
\* a day, after midnight, and may be retried from then until its window ends.
ASSUME TimetableAssumption ==
    /\ DueAt \in [Jobs -> SUBSET (0..(DayLength - 1))]
    /\ \A j \in Jobs \cap DOMAIN DailyKey : \A p \in DueAt[j] : DailyKey[j] <= p
    /\ \A j \in Jobs : \A p \in DueAt[j] : p < GateFrom => DueAt[j] = {p}
    /\ \A j \in {Eod, Integrity, Comparison} : DueAt[j] = {} /\ ~Retried(j)
    /\ Retried(Outcomes) /\ Retried(Close)
    /\ \A j \in Jobs : Retried(j) => \E p, q \in 1..(DayLength - 1) :
          DueAt[j] \subseteq {p} /\ RetryWindow[j] = p..q

VARIABLES
    now, starts,
    running,
    dispatched, inFlight, retryKeys, retryTimers,
    parked,          \* the clocks of the ticks that await integrityFlight
    ready,           \* integrityReadyDate
    outcomesAfter, eodAfter, eodChecked,
    cmpInFlight, cmpPending, cmpTimer,
    queue, busy,
    handoff,         \* the days with a valid team-eod handoff file
    ran,             \* history: the keys this server has started
    owed             \* history: the follow-ups and retries still to be started

gateVars   == <<parked, ready>>
followVars == <<outcomesAfter, eodAfter, eodChecked>>
cmpVars    == <<cmpInFlight, cmpPending, cmpTimer>>
jobVars    == <<dispatched, inFlight, retryKeys, retryTimers>>
worldVars  == <<now, starts, handoff>>
vars == <<runnerVars, gateVars, followVars, cmpVars, jobVars, worldVars, running, queue, busy, ran, owed>>

Day(t)   == t \div DayLength
Point(t) == t % DayLength
Days     == 0..Day(MaxTime)
AfterClose == DayLength                        \* the suffix "Tafter-close"
DispatchKeys == Days \X (0..DayLength)
ASSUME KeysAssumption == Keys = DispatchKeys /\ None \notin Keys

KeyFor(j, t) == <<Day(t), IF j \in DOMAIN DailyKey THEN DailyKey[j] ELSE Point(t)>>

IntegrityKey(t) == <<Day(t), GateFrom>>
AfterCloseKey(d)  == <<d, AfterClose>>
Call(j, k) == [job |-> j, key |-> k]
ComparisonCall == Call(Comparison, <<0, 0>>)        \* it has no key

IntegrityPending == Integrity \in busy \/ \E i \in Ids : Pending(i) /\ run[i].job = Integrity
Resumable == parked # {} /\ ~IntegrityPending
\* No promise reaction is due: the event loop may take the next callback.
Idle == node # "down" /\ queue = {} /\ ~Resumable /\ busy = {}

Init ==
    /\ RunnerInit
    /\ now = 0 /\ starts = 0 /\ running = FALSE
    /\ dispatched = [j \in Jobs |-> None] /\ inFlight = {}
    /\ retryKeys = [j \in Jobs |-> None] /\ retryTimers = [j \in Jobs |-> None]
    /\ parked = {} /\ ready = None
    /\ outcomesAfter = None /\ eodAfter = None /\ eodChecked = None
    /\ cmpInFlight = FALSE /\ cmpPending = FALSE /\ cmpTimer = FALSE
    /\ queue = {} /\ busy = {} /\ handoff = {} /\ ran = {} /\ owed = {}

\* The server process starts: constructor, start, triggerComparison("startup").
Start ==
    /\ node = "down" /\ starts < MaxStarts
    /\ node' = "up" /\ starts' = starts + 1 /\ running' = TRUE
    /\ dispatched' = [j \in Jobs |-> None] /\ inFlight' = {}
    /\ retryKeys' = [j \in Jobs |-> None] /\ retryTimers' = [j \in Jobs |-> None]
    /\ parked' = {} /\ ready' = None
    /\ outcomesAfter' = None /\ eodAfter' = None /\ eodChecked' = None
    /\ cmpInFlight' = TRUE /\ cmpPending' = FALSE /\ cmpTimer' = FALSE
    /\ queue' = {ComparisonCall} /\ busy' = {}
    /\ ran' = {}
    /\ UNCHANGED <<slot, run, now, handoff, owed>>

\* The order inside one callback: what is due, then the follow-ups of the close.
Precedes(c, o) ==
    LET late(x) == x.key[2] = AfterClose
    IN  IF late(c) = late(o) THEN DueRank[c.job] <= DueRank[o.job] ELSE late(o)

\* dispatch, and the run of the comparison: take the slot or be answered BUSY.
Dispatch(c) ==
    LET j == c.job
        era == IF running THEN "served" ELSE "late"
    IN  /\ node # "down" /\ \A o \in queue : Precedes(c, o)
        /\ queue' = queue \ {c}
        /\ IF j = Comparison THEN UNCHANGED <<dispatched, inFlight>>
           ELSE dispatched' = [dispatched EXCEPT ![j] = c.key] /\ inFlight' = inFlight \cup {j}
        /\ \/ /\ SlotFree(j)
              /\ RunChild(j, c.key, era)
              /\ ran' = IF j = Comparison THEN ran ELSE ran \cup {c}
              /\ owed' = {o \in owed : o.job # j}
              /\ UNCHANGED busy
           \/ /\ ~SlotFree(j)
              /\ busy' = busy \cup {j}
              /\ UNCHANGED <<runnerVars, ran, owed>>
        /\ UNCHANGED <<worldVars, running, retryKeys, retryTimers, gateVars, followVars, cmpVars>>
DispatchNext == \E c \in queue : Dispatch(c)

\* The key was dispatched, or waits for its retry.
Asked(j, k) == k \in {dispatched[j], retryKeys[j]}

\* The part of tick behind the integrity gate, for a tick that read the clock at t.
TickBody(t) ==
    LET d == Day(t)
        due == {j \in Jobs : /\ Point(t) \in DueAt[j] /\ j \notin inFlight
                             /\ ~Asked(j, KeyFor(j, t))}
        recovers == Point(t) >= CloseFrom /\ eodChecked # d
        eod == IF recovers /\ d \in handoff THEN d ELSE eodAfter
        eodNow == eod = d /\ Point(t) >= EodFrom /\ Eod \notin inFlight
        outcomesNow == /\ outcomesAfter = d /\ Point(t) >= CloseFrom
                       /\ Outcomes \notin inFlight \cup due
                       /\ retryTimers[Outcomes] = None
    IN  /\ eodChecked' = IF recovers THEN d ELSE eodChecked
        /\ eodAfter' = IF eod # d \/ eodNow THEN None ELSE eod
        /\ outcomesAfter' = IF outcomesAfter # d \/ outcomesNow THEN None ELSE outcomesAfter
        /\ queue' = {Call(j, KeyFor(j, t)) : j \in due}
                     \cup (IF eodNow THEN {Call(Eod, AfterCloseKey(d))} ELSE {})
                     \cup (IF outcomesNow THEN {Call(Outcomes, AfterCloseKey(d))} ELSE {})

\* tick: from 06:50 on it waits for the integrity job of the day.
Tick ==
    /\ Idle /\ running
    /\ IF Point(now) < GateFrom
       THEN TickBody(now) /\ UNCHANGED parked
       ELSE /\ parked' = parked \cup {now}
            /\ queue' = IF dispatched[Integrity] # IntegrityKey(now) /\ Integrity \notin inFlight
                        THEN {Call(Integrity, IntegrityKey(now))} ELSE {}
            /\ UNCHANGED followVars
    /\ UNCHANGED <<runnerVars, worldVars, running, jobVars, ready, cmpVars, busy, ran, owed>>

\* A bug: a tick that has waited for the integrity job does not look at its result.
IntegrityOver(t) == Integrity \notin inFlight

IntegrityPassed(t) == Integrity \notin inFlight /\ ready = Day(t)

\* The awaited flight is over: the tick goes on with the clock it had read.
ResumeTick ==
    /\ node # "down" /\ queue = {} /\ Resumable
    /\ \E t \in parked :
          /\ \A u \in parked : t <= u
          /\ parked' = parked \ {t}
          /\ IF IntegrityPassed(t)
             THEN TickBody(t)
             ELSE UNCHANGED <<followVars, queue>>
    /\ UNCHANGED <<runnerVars, worldVars, running, jobVars, ready, cmpVars, busy, ran, owed>>

\* .then and .finally of a dispatch that was answered BUSY.
SettleBusy(j) ==
    LET k == dispatched[j]
        retry == OnBusy[j] = "retryTimer" /\ retryKeys[j] # k /\ retryTimers[j] = None
    IN  /\ node # "down" /\ queue = {} /\ ~Resumable /\ j \in busy \ {Comparison}
        /\ busy' = busy \ {j}
        /\ inFlight' = inFlight \ {j}
        /\ dispatched' = IF OnBusy[j] = "drop" THEN dispatched ELSE [dispatched EXCEPT ![j] = None]
        /\ retryKeys' = IF retry THEN [retryKeys EXCEPT ![j] = k] ELSE retryKeys
        /\ retryTimers' = IF retry THEN [retryTimers EXCEPT ![j] = k] ELSE retryTimers
        /\ eodAfter' = IF j = Eod /\ Day(now) = k[1] THEN k[1] ELSE eodAfter
        /\ owed' = IF OnBusy[j] = "retryTimer" THEN owed \cup {Call(j, k)} ELSE owed
        /\ UNCHANGED <<runnerVars, worldVars, running, gateVars, outcomesAfter, eodChecked, cmpVars, queue, ran>>

SettleBusyComparison ==
    /\ node # "down" /\ queue = {} /\ ~Resumable /\ Comparison \in busy
    /\ busy' = busy \ {Comparison}
    /\ cmpTimer' = TRUE /\ cmpInFlight' = FALSE
    /\ UNCHANGED <<runnerVars, worldVars, running, jobVars, gateVars, followVars, cmpPending, queue, ran, owed>>

\* A bug: a close that ends during a comparison does not leave a trace.
TriggerDropped(inFlightNow) ==
    IF inFlightNow
    THEN cmpPending' = cmpPending /\ cmpInFlight' = TRUE /\ queue' = {}
    ELSE cmpPending' = cmpPending /\ cmpInFlight' = TRUE /\ queue' = {ComparisonCall}

\* triggerComparison: remember the edge, or check for a committed request.
TriggerComparison(inFlightNow) ==
    IF inFlightNow
    THEN cmpPending' = TRUE /\ cmpInFlight' = TRUE /\ queue' = {}
    ELSE cmpPending' = cmpPending /\ cmpInFlight' = TRUE /\ queue' = {ComparisonCall}

\* The end of a comparison child: .finally of triggerComparison.
ComparisonEnds ==
    IF cmpPending /\ running /\ ~cmpTimer
    THEN cmpPending' = FALSE /\ cmpInFlight' = TRUE /\ queue' = {ComparisonCall}
    ELSE cmpInFlight' = FALSE /\ UNCHANGED <<cmpPending, queue>>

\* The close job succeeded: the two flags of the day (only on its own day) and
\* the comparison.
CloseSucceeded(d) ==
    LET sameDay == d = Day(now)
    IN  /\ outcomesAfter' = IF sameDay THEN d ELSE outcomesAfter
        /\ eodAfter' = IF sameDay THEN d ELSE eodAfter
        /\ handoff' = IF sameDay THEN handoff \cup {d} ELSE handoff
        /\ owed' = owed \cup {ComparisonCall}
                        \cup (IF sameDay THEN {Call(Outcomes, AfterCloseKey(d)), Call(Eod, AfterCloseKey(d))} ELSE {})
        /\ TriggerComparison(cmpInFlight)

\* finish, and the promise reactions of dispatch or triggerComparison behind it.
Finish(i, succeeded, survives) ==
    LET j == run[i].job
        d == run[i].key[1]
    IN  /\ Settle(i, survives)
        /\ inFlight' = inFlight \ {j}
        /\ ready' = IF j = Integrity /\ succeeded THEN d ELSE ready
        /\ \/ j = Close /\ succeeded /\ CloseSucceeded(d)
           \/ j = Comparison /\ ComparisonEnds /\ UNCHANGED <<outcomesAfter, eodAfter, handoff, owed>>
           \/ /\ j # Comparison /\ ~(j = Close /\ succeeded)
              /\ UNCHANGED <<outcomesAfter, eodAfter, handoff, owed, cmpInFlight, cmpPending, queue>>
        /\ UNCHANGED <<now, starts, running, dispatched, retryKeys, retryTimers, parked, eodChecked, cmpTimer, busy, ran>>

ChildCloses(i) == Idle /\ CanClose(i) /\ \E zero \in BOOLEAN : Finish(i, Succeeded(i, zero), FALSE)
HardFinish(i)  == Idle /\ CanHardFinish(i) /\ \E survives \in BOOLEAN : Finish(i, FALSE, survives)

WithinWindow(j, k) ==
    /\ Day(now) = k[1]
    /\ Point(now) \in IF k[2] = AfterClose THEN CloseFrom..(DayLength - 1) ELSE RetryWindow[j]

\* The timer of scheduleResearchRetry.
RetryFires(j) ==
    LET k == retryTimers[j]
        mine == retryKeys[j] = k
    IN  /\ Idle /\ k # None
        /\ retryTimers' = [retryTimers EXCEPT ![j] = None]
        /\ retryKeys' = IF mine THEN [retryKeys EXCEPT ![j] = None] ELSE retryKeys
        /\ queue' = IF mine /\ WithinWindow(j, k) THEN {Call(j, k)} ELSE {}
        /\ UNCHANGED <<runnerVars, worldVars, running, dispatched, inFlight, gateVars, followVars, cmpVars, busy, ran, owed>>

ComparisonRetryFires ==
    /\ Idle /\ cmpTimer
    /\ cmpTimer' = FALSE
    /\ TriggerComparison(cmpInFlight)
    /\ UNCHANGED <<runnerVars, worldVars, running, jobVars, gateVars, followVars, busy, ran, owed>>

\* SIGTERM to the server: scheduler.stop, then runner.stop.
Stop ==
    /\ Idle /\ StopChildren
    /\ running' = FALSE
    /\ retryTimers' = [j \in Jobs |-> None] /\ retryKeys' = [j \in Jobs |-> None] /\ inFlight' = {}
    /\ cmpTimer' = FALSE /\ cmpInFlight' = FALSE /\ cmpPending' = FALSE
    /\ outcomesAfter' = None /\ eodAfter' = None /\ eodChecked' = None /\ ready' = None
    /\ UNCHANGED <<worldVars, dispatched, parked, queue, busy, ran, owed>>

Gone ==
    /\ ServerGone
    /\ running' = FALSE
    /\ parked' = {} /\ queue' = {} /\ busy' = {} /\ ran' = {}
    /\ dispatched' = [j \in Jobs |-> None] /\ inFlight' = {}
    /\ retryKeys' = [j \in Jobs |-> None] /\ retryTimers' = [j \in Jobs |-> None]
    /\ ready' = None /\ outcomesAfter' = None /\ eodAfter' = None /\ eodChecked' = None
    /\ cmpInFlight' = FALSE /\ cmpPending' = FALSE /\ cmpTimer' = FALSE
    /\ owed' = {o \in owed : o.job = Eod}
    /\ UNCHANGED worldVars

\* stop has awaited its children: process.exit.
ExitServer == Idle /\ node = "stopping" /\ ChildrenStopped /\ Gone
\* The server process is killed between two callbacks or inside one.
CrashServer == node # "down" /\ Gone

\* Timers and exits that touch nothing but the run itself.
RunSteps(i) ==
    /\ StrayExits(i) \/ (node # "down" /\ (Timeout(i) \/ Escalate(i))) \/ StopEscalates(i)
    /\ UNCHANGED <<gateVars, followVars, cmpVars, jobVars, worldVars, running, queue, busy, ran, owed>>

\* A retry timer lasts five seconds and the integrity job ten minutes: neither of
\* one day lives through the first instant of the next.
NothingOverslept ==
    /\ \A t \in parked : Day(t) = Day(now)
    /\ \A j \in Jobs : retryTimers[j] # None => retryTimers[j][1] = Day(now)

AdvanceTime ==
    /\ (Idle /\ NothingOverslept) \/ node = "down"
    /\ now < MaxTime /\ now' = now + 1
    /\ UNCHANGED <<runnerVars, gateVars, followVars, cmpVars, jobVars, starts, handoff, running, queue, busy, ran, owed>>

Next ==
    \/ Start \/ DispatchNext \/ Tick \/ ResumeTick \/ SettleBusyComparison
    \/ ComparisonRetryFires \/ Stop \/ ExitServer \/ CrashServer \/ AdvanceTime
    \/ \E j \in Jobs : SettleBusy(j) \/ RetryFires(j)
    \/ \E i \in Ids : ChildCloses(i) \/ HardFinish(i) \/ RunSteps(i)

Spec == Init /\ [][Next]_vars

-----------------------------------------------------------------------------
TypeOK ==
    /\ slot \in [Slots -> Ids \cup {None}] /\ run \in [Ids -> RunRecord]
    /\ node \in {"up", "stopping", "down"} /\ running \in BOOLEAN
    /\ now \in 0..MaxTime /\ starts \in 0..MaxStarts
    /\ dispatched \in [Jobs -> DispatchKeys \cup {None}] /\ inFlight \subseteq Jobs
    /\ retryKeys \in [Jobs -> DispatchKeys \cup {None}]
    /\ retryTimers \in [Jobs -> DispatchKeys \cup {None}]
    /\ parked \subseteq 0..MaxTime /\ handoff \subseteq Days /\ busy \subseteq Jobs
    /\ {ready, outcomesAfter, eodAfter, eodChecked} \subseteq Days \cup {None}
    /\ {cmpInFlight, cmpPending, cmpTimer} \subseteq BOOLEAN
    /\ queue \subseteq [job: Jobs, key: DispatchKeys]
    /\ ran \subseteq [job: Jobs, key: DispatchKeys] /\ owed \subseteq [job: Jobs, key: DispatchKeys]

\* A slot is held by the run that took it, and only while one of its timers can
\* still give it back; a run that can still end holds its slot.
SlotsHeldByPending ==
    /\ \A s \in Slots : slot[s] # None => Pending(slot[s]) /\ SlotOf[run[slot[s]].job] = s
    /\ \A i \in Ids : Pending(i) => slot[SlotOf[run[i].job]] = i

\* The slots keep the commands apart: two live processes of one slot exist only
\* when one of them was sent SIGKILL, or belongs to a server that is gone.
OneProcessPerSlot ==
    \A a, b \in Ids :
        /\ a # b /\ Exists(a) /\ Exists(b)
        /\ SlotOf[run[a].job] = SlotOf[run[b].job]
        => \E i \in {a, b} : run[i].signal = "SIGKILL" \/ run[i].timer = "gone"

Starts(c) == c \in ran' \ ran

\* From 06:50 on no scheduled job of a day is started before the integrity job of
\* that day has succeeded in this server, whatever was parked, retried or stopped.
NothingBeforeIntegrity ==
    [][\A c \in ran' : /\ Starts(c) /\ c.job \notin {Integrity, Comparison}
                       /\ c.key[2] >= GateFrom
                       => ready = c.key[1]]_vars

\* A server starts a job at most once for a dispatch key.  The two follow-ups of
\* the close are excepted: outcomes after the close replaces the key of 16:10, and
\* team-eod follows every success of close.
StartedOncePerKey ==
    [][\A i \in Ids : ~Exists(i) /\ Exists(i)' /\ run'[i].job \notin {Outcomes, Eod, Comparison}
            => Call(run'[i].job, run'[i].key) \notin ran]_vars

\* What a tick, a retry timer or a follow-up may start: nothing twice, and
\* nothing before the integrity job (tick, dispatch).
StartRules == StartedOncePerKey /\ NothingBeforeIntegrity

\* A follow-up of a close, a team-eod of a handed-off day and a research job that
\* found its slot taken are not forgotten: while the scheduler runs and the window
\* is open, some flag, timer or reaction will start what is owed.
Lapsed(o) == IF o.job \in {Comparison} THEN FALSE ELSE ~WithinWindow(o.job, o.key)
WillStart(o) ==
    \/ \E c \in queue : c.job = o.job
    \/ o.job \in busy
    \/ retryTimers[o.job] # None
    \/ o.job = Comparison /\ (cmpTimer \/ (cmpPending /\ cmpInFlight))
    \/ o.job = Outcomes /\ outcomesAfter = Day(now)
    \/ o.job = Eod /\ (eodAfter = Day(now) \/ eodChecked # Day(now))
NothingForgotten == running => \A o \in owed : Lapsed(o) \/ WillStart(o)

\* After an orderly exit of the server only a child that survived SIGKILL, or one
\* that was started after the scheduler had stopped, is still alive.
OrderlyExitLeavesNone ==
    [][node = "stopping" /\ ExitServer
        => \A i \in Ids : Exists(i)' /\ run[i].timer # "gone"
             => run[i].signal = "SIGKILL" \/ run[i].era = "late"]_vars
=============================================================================
