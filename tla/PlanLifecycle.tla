--------------------------- MODULE PlanLifecycle ---------------------------
(***************************************************************************)
(* The execution plans of one lane (runtime/state.py) and the processes    *)
(* that publish, review, activate, replace and terminate them (workflow.py,*)
(* runtime/close_regeneration.py, runtime/reviewed_batch_*.py, monitor.py).*)
(*                                                                         *)
(* A run publishes its plans for one target day.  Every writer reads the   *)
(* plans, spends minutes on quotes or model calls, and then writes in one  *)
(* transaction (BEGIN IMMEDIATE); what it read may be stale by then, and   *)
(* it may die in between (Abandon).                                        *)
(*                                                                         *)
(* A day has five ticks:                                                   *)
(*   0 before 09:26   1 09:26-09:31   2 09:32-09:40   3 until 15:00        *)
(*   4 after the close at 15:10                                            *)
(***************************************************************************)
EXTENDS Naturals, FiniteSets

CONSTANTS
    Plans,     \* plan identities
    Runs,      \* research runs
    RunOf,     \* [Plans -> Runs]: payload.source_run_id
    Kind,      \* [Runs -> RunKinds]: how a run publishes
    Target,    \* [Runs -> Nat]: the session a run's plans are for
    Source,    \* [Runs -> Runs]: the run that a regeneration replaces
    NoRun,     \* no run
    FirstTick, \* the tick at which the history starts
    MaxNow     \* bound: the last tick explored

RunKinds == {"close", "sameDay", "regen", "candidate", "empty"}

ASSUME PlanAssumption ==
    /\ RunOf \in [Plans -> Runs]
    /\ Kind \in [Runs -> RunKinds]
    /\ Target \in [Runs -> Nat \ {0}]
    /\ Source \in [Runs -> Runs]
    /\ \A r \in Runs : Kind[r] = "regen" => Target[Source[r]] = Target[r]
    /\ NoRun \notin Runs
    /\ FirstTick \in Nat \ {0} /\ MaxNow \in Nat

VARIABLES
    now,          \* the wall clock
    status,       \* execution_plans.status, "NONE" before the row exists
    validFrom,    \* execution_plans.valid_from, 0 when NULL
    expiry,       \* the day of execution_plans.expires_at, which is at 15:00
    supersededBy, \* plan_supersessions: the superseding run
    events,       \* monitor_events: plans with an effective PLAN_INVALIDATED
    regenOld,     \* old_plan_ids of a bound regeneration, {} when not bound
    cand,         \* natural_review_candidates by run
    head,         \* natural_review_candidate_head by day
    staged,       \* reviewed_batch_bundles: candidate revision of the bundle
    pointer,      \* active_reviewed_batch_scope by day
    review,       \* the morning review process
    recovery,     \* the monitor's and the operator's recovery process
    switch,       \* the process that switches a reviewed batch in
    scope         \* plans the monitor read as active

rows    == <<status, validFrom, expiry, supersededBy>>
reviews == <<cand, head, staged, pointer>>
procs   == <<review, recovery, switch, scope, regenOld>>
vars == <<now, rows, events, reviews, procs>>

-----------------------------------------------------------------------------
Day(t)   == t \div 5
Phase(t) == t % 5
Opening(t)    == 5 * Day(t) + 2       \* 09:32 of the day of t
SessionEnd(d) == 5 * d + 3            \* 15:00 of day d, _plan_expiry

Days       == {Target[r] : r \in Runs}
Expiry(p)  == SessionEnd(expiry[p])
PlansOf(r) == {p \in Plans : RunOf[p] = r}

Pending == {p \in Plans : status[p] = "PENDING"}
Active  == {p \in Plans : status[p] = "ACTIVE"}
Live(d) == {p \in Pending \cup Active : expiry[p] = d}
LiveRows(d) == {<<p, status[p], validFrom[p]>> : p \in Live(d)}

\* activation_reason for a plan that expires on day d.
ActivationOk(d, at) == at <= SessionEnd(d) /\ Day(at) = d

\* A bug: the morning contract accepts every source run.
AnySource(p) == RunOf[p] \in Runs

\* The morning contract: only plans of the previous session's close.
SourceProven(p) == Kind[RunOf[p]] # "sameDay"

\* list_active_plans at time t.
ListActive(t) == {p \in Active : validFrom[p] <= t /\ t <= Expiry(p)}

Later(s, t) == IF s > t THEN s ELSE t

\* The status of a newly published row.
Inserted == "PENDING"

\* A bug: a publication forgets the pending plans of the older batch.
RetiredForgotten(p, formal) ==
    IF formal /\ status[p] = "ACTIVE" THEN "EXPIRED" ELSE status[p]

\* What publish_plan_batch does to a plan that is not in the batch: the formal
\* close expires the active ones, a complete result invalidates the pending.
Retired(p, formal) ==
    IF formal /\ status[p] = "ACTIVE" THEN "EXPIRED"
    ELSE IF status[p] = "PENDING" THEN "INVALIDATED"
    ELSE status[p]

\* A bug: publishing a plan again brings it back.
RepublishedAnew(p, formal) == IF status[p] = "ACTIVE" /\ formal THEN "EXPIRED" ELSE Inserted

\* A row that exists is kept, except that an ACTIVE one is not spared by the
\* formal close.
Republished(p, formal) ==
    IF status[p] = "NONE" THEN Inserted
    ELSE IF formal /\ status[p] = "ACTIVE" THEN "EXPIRED"
    ELSE status[p]

Idle == [pc |-> "idle", at |-> 0, ids |-> {}, run |-> NoRun, runs |-> {}]
NoSwitch == [pc |-> "idle", run |-> NoRun, rev |-> 0, wall |-> 0]
NoCandidate == [state |-> "NONE", old |-> {}, ptr |-> 0]
Nothing == [run |-> NoRun, rev |-> 0]

-----------------------------------------------------------------------------
Init ==
    /\ now = FirstTick
    /\ status = [p \in Plans |-> "NONE"]
    /\ validFrom = [p \in Plans |-> 0]
    /\ expiry = [p \in Plans |-> Target[RunOf[p]]]
    /\ supersededBy = [p \in Plans |-> NoRun]
    /\ events = {}
    /\ regenOld = [r \in Runs |-> {}]
    /\ cand = [r \in Runs |-> NoCandidate]
    /\ head = [d \in Days |-> Nothing]
    /\ staged = [r \in Runs |-> 0]
    /\ pointer = [d \in Days |-> Nothing]
    /\ review = Idle
    /\ recovery = [a \in {"monitor", "operator"} |-> Idle]
    /\ switch = NoSwitch
    /\ scope = {}

-----------------------------------------------------------------------------
(* Publication.                                                            *)

\* From the close of the previous session until the publication deadline (06:30
\* or 09:15) of the target's morning, which is enforced to the minute.
ClosedSession(r) ==
    \/ Day(now) + 1 = Target[r] /\ Phase(now) = 4
    \/ Day(now) = Target[r] /\ Phase(now) = 0

\* The close publication.  formal is computed from the clock the run captured
\* when it started, so a run that ends after midnight may still be formal.
PublishClose(r) ==
    /\ Kind[r] = "close" /\ ClosedSession(r)
    /\ \E formal \in (IF Phase(now) = 4 THEN {TRUE} ELSE BOOLEAN) :
         status' = [p \in Plans |-> IF p \in PlansOf(r) THEN Republished(p, formal)
                                                        ELSE Retired(p, formal)]
    /\ UNCHANGED <<now, validFrom, expiry, supersededBy, events, reviews, procs>>

\* The same-day recovery.  Only its as-of time is before 09:26: the
\* publication itself may happen at any time of the day.
PublishSameDay(r) ==
    /\ Kind[r] = "sameDay" /\ Day(now) = Target[r]
    /\ status' = [p \in Plans |-> IF p \in PlansOf(r) THEN Republished(p, FALSE)
                                                      ELSE Retired(p, FALSE)]
    /\ UNCHANGED <<now, validFrom, expiry, supersededBy, events, reviews, procs>>

\* bind_close_regeneration: the pending plans are exactly the source run's.
BindRegeneration(r) ==
    /\ Kind[r] = "regen" /\ ClosedSession(r) /\ regenOld[r] = {}
    /\ Pending # {} /\ Pending = PlansOf(Source[r])
    /\ regenOld' = [regenOld EXCEPT ![r] = Pending]
    /\ UNCHANGED <<now, rows, events, reviews, review, recovery, switch, scope>>

\* REGEN_PENDING_SCOPE_CHANGED otherwise.
RegenScopeHolds(r) == regenOld[r] # {} /\ Pending \ PlansOf(r) = regenOld[r]

\* publish_plan_batch with supersede_pending_plan_ids; an empty batch keeps
\* the old plans.
PublishRegeneration(r) ==
    /\ Kind[r] = "regen" /\ ClosedSession(r)
    /\ RegenScopeHolds(r) /\ PlansOf(r) # {}
    /\ supersededBy' = [p \in Plans |-> IF p \in regenOld[r] THEN r ELSE supersededBy[p]]
    /\ status' = [p \in Plans |->
         IF p \in PlansOf(r) THEN Republished(p, FALSE)
         ELSE IF p \in regenOld[r] \cap Pending THEN "SUPERSEDED"
         ELSE status[p]]
    /\ regenOld' = [regenOld EXCEPT ![r] = {}]
    /\ UNCHANGED <<now, validFrom, expiry, events, reviews, review, recovery, switch, scope>>

-----------------------------------------------------------------------------
(* The reviewed batch switch.                                              *)

\* stage_natural_candidate: an inert candidate with the rows and the pointer
\* revision it means to replace.  Staging the same body again is allowed.
StageCandidate(r) ==
    LET d    == Target[r]
        body == [state |-> "PENDING", old |-> LiveRows(d), ptr |-> pointer[d].rev]
    IN  /\ Kind[r] = "candidate" /\ ClosedSession(r) /\ PlansOf(r) # {}
        /\ cand[r] = NoCandidate \/ [cand[r] EXCEPT !.state = "PENDING"] = body
        /\ cand' = [cand EXCEPT ![r] = IF cand[r] = NoCandidate THEN body ELSE cand[r]]
        /\ head' = IF head[d].run = r THEN head
                   ELSE [head EXCEPT ![d] = [run |-> r, rev |-> head[d].rev + 1]]
        /\ UNCHANGED <<now, rows, events, staged, pointer, procs>>

\* stage_formal_empty: never over plans, a pointer or another candidate.
StageEmpty(r) ==
    LET d == Target[r]
    IN  /\ Kind[r] = "empty" /\ ClosedSession(r)
        /\ Live(d) = {} /\ pointer[d] = Nothing /\ head[d].run \in {NoRun, r}
        /\ cand' = [cand EXCEPT ![r] = [NoCandidate EXCEPT !.state = "EMPTY"]]
        /\ head' = IF head[d].run = r THEN head
                   ELSE [head EXCEPT ![d] = [run |-> r, rev |-> 1]]
        /\ UNCHANGED <<now, rows, events, staged, pointer, procs>>

\* read_natural_candidate; an EMPTY candidate cannot be switched in.
ReadCandidate(d) ==
    /\ switch = NoSwitch /\ Day(now) = d /\ Phase(now) = 0
    /\ head[d].run # NoRun /\ cand[head[d].run].state # "EMPTY"
    /\ switch' = [NoSwitch EXCEPT !.pc = "review", !.run = head[d].run, !.rev = head[d].rev]
    /\ UNCHANGED <<now, rows, events, reviews, review, recovery, scope, regenOld>>

\* After the models' review: stage_reviewed_batch, whose bundle is immutable,
\* then commit_reviewed_batch_switch reads the clock and waits for the lock.
StageBundle ==
    /\ switch.pc = "review"
    /\ staged[switch.run] \in {0, switch.rev}
    /\ staged' = [staged EXCEPT ![switch.run] = switch.rev]
    /\ switch' = [switch EXCEPT !.pc = "commit", !.wall = now]
    /\ UNCHANGED <<now, rows, events, cand, head, pointer, review, recovery, scope, regenOld>>

OldPlans(r) == {row[1] : row \in cand[r].old}

\* A bug: only the staged rows are compared, not the plans beside them.
OldScopeListed(r) == cand[r].old \subseteq LiveRows(Target[r])

\* REVIEWED_BATCH_OLD_SCOPE_CAS_FAILED otherwise: the staged rows are still
\* live and unchanged, of one run, complete, and nothing else is pending.
OldScopeHolds(r) ==
    LET old  == OldPlans(r)
        runs == {RunOf[p] : p \in old}
    IN  /\ cand[r].old \subseteq LiveRows(Target[r])
        /\ Cardinality(runs) <= 1
        /\ old = {p \in Live(Target[r]) : runs = {} \/ RunOf[p] \in runs}
        /\ Live(Target[r]) \cap Pending \subseteq old

SwitchAllowed(r) ==
    LET d == Target[r]
    IN  /\ Day(switch.wall) = d /\ Phase(switch.wall) = 0
        /\ pointer[d].run # r
        /\ head[d] = [run |-> r, rev |-> staged[r]] /\ cand[r].state = "PENDING"
        /\ pointer[d].rev = cand[r].ptr
        /\ OldScopeHolds(r)
        /\ \A p \in PlansOf(r) : status[p] = "NONE"

\* The compare-and-swap: all of it or nothing.  The write lock is waited for at
\* most 15 s (RuntimeStore._connect), which is less than a tick.
CommitSwitch ==
    LET r == switch.run
        d == Target[r]
    IN  /\ switch.pc = "commit" /\ now <= switch.wall + 1
        /\ switch' = NoSwitch
        /\ IF SwitchAllowed(r)
           THEN /\ status' = [p \in Plans |->
                     IF p \in PlansOf(r) THEN Inserted
                     ELSE IF p \in OldPlans(r) THEN "SUPERSEDED"
                     ELSE status[p]]
                /\ supersededBy' = [p \in Plans |-> IF p \in OldPlans(r) THEN r ELSE supersededBy[p]]
                /\ pointer' = [pointer EXCEPT ![d] = [run |-> r, rev |-> pointer[d].rev + 1]]
                /\ cand' = [cand EXCEPT ![r].state = "SWITCHED"]
           ELSE UNCHANGED <<status, supersededBy, pointer, cand>>
        /\ UNCHANGED <<now, validFrom, expiry, events, head, staged, review, recovery, scope, regenOld>>

-----------------------------------------------------------------------------
(* The morning review, 09:26 to 09:40.                                     *)

ReviewRead ==
    /\ review = Idle /\ Phase(now) \in {1, 2}
    /\ review' = [Idle EXCEPT !.pc = "review", !.at = now, !.ids = Pending]
    /\ UNCHANGED <<now, rows, events, reviews, recovery, switch, scope, regenOld>>

ReviewTime == Later(review.at, Opening(review.at))

\* invalidate_plan(EXPIRED), one transaction a plan: a plan that somebody else
\* terminated meanwhile ends the review with an exception.
ReviewExpire(p) ==
    /\ review.pc = "review" /\ p \in review.ids /\ ReviewTime > Expiry(p)
    /\ IF status[p] \in {"PENDING", "ACTIVE", "EXPIRED"}
       THEN /\ status' = [status EXCEPT ![p] = "EXPIRED"]
            /\ review' = [review EXCEPT !.ids = @ \ {p}]
       ELSE review' = Idle /\ UNCHANGED status
    /\ UNCHANGED <<now, validFrom, expiry, supersededBy, events, reviews, recovery, switch, scope, regenOld>>

\* A bug: activate_pending_plan_batch trusts what the review read.
ReviewTrusted(ids) == ids \subseteq Plans

\* PLAN_NOT_PENDING_MORNING_REVIEW otherwise.
AllPending(ids) == ids \subseteq Pending

Activated(act, inv, at) ==
    /\ status' = [p \in Plans |-> IF p \in act THEN "ACTIVE"
                                  ELSE IF p \in inv THEN "INVALIDATED" ELSE status[p]]
    /\ validFrom' = [p \in Plans |-> IF p \in act THEN at ELSE validFrom[p]]

\* activate_pending_plan_batch.  The quotes decide which plans are activated,
\* which are invalidated and which (no quote) stay pending.
ReviewActivate ==
    /\ review.pc = "review"
    /\ \A p \in review.ids : ReviewTime <= Expiry(p)
    /\ LET eligible == {p \in review.ids : ActivationOk(expiry[p], ReviewTime) /\ SourceProven(p)}
       IN  \E act \in SUBSET eligible : \E inv \in SUBSET (eligible \ act) :
             IF AllPending(act \cup inv)
             THEN Activated(act, inv, ReviewTime)
             ELSE UNCHANGED <<status, validFrom>>
    /\ review' = Idle
    /\ UNCHANGED <<now, expiry, supersededBy, events, reviews, recovery, switch, scope, regenOld>>

-----------------------------------------------------------------------------
(* Recovery of a missed review: by every monitor round until 09:40, or by  *)
(* the operator until 14:50.                                               *)

Window(a) == IF a = "monitor" THEN {1, 2} ELSE {1, 2, 3}

\* The monitor first reads which runs have active plans now.
RecoverStart(a) ==
    /\ recovery[a] = Idle /\ Phase(now) \in Window(a)
    /\ recovery' = [recovery EXCEPT ![a] =
         [pc |-> "read", at |-> now, ids |-> {}, run |-> NoRun,
          runs |-> IF a = "monitor" THEN {RunOf[p] : p \in ListActive(now)} ELSE {}]]
    /\ UNCHANGED <<now, rows, events, reviews, review, switch, scope, regenOld>>

\* Then the pending plans: the monitor's of today and, if some run is active,
\* of such a run, the operator's of any unexpired session.  The plans of one
\* source run are taken.
RecoverRead(a) ==
    LET at == recovery[a].at
        found == {p \in Pending :
                    /\ Expiry(p) >= at
                    /\ a = "monitor" =>
                         /\ expiry[p] = Day(at)
                         /\ recovery[a].runs = {} \/ RunOf[p] \in recovery[a].runs}
    IN  /\ recovery[a].pc = "read"
        /\ \/ /\ found = {}
              /\ recovery' = [recovery EXCEPT ![a] = Idle]
           \/ \E r \in {RunOf[p] : p \in found} :
                recovery' = [recovery EXCEPT ![a].pc = "activate", ![a].run = r,
                  ![a].ids = {p \in found : RunOf[p] = r /\ (a = "monitor" => SourceProven(p))}]
        /\ UNCHANGED <<now, rows, events, reviews, review, switch, scope, regenOld>>

RecoveryTime(a) == IF a = "monitor" THEN Later(recovery[a].at, Opening(recovery[a].at))
                                    ELSE recovery[a].at

\* A bug: the shortened horizon is used for the check and not stored.
HorizonKept(a, p, at) == expiry[p]

\* The operator's recovery shortens a later horizon to the current session.
Horizon(a, p, at) == IF a = "operator" /\ Day(at) <= expiry[p] THEN Day(at) ELSE expiry[p]

\* activate_latest_a3_plan_batch accepts a plan that already is what is asked.
LatestAccepts(a, act, inv, at) ==
    /\ act \subseteq Pending \cup Active
    /\ inv \subseteq Pending \cup {p \in Plans : status[p] = "INVALIDATED"}
    /\ \A p \in act \cup (inv \cap Pending) : at <= Expiry(p)
    /\ \A p \in act : Day(at) <= expiry[p] /\ (a = "monitor" => ActivationOk(expiry[p], at))

RecoverActivate(a) ==
    LET at == RecoveryTime(a)
    IN  /\ recovery[a].pc = "activate"
        /\ \E act \in SUBSET recovery[a].ids : \E inv \in SUBSET (recovery[a].ids \ act) :
             IF LatestAccepts(a, act, inv, at)
             THEN /\ Activated(act \cap Pending, inv \cap Pending, at)
                  /\ expiry' = [p \in Plans |-> IF p \in act \cap Pending THEN Horizon(a, p, at)
                                                ELSE expiry[p]]
             ELSE UNCHANGED <<status, validFrom, expiry>>
        /\ recovery' = [recovery EXCEPT ![a] = Idle]
        /\ UNCHANGED <<now, supersededBy, events, reviews, review, switch, scope, regenOld>>

-----------------------------------------------------------------------------
(* The monitor.                                                            *)

MonitorRead ==
    /\ Phase(now) \in {1, 2, 3}
    /\ scope' = ListActive(now)
    /\ UNCHANGED <<now, rows, events, reviews, review, recovery, switch, regenOld>>

\* TERMINAL_PLAN_STATE_CONFLICT otherwise.
Terminable(p) == status[p] \in {"PENDING", "ACTIVE", "INVALIDATED"}

\* record_monitor_event with a terminal plan: the event and the plan's end in
\* one transaction; a replay of the event ends the plan again.
RecordInvalidation(p) ==
    /\ p \in scope
    /\ Terminable(p)
    /\ events' = events \cup {p}
    /\ status' = IF status[p] \in {"PENDING", "ACTIVE"}
                 THEN [status EXCEPT ![p] = "INVALIDATED"] ELSE status
    /\ UNCHANGED <<now, validFrom, expiry, supersededBy, reviews, procs>>

-----------------------------------------------------------------------------
\* A process is killed, times out or gives up before its transaction.
Abandon ==
    /\ \/ review # Idle /\ review' = Idle /\ UNCHANGED <<recovery, switch, scope, regenOld>>
       \/ /\ \E a \in DOMAIN recovery :
               recovery[a] # Idle /\ recovery' = [recovery EXCEPT ![a] = Idle]
          /\ UNCHANGED <<review, switch, scope, regenOld>>
       \/ switch # NoSwitch /\ switch' = NoSwitch /\ UNCHANGED <<review, recovery, scope, regenOld>>
       \/ /\ \E r \in Runs : regenOld[r] # {} /\ regenOld' = [regenOld EXCEPT ![r] = {}]
          /\ UNCHANGED <<review, recovery, switch, scope>>
    /\ UNCHANGED <<now, rows, events, reviews>>

Tick == now < MaxNow /\ now' = now + 1 /\ UNCHANGED <<rows, events, reviews, procs>>

Publish(r) ==
    \/ PublishClose(r) \/ PublishSameDay(r) \/ BindRegeneration(r) \/ PublishRegeneration(r)
    \/ StageCandidate(r) \/ StageEmpty(r)

Next ==
    \/ \E r \in Runs : Publish(r)
    \/ \E d \in Days : ReadCandidate(d)
    \/ StageBundle \/ CommitSwitch
    \/ ReviewRead \/ ReviewActivate \/ \E p \in Plans : ReviewExpire(p)
    \/ \E a \in {"monitor", "operator"} : RecoverStart(a) \/ RecoverRead(a) \/ RecoverActivate(a)
    \/ MonitorRead \/ \E p \in Plans : RecordInvalidation(p)
    \/ Abandon \/ Tick

Spec == Init /\ [][Next]_vars

-----------------------------------------------------------------------------
Statuses == {"NONE", "PENDING", "ACTIVE", "INVALIDATED", "EXPIRED", "SUPERSEDED"}
AnyRun   == Runs \cup {NoRun}
Process  == [pc : {"idle", "review", "read", "activate"}, at : Nat, ids : SUBSET Plans,
             run : AnyRun, runs : SUBSET Runs]
Revision == [run : AnyRun, rev : Nat]

\* Every variable has its type.
TypeOK ==
    /\ now \in Nat
    /\ status \in [Plans -> Statuses]
    /\ validFrom \in [Plans -> Nat]
    /\ expiry \in [Plans -> Nat]
    /\ supersededBy \in [Plans -> AnyRun]
    /\ events \subseteq Plans
    /\ regenOld \in [Runs -> SUBSET Plans]
    /\ cand \in [Runs -> [state : {"NONE", "PENDING", "SWITCHED", "EMPTY"},
                          old : SUBSET (Plans \X Statuses \X Nat), ptr : Nat]]
    /\ head \in [Days -> Revision]
    /\ staged \in [Runs -> Nat]
    /\ pointer \in [Days -> Revision]
    /\ review \in Process
    /\ recovery \in [{"monitor", "operator"} -> Process]
    /\ switch \in [pc : {"idle", "review", "commit"}, run : AnyRun, rev : Nat, wall : Nat]
    /\ scope \subseteq Plans

\* A plan with a recorded PLAN_INVALIDATED event is terminated, and nothing
\* the other writers do with stale reads brings it back (record_monitor_event,
\* activate_pending_plan_batch, activate_latest_a3_plan_batch).
EventTerminates == \A p \in events : status[p] = "INVALIDATED"

\* A plan has a supersession record exactly when it is SUPERSEDED: neither a
\* regeneration nor a switch records the end of a plan that lives on or ended
\* otherwise (publish_plan_batch, commit_reviewed_batch_switch).
SupersededMatches == \A p \in Plans : (supersededBy[p] # NoRun) <=> (status[p] = "SUPERSEDED")

\* The plans that wait for the morning of one session come from one research
\* run: close, recovery, regeneration and switch all replace the older batch.
PendingOneRun ==
    \A p, q \in Pending : expiry[p] = expiry[q] => RunOf[p] = RunOf[q]

\* A plan is active for one session: it was activated on the day it expires,
\* although the activating process may have read it on another day, and for a
\* later horizon (activation_reason, activate_latest_a3_plan_batch).
ActiveInSession == \A p \in Active : Day(validFrom[p]) = expiry[p] /\ validFrom[p] <= Expiry(p)

\* "A concurrently published/activated batch must not be mixed": when a
\* regeneration or a reviewed switch brings its plans in, no plan of another
\* run stays live for that session.
ReplacementIsTotal ==
    [][\A p \in Plans : (/\ status[p] = "NONE" /\ status'[p] = "PENDING"
                         /\ Kind[RunOf[p]] \in {"regen", "candidate"})
          => Live(Target[RunOf[p]])' \subseteq PlansOf(RunOf[p])]_vars

\* "Never activate a different batch over the active scope": the monitor's
\* recovery activates no plan beside active plans of another run.
RecoveryKeepsBatch ==
    [][recovery'["monitor"] # recovery["monitor"] =>
        \A p \in Plans : (status[p] # "ACTIVE" /\ status'[p] = "ACTIVE") =>
            \A q \in Active : expiry[q] = expiry[p] => RunOf[q] = RunOf[p]]_vars
=============================================================================
