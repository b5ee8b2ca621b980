------------------------ MODULE PlanLifecycleProofs ------------------------
(***************************************************************************)
(* Proofs about PlanLifecycle, for any plans, runs and length of history.  *)
(*                                                                         *)
(* The argument: a plan only moves forward (StatusStep); what a process    *)
(* holds is older than now (ProcessSound); so an active plan was activated *)
(* on its day after 09:26 (ActiveLate), which is after every moment at     *)
(* which a reviewed candidate may be staged (StagedRows).                  *)
(*                                                                         *)
(* For the monitor's recovery: the plans it may activate are no same-day   *)
(* batch (Proven); beside such a pending plan nothing of another run is    *)
(* active that was made for the same session (Beside); and an active plan  *)
(* made for a later one was shortened after that one was published, when   *)
(* nothing but a same-day batch is still pending (Evening).                *)
(***************************************************************************)
EXTENDS PlanLifecycle, TLAPS

\* A process that works holds a clock value of the past, inside its window.
ProcessSound ==
    /\ switch.pc # "idle" => switch.run \in Runs
    /\ switch.pc = "commit" => switch.wall <= now
    /\ review.pc # "idle" => review.at <= now /\ Phase(review.at) \in {1, 2}
    /\ \A a \in {"monitor", "operator"} :
         recovery[a].pc # "idle" => recovery[a].at <= now /\ Phase(recovery[a].at) \in {1, 2, 3}

Base == TypeOK /\ ProcessSound

LEMMA ConstantTypes ==
    /\ \A p \in Plans : RunOf[p] \in Runs /\ Target[RunOf[p]] \in Nat
    /\ \A r \in Runs : Target[r] \in Days /\ Target[r] \in Nat /\ Source[r] \in Runs
    /\ Days \subseteq Nat
BY PlanAssumption DEF Days

LEMMA Clock ==
    ASSUME NEW t \in Nat
    PROVE  /\ Day(t) \in Nat /\ Opening(t) \in Nat /\ Later(t, Opening(t)) \in Nat
           /\ Phase(t) \in {1, 2, 3} => Day(Later(t, Opening(t))) = Day(t) /\ t > 5 * Day(t)
BY DEF Day, Opening, Later, Phase

-----------------------------------------------------------------------------
(* Types.                                                                  *)

LEMMA LiveRowsType ==
    ASSUME TypeOK, NEW d
    PROVE  LiveRows(d) \in SUBSET (Plans \X Statuses \X Nat)
BY DEF TypeOK, LiveRows, Live, Pending, Active

LEMMA BaseInit == Init => Base
BY PlanAssumption, ConstantTypes
DEF Init, Base, TypeOK, ProcessSound, Idle, NoSwitch, NoCandidate, Nothing,
    Statuses, AnyRun, Process, Revision

LEMMA BaseStep == Base /\ [Next]_vars => Base'
<1> SUFFICES ASSUME Base, [Next]_vars PROVE Base'
    OBVIOUS
<1> USE PlanAssumption, ConstantTypes DEF Base
<1>1. ASSUME NEW r \in Runs, PublishClose(r) PROVE Base'
    BY <1>1 DEF PublishClose, TypeOK, ProcessSound, Statuses, Retired, Republished, Inserted,
                reviews, procs
<1>2. ASSUME NEW r \in Runs, PublishSameDay(r) PROVE Base'
    BY <1>2 DEF PublishSameDay, TypeOK, ProcessSound, Statuses, Retired, Republished, Inserted,
                reviews, procs
<1>3. ASSUME NEW r \in Runs, BindRegeneration(r) PROVE Base'
    BY <1>3 DEF BindRegeneration, TypeOK, ProcessSound, Pending, rows, reviews
<1>4. ASSUME NEW r \in Runs, PublishRegeneration(r) PROVE Base'
    <2>1. status' \in [Plans -> Statuses]
        BY <1>4 DEF PublishRegeneration, TypeOK, Statuses, Republished, Inserted
    <2>2. supersededBy' \in [Plans -> AnyRun] /\ regenOld' \in [Runs -> SUBSET Plans]
        BY <1>4 DEF PublishRegeneration, TypeOK, AnyRun
    <2> QED
        BY <1>4, <2>1, <2>2 DEF PublishRegeneration, TypeOK, ProcessSound, reviews
<1>5. ASSUME NEW r \in Runs, StageCandidate(r) PROVE Base'
    <2> DEFINE d == Target[r]
               body == [state |-> "PENDING", old |-> LiveRows(d), ptr |-> pointer[d].rev]
               Body == [state : {"NONE", "PENDING", "SWITCHED", "EMPTY"},
                        old : SUBSET (Plans \X Statuses \X Nat), ptr : Nat]
    <2>1. body \in Body
        <3>1. pointer[d].rev \in Nat
            BY DEF TypeOK, Revision
        <3>2. LiveRows(d) \in SUBSET (Plans \X Statuses \X Nat)
            BY LiveRowsType
        <3> QED
            BY <3>1, <3>2
    <2>2. cand' \in [Runs -> Body]
        <3>1. cand' = [cand EXCEPT ![r] = IF cand[r] = NoCandidate THEN body ELSE cand[r]]
            BY <1>5 DEF StageCandidate
        <3>2. cand \in [Runs -> Body]
            BY DEF TypeOK
        <3> QED
            BY <2>1, <3>1, <3>2
    <2>3. head' \in [Days -> Revision]
        BY <1>5 DEF StageCandidate, TypeOK, Revision, AnyRun
    <2> QED
        BY <1>5, <2>2, <2>3 DEF StageCandidate, TypeOK, ProcessSound, rows, procs
<1>6. ASSUME NEW r \in Runs, StageEmpty(r) PROVE Base'
    <2>1. head' \in [Days -> Revision]
        BY <1>6 DEF StageEmpty, TypeOK, Revision, AnyRun
    <2>2. cand' \in [Runs -> [state : {"NONE", "PENDING", "SWITCHED", "EMPTY"},
                              old : SUBSET (Plans \X Statuses \X Nat), ptr : Nat]]
        BY <1>6 DEF StageEmpty, TypeOK, NoCandidate
    <2> QED
        BY <1>6, <2>1, <2>2 DEF StageEmpty, TypeOK, ProcessSound, rows, procs
<1>7. ASSUME NEW d \in Days, ReadCandidate(d) PROVE Base'
    BY <1>7 DEF ReadCandidate, TypeOK, ProcessSound, Revision, AnyRun, NoSwitch, rows, reviews
<1>8. ASSUME StageBundle PROVE Base'
    <2>1. TypeOK'
        BY <1>8 DEF StageBundle, TypeOK, rows
    <2>2. switch'.wall = now /\ now \in Nat /\ switch'.run = switch.run /\ switch.pc = "review"
        BY <1>8 DEF StageBundle, TypeOK
    <2> QED
        BY <1>8, <2>1, <2>2 DEF StageBundle, ProcessSound
<1>9. ASSUME CommitSwitch PROVE Base'
    <2> DEFINE r == switch.run
               d == Target[r]
    <2>1. CASE ~SwitchAllowed(r)
        BY <1>9, <2>1 DEF CommitSwitch, TypeOK, ProcessSound, AnyRun, NoSwitch
    <2>2. CASE SwitchAllowed(r)
        <3>1. r \in Runs /\ d \in Days /\ r \in AnyRun
            BY <1>9 DEF CommitSwitch, ProcessSound, AnyRun
        <3>2. status' \in [Plans -> Statuses]
            BY <1>9, <2>2 DEF CommitSwitch, TypeOK, Statuses, Inserted
        <3>3. supersededBy' \in [Plans -> AnyRun]
            <4>1. supersededBy' = [p \in Plans |-> IF p \in OldPlans(r) THEN r ELSE supersededBy[p]]
                BY <1>9, <2>2 DEF CommitSwitch
            <4> QED
                BY <3>1, <4>1 DEF TypeOK
        <3>4. pointer' \in [Days -> Revision]
            <4>1. pointer' = [pointer EXCEPT ![d] = [run |-> r, rev |-> pointer[d].rev + 1]]
                BY <1>9, <2>2 DEF CommitSwitch
            <4>2. [run |-> r, rev |-> pointer[d].rev + 1] \in Revision
                BY <3>1 DEF TypeOK, Revision
            <4> QED
                BY <4>1, <4>2 DEF TypeOK
        <3>5. cand' \in [Runs -> [state : {"NONE", "PENDING", "SWITCHED", "EMPTY"},
                                  old : SUBSET (Plans \X Statuses \X Nat), ptr : Nat]]
            <4>1. cand' = [cand EXCEPT ![r] = [cand[r] EXCEPT !.state = "SWITCHED"]]
                BY <1>9, <2>2 DEF CommitSwitch
            <4>2. [cand[r] EXCEPT !.state = "SWITCHED"] \in
                    [state : {"NONE", "PENDING", "SWITCHED", "EMPTY"},
                     old : SUBSET (Plans \X Statuses \X Nat), ptr : Nat]
                <5> DEFINE Rows == SUBSET (Plans \X Statuses \X Nat)
                <5>1. cand[r] \in [state : {"NONE", "PENDING", "SWITCHED", "EMPTY"}, old : Rows, ptr : Nat]
                    BY <3>1 DEF TypeOK
                <5> HIDE DEF Rows
                <5>2. [cand[r] EXCEPT !.state = "SWITCHED"] \in
                        [state : {"NONE", "PENDING", "SWITCHED", "EMPTY"}, old : Rows, ptr : Nat]
                    BY <5>1
                <5> QED
                    BY <5>2 DEF Rows
            <4> QED
                BY <3>1, <4>1, <4>2 DEF TypeOK
        <3> QED
            BY <1>9, <3>2, <3>3, <3>4, <3>5 DEF CommitSwitch, TypeOK, ProcessSound, AnyRun, NoSwitch
    <2> QED
        BY <2>1, <2>2
<1>10. ASSUME ReviewRead PROVE Base'
    <2>1. review' = [pc |-> "review", at |-> now, ids |-> Pending, run |-> NoRun, runs |-> {}]
        BY <1>10 DEF ReviewRead, Idle
    <2>2. review' \in Process
        BY <2>1 DEF TypeOK, Process, AnyRun, Pending
    <2>3. now \in Nat /\ Phase(now) \in {1, 2}
        BY <1>10 DEF ReviewRead, TypeOK
    <2> QED
        BY <1>10, <2>1, <2>2, <2>3 DEF ReviewRead, TypeOK, ProcessSound, rows, reviews
<1>11. ASSUME NEW p \in Plans, ReviewExpire(p) PROVE Base'
    <2>1. status' \in [Plans -> Statuses]
        BY <1>11 DEF ReviewExpire, TypeOK, Statuses
    <2>2. review' \in Process /\ (review'.pc # "idle" => review.pc # "idle" /\ review'.at = review.at)
        <3>1. CASE review' = Idle
            BY <3>1 DEF Idle, Process, AnyRun
        <3>2. CASE review' = [review EXCEPT !.ids = @ \ {p}]
            BY <1>11, <3>2 DEF ReviewExpire, TypeOK, Process
        <3> QED
            BY <1>11, <3>1, <3>2 DEF ReviewExpire
    <2> QED
        BY <1>11, <2>1, <2>2 DEF ReviewExpire, TypeOK, ProcessSound, reviews
<1>12. ASSUME ReviewActivate PROVE Base'
    <2>1. ReviewTime \in Nat
        BY Clock DEF TypeOK, Process, ReviewTime
    <2> QED
        <3>1. status' \in [Plans -> Statuses] /\ validFrom' \in [Plans -> Nat]
            <4>1. \A S, T : Activated(S, T, ReviewTime) =>
                     status' \in [Plans -> Statuses] /\ validFrom' \in [Plans -> Nat]
                BY <2>1 DEF Activated, TypeOK, Statuses
            <4>2. (\E S, T : Activated(S, T, ReviewTime)) \/ UNCHANGED <<status, validFrom>>
                BY <1>12 DEF ReviewActivate
            <4> QED
                BY <4>1, <4>2 DEF TypeOK
        <3>2. review' \in Process /\ review'.pc = "idle"
            BY <1>12 DEF ReviewActivate, Idle, Process, AnyRun
        <3> QED
            BY <1>12, <3>1, <3>2 DEF ReviewActivate, TypeOK, ProcessSound, reviews
<1>13. ASSUME NEW a \in {"monitor", "operator"}, RecoverStart(a) PROVE Base'
    <2> DEFINE Z == IF a = "monitor" THEN {RunOf[p] : p \in ListActive(now)} ELSE {}
               read == [pc |-> "read", at |-> now, ids |-> {}, run |-> NoRun, runs |-> Z]
    <2>1. recovery' = [recovery EXCEPT ![a] = read]
        BY <1>13 DEF RecoverStart
    <2>2. Z \in SUBSET Runs
        BY DEF ListActive, Active
    <2>3. read \in Process
        BY <2>2 DEF TypeOK, Process, AnyRun
    <2>4. Phase(now) \in {1, 2, 3} /\ now \in Nat
        BY <1>13 DEF RecoverStart, Window, TypeOK
    <2>5. read.at = now
        OBVIOUS
    <2> HIDE DEF read
    <2>6. TypeOK'
        <3>1. recovery' \in [{"monitor", "operator"} -> Process]
            BY <2>1, <2>3 DEF TypeOK
        <3> QED
            BY <1>13, <3>1 DEF RecoverStart, TypeOK, rows, reviews
    <2>7. ProcessSound'
        BY <1>13, <2>1, <2>4, <2>5 DEF RecoverStart, TypeOK, ProcessSound
    <2> QED
        BY <2>6, <2>7
<1>14. ASSUME NEW a \in {"monitor", "operator"}, RecoverRead(a) PROVE Base'
    <2>1. PICK q \in Process :
            /\ recovery' = [recovery EXCEPT ![a] = q]
            /\ q.pc # "idle" => q.at = recovery[a].at
        <3>1. CASE recovery' = [recovery EXCEPT ![a] = Idle]
            <4>1. Idle \in Process /\ Idle.pc = "idle"
                BY DEF Idle, Process, AnyRun
            <4> QED
                BY <3>1, <4>1
        <3>2. CASE recovery' # [recovery EXCEPT ![a] = Idle]
            <4>1. PICK r \in Runs, S \in SUBSET Plans :
                    recovery' = [recovery EXCEPT ![a].pc = "activate", ![a].run = r, ![a].ids = S]
                <5> DEFINE at == recovery[a].at
                           found == {p \in Pending :
                             /\ Expiry(p) >= at
                             /\ a = "monitor" =>
                                  /\ expiry[p] = Day(at)
                                  /\ recovery[a].runs = {} \/ RunOf[p] \in recovery[a].runs}
                <5>1. found \subseteq Plans
                    BY DEF Pending
                <5>2. \E r \in {RunOf[p] : p \in found} :
                        recovery' = [recovery EXCEPT ![a].pc = "activate", ![a].run = r,
                          ![a].ids = {p \in found : RunOf[p] = r /\ (a = "monitor" => SourceProven(p))}]
                    BY <1>14, <3>2 DEF RecoverRead
                <5> HIDE DEF found
                <5>3. \A r \in {RunOf[p] : p \in found} : r \in Runs
                    BY <5>1
                <5> QED
                    BY <5>1, <5>2, <5>3
            <4>2. recovery[a] \in Process
                BY DEF TypeOK
            <4>3. [recovery[a] EXCEPT !.pc = "activate", !.run = r, !.ids = S] \in Process
                BY <4>1, <4>2 DEF Process, AnyRun
            <4>4. recovery' = [recovery EXCEPT
                       ![a] = [recovery[a] EXCEPT !.pc = "activate", !.run = r, !.ids = S]]
                BY <4>1 DEF TypeOK
            <4> QED
                BY <4>2, <4>3, <4>4 DEF Process
        <3> QED
            BY <3>1, <3>2
    <2>2. recovery[a].pc # "idle"
        BY <1>14 DEF RecoverRead
    <2> QED
        BY <1>14, <2>1, <2>2 DEF RecoverRead, TypeOK, ProcessSound, rows, reviews
<1>15. ASSUME NEW a \in {"monitor", "operator"}, RecoverActivate(a) PROVE Base'
    <2>1. RecoveryTime(a) \in Nat
        BY Clock DEF TypeOK, Process, RecoveryTime
    <2>2. status' \in [Plans -> Statuses] /\ validFrom' \in [Plans -> Nat] /\ expiry' \in [Plans -> Nat]
        <3>1. PICK act \in SUBSET recovery[a].ids, inv \in SUBSET recovery[a].ids :
                \/ /\ Activated(act \cap Pending, inv \cap Pending, RecoveryTime(a))
                   /\ expiry' = [p \in Plans |-> IF p \in act \cap Pending THEN Horizon(a, p, RecoveryTime(a))
                                                 ELSE expiry[p]]
                \/ UNCHANGED <<status, validFrom, expiry>>
            BY <1>15 DEF RecoverActivate
        <3>2. \A p \in Plans : Horizon(a, p, RecoveryTime(a)) \in Nat
            BY <2>1, Clock DEF Horizon, TypeOK
        <3> QED
            BY <2>1, <3>1, <3>2 DEF Activated, TypeOK, Statuses
    <2>3. Idle \in Process /\ Idle.pc = "idle"
        BY DEF Idle, Process, AnyRun
    <2> QED
        BY <1>15, <2>2, <2>3 DEF RecoverActivate, TypeOK, ProcessSound, reviews
<1>16. ASSUME MonitorRead PROVE Base'
    BY <1>16 DEF MonitorRead, ListActive, Active, TypeOK, ProcessSound, rows, reviews
<1>17. ASSUME NEW p \in Plans, RecordInvalidation(p) PROVE Base'
    BY <1>17 DEF RecordInvalidation, TypeOK, ProcessSound, Statuses, reviews, procs
<1>18. ASSUME Abandon PROVE Base'
    <2>1. Idle \in Process /\ Idle.pc = "idle" /\ NoSwitch.pc = "idle"
          /\ NoSwitch \in [pc : {"idle", "review", "commit"}, run : AnyRun, rev : Nat, wall : Nat]
        BY DEF Idle, Process, AnyRun, NoSwitch
    <2>2. UNCHANGED <<now, rows, events, reviews, scope>>
        BY <1>18 DEF Abandon
    <2>3. \/ review' = Idle /\ UNCHANGED <<recovery, switch, regenOld>>
          \/ /\ \E a \in {"monitor", "operator"} : recovery' = [recovery EXCEPT ![a] = Idle]
             /\ UNCHANGED <<review, switch, regenOld>>
          \/ switch' = NoSwitch /\ UNCHANGED <<review, recovery, regenOld>>
          \/ /\ \E r \in Runs : regenOld' = [regenOld EXCEPT ![r] = {}]
             /\ UNCHANGED <<review, recovery, switch>>
        BY <1>18 DEF Abandon, TypeOK
    <2>4. TypeOK'
        <3>1. /\ review' \in Process
              /\ switch' \in [pc : {"idle", "review", "commit"}, run : AnyRun, rev : Nat, wall : Nat]
            BY <2>1, <2>3 DEF TypeOK
        <3>2. recovery' \in [{"monitor", "operator"} -> Process]
            BY <2>1, <2>3 DEF TypeOK
        <3>3. regenOld' \in [Runs -> SUBSET Plans]
            BY <2>3 DEF TypeOK
        <3> QED
            BY <2>2, <3>1, <3>2, <3>3 DEF TypeOK, rows, reviews
    <2>5. now' = now /\ ProcessSound
        BY <2>2
    <2>6. review' = review \/ review'.pc = "idle"
        BY <2>1, <2>3
    <2>7. switch' = switch \/ switch'.pc = "idle"
        BY <2>1, <2>3
    <2>8. \A a \in {"monitor", "operator"} : recovery'[a] = recovery[a] \/ recovery'[a].pc = "idle"
        BY <2>1, <2>3 DEF TypeOK
    <2> QED
        BY <2>4, <2>5, <2>6, <2>7, <2>8 DEF ProcessSound
<1>19. ASSUME Tick PROVE Base'
    <2>1. now' \in Nat /\ now' = now + 1 /\ now \in Nat /\ UNCHANGED <<rows, events, reviews, procs>>
        BY <1>19 DEF Tick, TypeOK
    <2>2. TypeOK'
        BY <2>1 DEF TypeOK, rows, reviews, procs
    <2>3. \A t \in Nat : t <= now => t <= now'
        BY <2>1
    <2>4. review.at \in Nat /\ switch.wall \in Nat /\ \A a \in {"monitor", "operator"} : recovery[a].at \in Nat
        BY DEF TypeOK, Process
    <2> QED
        BY <2>1, <2>2, <2>3, <2>4 DEF ProcessSound, procs, Phase
<1>20. ASSUME UNCHANGED vars PROVE Base'
    BY <1>20 DEF vars, TypeOK, ProcessSound, rows, reviews, procs
<1> QED
    BY <1>1, <1>2, <1>3, <1>4, <1>5, <1>6, <1>7, <1>8, <1>9, <1>10, <1>11, <1>12, <1>13, <1>14,
       <1>15, <1>16, <1>17, <1>18, <1>19, <1>20 DEF Next, Publish

\* Every reachable state of the plans, the reviewed batches and the processes
\* has its type.
THEOREM TypeCorrect == Spec => []TypeOK
<1>1. Base => TypeOK
    BY DEF Base
<1> QED
    BY <1>1, BaseInit, BaseStep, PTL DEF Spec

-----------------------------------------------------------------------------
(* The life of one plan.                                                   *)

\* What a step may do to a plan: nothing, insert it for a session that starts
\* at the next tick at the latest, end it, or activate it inside its session.
StatusStep(p) ==
    \/ /\ status'[p] = status[p] /\ expiry'[p] = expiry[p]
       /\ status[p] = "ACTIVE" => validFrom'[p] = validFrom[p]
    \/ /\ status[p] = "NONE" /\ status'[p] = "PENDING" /\ expiry'[p] = expiry[p]
       /\ now + 1 >= 5 * Target[RunOf[p]]
    \/ /\ status[p] \in {"PENDING", "ACTIVE"} /\ status'[p] \in {"INVALIDATED", "EXPIRED", "SUPERSEDED"}
       /\ expiry'[p] = expiry[p]
    \/ /\ status[p] = "PENDING" /\ status'[p] = "ACTIVE"
       /\ ActivationOk(expiry'[p], validFrom'[p]) /\ now > 5 * expiry'[p] /\ expiry'[p] <= expiry[p]

LEMMA ClosedMoment ==
    ASSUME Base, NEW r \in Runs, ClosedSession(r)
    PROVE  now <= 5 * Target[r] /\ now + 1 >= 5 * Target[r]
BY ConstantTypes DEF Base, TypeOK, ClosedSession, Day, Phase

LEMMA ReviewMoment ==
    ASSUME Base, review.pc = "review"
    PROVE  now > 5 * Day(ReviewTime)
<1>1. review.at \in Nat /\ review.at <= now /\ Phase(review.at) \in {1, 2} /\ now \in Nat
    BY DEF Base, TypeOK, ProcessSound, Process
<1>2. Day(ReviewTime) = Day(review.at) /\ review.at > 5 * Day(review.at) /\ Day(review.at) \in Nat
    BY <1>1, Clock DEF ReviewTime
<1> QED
    BY <1>1, <1>2

LEMMA RecoveryMoment ==
    ASSUME Base, NEW a \in {"monitor", "operator"}, recovery[a].pc # "idle"
    PROVE  /\ RecoveryTime(a) \in Nat /\ Day(RecoveryTime(a)) \in Nat
           /\ now > 5 * Day(RecoveryTime(a))
           /\ a = "operator" => RecoveryTime(a) <= SessionEnd(Day(RecoveryTime(a)))
<1>1. recovery[a].at \in Nat /\ recovery[a].at <= now /\ Phase(recovery[a].at) \in {1, 2, 3} /\ now \in Nat
    BY DEF Base, TypeOK, ProcessSound, Process
<1>2. Day(RecoveryTime(a)) = Day(recovery[a].at) /\ recovery[a].at > 5 * Day(recovery[a].at)
      /\ Day(recovery[a].at) \in Nat /\ RecoveryTime(a) \in Nat
    BY <1>1, Clock DEF RecoveryTime
<1>3. a = "operator" => RecoveryTime(a) <= SessionEnd(Day(RecoveryTime(a)))
    BY <1>1, <1>2 DEF RecoveryTime, SessionEnd, Day, Phase
<1> QED
    BY <1>1, <1>2, <1>3

LEMMA PlanStep ==
    ASSUME Base, [Next]_vars
    PROVE  \A p \in Plans : StatusStep(p)
<1> SUFFICES ASSUME NEW p \in Plans PROVE StatusStep(p)
    OBVIOUS
<1> USE DEF Base
<1>1. ASSUME NEW r \in Runs, PublishClose(r) PROVE StatusStep(p)
    BY <1>1, ClosedMoment DEF PublishClose, PlansOf, TypeOK, StatusStep, Retired, Republished, Inserted, Statuses
<1>2. ASSUME NEW r \in Runs, PublishSameDay(r) PROVE StatusStep(p)
    <2>1. now + 1 >= 5 * Target[r]
        BY <1>2, ConstantTypes DEF PublishSameDay, TypeOK, Day
    <2> QED
        BY <1>2, <2>1 DEF PublishSameDay, PlansOf, TypeOK, StatusStep, Retired, Republished, Inserted, Statuses
<1>3. ASSUME NEW r \in Runs, PublishRegeneration(r) PROVE StatusStep(p)
    BY <1>3, ClosedMoment
    DEF PublishRegeneration, PlansOf, TypeOK, StatusStep, Republished, Inserted, Statuses, Pending
<1>4. ASSUME CommitSwitch PROVE StatusStep(p)
    <2> DEFINE r == switch.run
    <2>1. CASE ~SwitchAllowed(r)
        BY <1>4, <2>1 DEF CommitSwitch, StatusStep
    <2>2. CASE SwitchAllowed(r)
        <3>1. p \in PlansOf(r) => status[p] = "NONE"
            BY <2>2 DEF SwitchAllowed
        <3>2. p \in OldPlans(r) => status[p] \in {"PENDING", "ACTIVE"}
            BY <2>2 DEF SwitchAllowed, OldScopeHolds, OldPlans, LiveRows, Live, Pending, Active
        <3>3. r \in Runs /\ switch.wall \in Nat /\ switch.wall <= now /\ now \in Nat
            BY <1>4 DEF CommitSwitch, ProcessSound, TypeOK
        <3>4. Day(switch.wall) = Target[r]
            BY <2>2 DEF SwitchAllowed
        <3>5. now + 1 >= 5 * Target[r]
            BY <3>3, <3>4, ConstantTypes DEF Day
        <3> QED
            BY <1>4, <2>2, <3>1, <3>2, <3>5 DEF CommitSwitch, PlansOf, StatusStep, Inserted
    <2> QED
        BY <2>1, <2>2
<1>5. ASSUME NEW q \in Plans, ReviewExpire(q) PROVE StatusStep(p)
    BY <1>5 DEF ReviewExpire, TypeOK, StatusStep, Statuses
<1>6. ASSUME ReviewActivate PROVE StatusStep(p)
    <2> DEFINE eligible == {q \in review.ids : ActivationOk(expiry[q], ReviewTime) /\ SourceProven(q)}
    <2>1. PICK act \in SUBSET eligible : \E inv \in SUBSET (eligible \ act) :
            IF AllPending(act \cup inv)
            THEN Activated(act, inv, ReviewTime)
            ELSE UNCHANGED <<status, validFrom>>
        BY <1>6 DEF ReviewActivate
    <2>2. PICK inv \in SUBSET (eligible \ act) :
            IF AllPending(act \cup inv)
            THEN Activated(act, inv, ReviewTime)
            ELSE UNCHANGED <<status, validFrom>>
        BY <2>1
    <2>3. expiry' = expiry /\ expiry[p] \in Nat
        BY <1>6 DEF ReviewActivate, TypeOK
    <2>4. p \in act => ActivationOk(expiry[p], ReviewTime) /\ now > 5 * expiry[p]
        BY <1>6, ReviewMoment DEF ReviewActivate, ActivationOk
    <2>5. CASE AllPending(act \cup inv)
        BY <2>2, <2>3, <2>4, <2>5 DEF AllPending, Pending, Activated, TypeOK, StatusStep
    <2>6. CASE ~AllPending(act \cup inv)
        BY <2>2, <2>3, <2>6 DEF StatusStep
    <2> QED
        BY <2>5, <2>6
<1>7. ASSUME NEW a \in {"monitor", "operator"}, RecoverActivate(a) PROVE StatusStep(p)
    <2> DEFINE at == RecoveryTime(a)
    <2>1. PICK act \in SUBSET recovery[a].ids, inv \in SUBSET recovery[a].ids :
            IF LatestAccepts(a, act, inv, at)
            THEN /\ Activated(act \cap Pending, inv \cap Pending, at)
                 /\ expiry' = [q \in Plans |-> IF q \in act \cap Pending THEN Horizon(a, q, at)
                                               ELSE expiry[q]]
            ELSE UNCHANGED <<status, validFrom, expiry>>
        BY <1>7 DEF RecoverActivate
    <2>2. CASE ~LatestAccepts(a, act, inv, at)
        BY <2>1, <2>2 DEF StatusStep
    <2>3. CASE LatestAccepts(a, act, inv, at)
        <3>1. p \in act => /\ ActivationOk(Horizon(a, p, at), at) /\ now > 5 * Horizon(a, p, at)
                           /\ Horizon(a, p, at) <= expiry[p]
            <4> SUFFICES ASSUME p \in act
                         PROVE  /\ ActivationOk(Horizon(a, p, at), at) /\ now > 5 * Horizon(a, p, at)
                                /\ Horizon(a, p, at) <= expiry[p]
                OBVIOUS
            <4>1. expiry[p] \in Nat /\ Day(at) <= expiry[p] /\ (a = "monitor" => ActivationOk(expiry[p], at))
                BY <2>3 DEF LatestAccepts, TypeOK
            <4>2. Day(at) \in Nat /\ now > 5 * Day(at) /\ (a = "operator" => at <= SessionEnd(Day(at)))
                BY <1>7, RecoveryMoment DEF RecoverActivate
            <4> HIDE DEF at
            <4> QED
                BY <4>1, <4>2 DEF Horizon, ActivationOk
        <3>2. Activated(act \cap Pending, inv \cap Pending, at)
            BY <2>1, <2>3
        <3>3. expiry'[p] = IF p \in act \cap Pending THEN Horizon(a, p, at) ELSE expiry[p]
            BY <2>1, <2>3
        <3> HIDE DEF at
        <3> QED
            BY <3>1, <3>2, <3>3 DEF Pending, Activated, TypeOK, StatusStep
    <2> QED
        BY <2>2, <2>3
<1>8. ASSUME NEW q \in Plans, RecordInvalidation(q) PROVE StatusStep(p)
    BY <1>8 DEF RecordInvalidation, Terminable, TypeOK, StatusStep
<1>9. CASE UNCHANGED <<status, validFrom, expiry>>
    BY <1>9 DEF StatusStep
<1> QED
    BY <1>1, <1>2, <1>3, <1>4, <1>5, <1>6, <1>7, <1>8, <1>9
    DEF Next, Publish, BindRegeneration, StageCandidate, StageEmpty, ReadCandidate, StageBundle,
        ReviewRead, RecoverStart, RecoverRead, MonitorRead, Abandon, Tick, vars, rows

LEMMA Time == ASSUME Base, [Next]_vars PROVE now \in Nat /\ now' \in Nat /\ now' >= now
<1>1. now' = now \/ now' = now + 1
    BY DEF Next, Publish, PublishClose, PublishSameDay, PublishRegeneration, BindRegeneration, StageCandidate,
        StageEmpty, ReadCandidate, StageBundle, CommitSwitch, ReviewRead, ReviewExpire, ReviewActivate,
        RecoverStart, RecoverRead, RecoverActivate, MonitorRead, RecordInvalidation, Abandon, Tick, vars
<1> QED
    BY <1>1 DEF Base, TypeOK

\* A plan expires on its run's target day unless the operator shortened it at
\* activation, and it was published after the close of the session before.
Horizons ==
    \A p \in Plans :
        /\ status[p] \in {"NONE", "PENDING"} => expiry[p] = Target[RunOf[p]]
        /\ expiry[p] <= Target[RunOf[p]]
        /\ status[p] # "NONE" => now + 1 >= 5 * Target[RunOf[p]]

Sound == Base /\ Horizons

LEMMA SoundInit == Init => Sound
<1> SUFFICES ASSUME Init PROVE Horizons
    BY BaseInit DEF Sound
<1>1. \A p \in Plans : status[p] = "NONE" /\ expiry[p] = Target[RunOf[p]] /\ Target[RunOf[p]] \in Nat
    BY ConstantTypes DEF Init
<1> QED
    BY <1>1 DEF Horizons

LEMMA SoundStep == Sound /\ [Next]_vars => Sound'
<1> SUFFICES ASSUME Sound, [Next]_vars PROVE Horizons'
    BY BaseStep DEF Sound
<1> USE DEF Sound
<1>1. \A p \in Plans : StatusStep(p) /\ expiry[p] \in Nat /\ expiry'[p] \in Nat /\ Target[RunOf[p]] \in Nat
    BY PlanStep, BaseStep, ConstantTypes DEF Base, TypeOK
<1>2. now \in Nat /\ now' \in Nat /\ now' >= now
    BY Time
<1> QED
    BY <1>1, <1>2 DEF Horizons, StatusStep

-----------------------------------------------------------------------------
(* The invariants that follow from the life of one plan.                   *)

LEMMA EventStep == ASSUME Base, EventTerminates, [Next]_vars PROVE EventTerminates'
<1>1. \A p \in Plans : StatusStep(p)
    BY PlanStep
<1>2. \A p \in events : p \in Plans /\ status'[p] = "INVALIDATED"
    BY <1>1 DEF Base, TypeOK, EventTerminates, StatusStep
<1>3. CASE UNCHANGED events
    BY <1>2, <1>3 DEF EventTerminates
<1>4. ASSUME NEW p \in Plans, RecordInvalidation(p) PROVE EventTerminates'
    BY <1>2, <1>4 DEF RecordInvalidation, Terminable, EventTerminates, Base, TypeOK
<1> QED
    BY <1>3, <1>4
    DEF Next, Publish, PublishClose, PublishSameDay, PublishRegeneration, BindRegeneration, StageCandidate,
        StageEmpty, ReadCandidate, StageBundle, CommitSwitch, ReviewRead, ReviewExpire, ReviewActivate,
        RecoverStart, RecoverRead, RecoverActivate, MonitorRead, Abandon, Tick, vars

\* What the monitor terminated stays terminated: no review, recovery, publication
\* or switch that read the plan earlier revives it (record_monitor_event,
\* activate_pending_plan_batch, activate_latest_a3_plan_batch).
THEOREM EventTerminal == Spec => []EventTerminates
<1>1. Init => EventTerminates
    BY DEF Init, EventTerminates
<1> QED
    BY <1>1, BaseInit, BaseStep, EventStep, PTL DEF Spec

LEMMA SessionStep == ASSUME Base, ActiveInSession, [Next]_vars PROVE ActiveInSession'
BY PlanStep, BaseStep DEF Base, TypeOK, ActiveInSession, Active, StatusStep, ActivationOk, Expiry

\* An active plan was activated on its own session and before its expiry, by
\* whichever process and however old its reading (activation_reason).
THEOREM ActiveSession == Spec => []ActiveInSession
<1>1. Init => ActiveInSession
    BY DEF Init, ActiveInSession, Active
<1> QED
    BY <1>1, BaseInit, BaseStep, SessionStep, PTL DEF Spec

-----------------------------------------------------------------------------
(* The pending plans of a session.                                         *)

LEMMA PendingStep == ASSUME Sound, PendingOneRun, [Next]_vars PROVE PendingOneRun'
<1> USE DEF Sound, Base
<1>1. ASSUME NEW r \in Runs, PublishClose(r) PROVE PendingOneRun'
    BY <1>1 DEF PublishClose, PendingOneRun, Pending, Retired, PlansOf
<1>2. ASSUME NEW r \in Runs, PublishSameDay(r) PROVE PendingOneRun'
    BY <1>2 DEF PublishSameDay, PendingOneRun, Pending, Retired, PlansOf
<1>3. ASSUME NEW r \in Runs, PublishRegeneration(r) PROVE PendingOneRun'
    BY <1>3 DEF PublishRegeneration, RegenScopeHolds, PendingOneRun, Pending, PlansOf
<1>4. ASSUME CommitSwitch PROVE PendingOneRun'
    <2> DEFINE r == switch.run
    <2>1. CASE ~SwitchAllowed(r)
        BY <1>4, <2>1 DEF CommitSwitch, PendingOneRun, Pending
    <2>2. CASE SwitchAllowed(r)
        <3>1. \A p \in Pending : expiry[p] = Target[r] => p \in OldPlans(r)
            BY <2>2 DEF SwitchAllowed, OldScopeHolds, Live
        <3>2. status' = [p \in Plans |-> IF p \in PlansOf(r) THEN "PENDING"
                                         ELSE IF p \in OldPlans(r) THEN "SUPERSEDED" ELSE status[p]]
            BY <1>4, <2>2 DEF CommitSwitch, Inserted
        <3>3. \A p \in Pending' : p \in PlansOf(r) \/ (p \in Pending /\ p \notin OldPlans(r))
            BY <3>2 DEF Pending
        <3>4. expiry' = expiry /\ \A p \in PlansOf(r) : expiry[p] = Target[r]
            BY <1>4, <2>2 DEF CommitSwitch, SwitchAllowed, PlansOf, Horizons
        <3> QED
            BY <3>1, <3>3, <3>4 DEF PendingOneRun, Pending, PlansOf
    <2> QED
        BY <2>1, <2>2
<1>5. CASE \A p \in Plans : status'[p] = "PENDING" => status[p] = "PENDING" /\ expiry'[p] = expiry[p]
    BY <1>5 DEF PendingOneRun, Pending
<1>6. ASSUME NEW q \in Plans, ReviewExpire(q) PROVE PendingOneRun'
    BY <1>5, <1>6 DEF ReviewExpire, TypeOK
<1>7. ASSUME ReviewActivate PROVE PendingOneRun'
    BY <1>5, <1>7 DEF ReviewActivate, Activated, TypeOK
<1>8. ASSUME NEW a \in {"monitor", "operator"}, RecoverActivate(a) PROVE PendingOneRun'
    BY <1>5, <1>8 DEF RecoverActivate, Activated, TypeOK
<1>9. ASSUME NEW q \in Plans, RecordInvalidation(q) PROVE PendingOneRun'
    BY <1>5, <1>9 DEF RecordInvalidation, TypeOK
<1>10. CASE UNCHANGED <<status, expiry>>
    BY <1>5, <1>10
<1> QED
    BY <1>1, <1>2, <1>3, <1>4, <1>6, <1>7, <1>8, <1>9, <1>10
    DEF Next, Publish, BindRegeneration, StageCandidate, StageEmpty, ReadCandidate, StageBundle,
        ReviewRead, RecoverStart, RecoverRead, MonitorRead, Abandon, Tick, vars, rows

\* The plans that wait for one morning come from one research run, whatever
\* publications, regenerations and switches raced each other (publish_plan_batch,
\* commit_reviewed_batch_switch).
THEOREM PendingFromOneRun == Spec => []PendingOneRun
<1>1. Init => PendingOneRun
    BY DEF Init, PendingOneRun, Pending
<1> QED
    BY <1>1, SoundInit, SoundStep, PendingStep, PTL DEF Spec

-----------------------------------------------------------------------------
(* Supersession records.                                                   *)

LEMMA SupersededStep == ASSUME Base, SupersededMatches, [Next]_vars PROVE SupersededMatches'
<1> USE PlanAssumption DEF Base
<1>1. ASSUME NEW r \in Runs, PublishClose(r) PROVE SupersededMatches'
    BY <1>1 DEF PublishClose, SupersededMatches, TypeOK, Retired, Republished, Inserted
<1>2. ASSUME NEW r \in Runs, PublishSameDay(r) PROVE SupersededMatches'
    BY <1>2 DEF PublishSameDay, SupersededMatches, TypeOK, Retired, Republished, Inserted
<1>3. ASSUME NEW r \in Runs, PublishRegeneration(r) PROVE SupersededMatches'
    BY <1>3 DEF PublishRegeneration, RegenScopeHolds, SupersededMatches, TypeOK, Republished, Inserted, Pending
<1>4. ASSUME CommitSwitch PROVE SupersededMatches'
    <2> DEFINE r == switch.run
    <2>1. CASE ~SwitchAllowed(r)
        BY <1>4, <2>1 DEF CommitSwitch, SupersededMatches
    <2>2. CASE SwitchAllowed(r)
        <3>1. \A p \in OldPlans(r) : status[p] \in {"PENDING", "ACTIVE"}
            BY <2>2 DEF SwitchAllowed, OldScopeHolds, OldPlans, LiveRows, Live, Pending, Active
        <3>2. \A p \in PlansOf(r) : status[p] = "NONE"
            BY <2>2 DEF SwitchAllowed
        <3>3. r \in Runs
            BY <1>4 DEF CommitSwitch, ProcessSound
        <3> QED
            <4>1. status' = [p \in Plans |-> IF p \in PlansOf(r) THEN "PENDING"
                                             ELSE IF p \in OldPlans(r) THEN "SUPERSEDED" ELSE status[p]]
                BY <1>4, <2>2 DEF CommitSwitch, Inserted
            <4>2. supersededBy' = [p \in Plans |-> IF p \in OldPlans(r) THEN r ELSE supersededBy[p]]
                BY <1>4, <2>2 DEF CommitSwitch
            <4> QED
                BY <3>1, <3>2, <3>3, <4>1, <4>2 DEF SupersededMatches
    <2> QED
        BY <2>1, <2>2
<1>5. CASE UNCHANGED supersededBy /\ \A p \in Plans : status'[p] = "SUPERSEDED" <=> status[p] = "SUPERSEDED"
    BY <1>5 DEF SupersededMatches
<1>6. ASSUME NEW q \in Plans, ReviewExpire(q) PROVE SupersededMatches'
    BY <1>5, <1>6 DEF ReviewExpire, TypeOK
<1>7. ASSUME ReviewActivate PROVE SupersededMatches'
    <2>1. UNCHANGED supersededBy
        BY <1>7 DEF ReviewActivate
    <2>2. \A S, T : AllPending(S \cup T) /\ Activated(S, T, ReviewTime)
                   => \A p \in Plans : status'[p] = "SUPERSEDED" <=> status[p] = "SUPERSEDED"
        BY DEF AllPending, Activated, Pending, TypeOK
    <2>3. \A p \in Plans : status'[p] = "SUPERSEDED" <=> status[p] = "SUPERSEDED"
        BY <1>7, <2>2 DEF ReviewActivate
    <2> QED
        BY <1>5, <2>1, <2>3
<1>8. ASSUME NEW a \in {"monitor", "operator"}, RecoverActivate(a) PROVE SupersededMatches'
    <2>1. UNCHANGED supersededBy
        BY <1>8 DEF RecoverActivate
    <2>2. \A S, T : Activated(S \cap Pending, T \cap Pending, RecoveryTime(a))
                   => \A p \in Plans : status'[p] = "SUPERSEDED" <=> status[p] = "SUPERSEDED"
        BY DEF Activated, Pending, TypeOK
    <2>3. \A p \in Plans : status'[p] = "SUPERSEDED" <=> status[p] = "SUPERSEDED"
        BY <1>8, <2>2 DEF RecoverActivate
    <2> QED
        BY <1>5, <2>1, <2>3
<1>9. ASSUME NEW q \in Plans, RecordInvalidation(q) PROVE SupersededMatches'
    BY <1>5, <1>9 DEF RecordInvalidation, TypeOK
<1>10. CASE UNCHANGED <<status, supersededBy>>
    BY <1>5, <1>10
<1> QED
    BY <1>1, <1>2, <1>3, <1>4, <1>6, <1>7, <1>8, <1>9, <1>10
    DEF Next, Publish, BindRegeneration, StageCandidate, StageEmpty, ReadCandidate, StageBundle,
        ReviewRead, RecoverStart, RecoverRead, MonitorRead, Abandon, Tick, vars, rows

\* A plan has a supersession record exactly when it is SUPERSEDED
\* (publish_plan_batch, commit_reviewed_batch_switch).
THEOREM Supersession == Spec => []SupersededMatches
<1>1. Init => SupersededMatches
    BY DEF Init, SupersededMatches
<1> QED
    BY <1>1, BaseInit, BaseStep, SupersededStep, PTL DEF Spec

-----------------------------------------------------------------------------
(* A replacement is total.                                                 *)

\* An active plan was activated after 09:26 of its day.
ActiveLate == \A p \in Active : now > 5 * expiry[p]

\* A staged row was a pending plan; while it still is, no plan of another run
\* that was published for the same day is active.
StagedRows ==
    \A r \in Runs : \A row \in cand[r].old :
        LET p == row[1]
        IN  /\ p \in Plans /\ status[p] # "NONE"
            /\ status[p] = "PENDING" =>
                 \A q \in Active : Target[RunOf[q]] = expiry[p] /\ expiry[q] = expiry[p] => RunOf[q] = RunOf[p]
            /\ row[2] = "PENDING"

Replacing == Sound /\ PendingOneRun /\ ActiveLate

LEMMA ActiveLateStep == ASSUME Base, ActiveLate, [Next]_vars PROVE ActiveLate'
<1>1. \A p \in Plans : StatusStep(p) /\ expiry[p] \in Nat /\ expiry'[p] \in Nat
    BY PlanStep, BaseStep DEF Base, TypeOK
<1>2. now \in Nat /\ now' \in Nat /\ now' >= now
    BY Time
<1>3. \A p \in Active' : now > 5 * expiry'[p]
    BY <1>1 DEF ActiveLate, Active, StatusStep
<1> QED
    BY <1>1, <1>2, <1>3 DEF ActiveLate, Active

\* Until 09:31 no plan of a later day is active with its expiry shortened to
\* this day, and before 09:26 no plan of this day is active.
LEMMA NoneActiveYet ==
    ASSUME Replacing, NEW r \in Runs, now <= 5 * Target[r] + 1, NEW p \in Active,
           expiry[p] = Target[r]
    PROVE  Target[RunOf[p]] = Target[r] /\ now > 5 * Target[r]
<1>1. now \in Nat /\ now > 5 * expiry[p] /\ expiry[p] \in Nat /\ Target[r] \in Nat
      /\ Target[RunOf[p]] \in Nat
    BY ConstantTypes DEF Replacing, Sound, Base, TypeOK, ActiveLate, Active
<1>2. expiry[p] <= Target[RunOf[p]] /\ now + 1 >= 5 * Target[RunOf[p]]
    BY DEF Replacing, Sound, Horizons, Active
<1> QED
    BY <1>1, <1>2

LEMMA StagedRowsStep == ASSUME Replacing, StagedRows, [Next]_vars PROVE StagedRows'
<1> USE DEF Replacing, Sound
<1>1. \A p \in Plans : StatusStep(p)
    BY PlanStep
<1>0. \A p \in Plans : status[p] = "PENDING" => expiry[p] = Target[RunOf[p]]
    BY DEF Horizons
<1> DEFINE Good(row) == LET p == row[1]
                        IN  /\ p \in Plans /\ status[p] # "NONE"
                            /\ status[p] = "PENDING" =>
                                 \A q \in Active : Target[RunOf[q]] = expiry[p] /\ expiry[q] = expiry[p] => RunOf[q] = RunOf[p]
                            /\ row[2] = "PENDING"
           Good1(row) == LET p == row[1]
                         IN  /\ p \in Plans /\ status'[p] # "NONE"
                             /\ status'[p] = "PENDING" =>
                                  \A q \in Active' : Target[RunOf[q]] = expiry'[p] /\ expiry'[q] = expiry'[p] => RunOf[q] = RunOf[p]
                             /\ row[2] = "PENDING"
<1>2. ASSUME NEW row, Good(row) PROVE Good1(row)
    <2> DEFINE p == row[1]
    <2>1. \A q \in Active' : (q \in Active /\ expiry'[q] = expiry[q]) \/ q \in Pending
        BY <1>1 DEF StatusStep, Active, Pending
    <2>2. status'[p] # "NONE" /\ (status'[p] = "PENDING" => status[p] = "PENDING" /\ expiry'[p] = expiry[p])
        BY <1>1, <1>2 DEF StatusStep
    <2> QED
        BY <1>0, <1>2, <2>1, <2>2 DEF PendingOneRun, Pending
<1>3. ASSUME NEW r \in Runs, ClosedSession(r), NEW row \in LiveRows(Target[r]) PROVE Good(row)
    <2>1. PICK p \in Live(Target[r]) : row = <<p, status[p], validFrom[p]>>
        BY <1>3 DEF LiveRows
    <2>0. now <= 5 * Target[r] /\ now \in Nat /\ Target[r] \in Nat
        BY <1>3, ClosedMoment, ConstantTypes DEF Base, TypeOK
    <2>2. p \in Plans /\ expiry[p] = Target[r] /\ p \notin Active /\ p \in Pending
        BY <2>0, <2>1, NoneActiveYet DEF Live, Pending, Active
    <2>3. \A q \in Active : expiry[q] # Target[r]
        BY <2>0, NoneActiveYet
    <2> QED
        BY <2>1, <2>2, <2>3 DEF Pending
<1>4. \A r \in Runs : \A row \in cand[r].old : Good(row)
    BY DEF StagedRows
<1>5. \A r \in Runs : cand'[r].old = cand[r].old \/ cand'[r].old = {}
                        \/ (ClosedSession(r) /\ cand'[r].old = LiveRows(Target[r]))
    <2> USE DEF Base, TypeOK
    <2>1. ASSUME NEW r \in Runs, StageCandidate(r) PROVE <1>5!:
        BY <2>1 DEF StageCandidate
    <2>2. ASSUME NEW r \in Runs, StageEmpty(r) PROVE <1>5!:
        BY <2>2 DEF StageEmpty, NoCandidate
    <2>3. ASSUME CommitSwitch PROVE <1>5!:
        <3>1. cand' = cand \/ cand' = [cand EXCEPT ![switch.run] = [cand[switch.run] EXCEPT !.state = "SWITCHED"]]
            BY <2>3 DEF CommitSwitch
        <3>2. switch.run \in Runs
            BY <2>3 DEF CommitSwitch, ProcessSound
        <3>3. [cand[switch.run] EXCEPT !.state = "SWITCHED"].old = cand[switch.run].old
            BY <3>2
        <3> QED
            BY <3>1, <3>2, <3>3
    <2>4. CASE UNCHANGED cand
        BY <2>4
    <2> QED
        BY <2>1, <2>2, <2>3, <2>4
        DEF Next, Publish, PublishClose, PublishSameDay, PublishRegeneration, BindRegeneration, ReadCandidate,
            StageBundle, ReviewRead, ReviewExpire, ReviewActivate, RecoverStart, RecoverRead, RecoverActivate,
            MonitorRead, RecordInvalidation, Abandon, Tick, vars, reviews
<1> HIDE DEF Good, Good1
<1>6. \A r \in Runs : \A row \in cand'[r].old : Good1(row)
    BY <1>2, <1>3, <1>4, <1>5
<1> QED
    BY <1>6 DEF StagedRows, Good1

\* A switch leaves no plan of another run live for its session.
LEMMA SwitchTotal ==
    ASSUME Replacing, StagedRows, CommitSwitch, SwitchAllowed(switch.run), NEW r \in Runs, r = switch.run
    PROVE  Live(Target[r])' \subseteq PlansOf(r)
<1> USE DEF Replacing, Sound, Base, TypeOK
<1>1. status' = [q \in Plans |-> IF q \in PlansOf(switch.run) THEN "PENDING"
                                 ELSE IF q \in OldPlans(switch.run) THEN "SUPERSEDED" ELSE status[q]]
    BY DEF CommitSwitch, Inserted
<1>2. \A q \in OldPlans(switch.run) : status[q] = "PENDING" /\ q \in Plans
    BY DEF SwitchAllowed, OldScopeHolds, OldPlans, LiveRows, StagedRows, Live, Pending, Active, CommitSwitch,
                ProcessSound
<1>3. now \in Nat /\ Target[r] \in Nat /\ now <= 5 * Target[r] + 1
    <2>1. switch.wall \in Nat /\ now <= switch.wall + 1 /\ Phase(switch.wall) = 0
          /\ Day(switch.wall) = Target[r]
        BY DEF CommitSwitch, SwitchAllowed
    <2> QED
        BY <2>1, ConstantTypes DEF Day, Phase
<1>4. \A q \in Pending : expiry[q] = Target[r] => q \in OldPlans(r)
    BY DEF SwitchAllowed, OldScopeHolds, Live
<1>5. \A q \in Active : expiry[q] # Target[r]
    <2> SUFFICES ASSUME NEW q \in Active, expiry[q] = Target[r] PROVE FALSE
        OBVIOUS
    <2>1. q \in Live(Target[r]) /\ status[q] = "ACTIVE"
        BY DEF Live, Active
    <2>2. q \notin OldPlans(r)
        BY <1>2, <2>1
    <2>3. PICK o \in OldPlans(r) : TRUE
        BY <2>1, <2>2 DEF SwitchAllowed, OldScopeHolds
    <2>4. o \in Plans /\ expiry[o] = Target[r] /\ status[o] = "PENDING"
        BY <1>2, <2>3 DEF SwitchAllowed, OldScopeHolds, OldPlans, LiveRows, Live, Pending, Active
    <2>5. RunOf[q] = RunOf[o]
        <3>2. Target[RunOf[q]] = Target[r]
            BY <1>3, NoneActiveYet
        <3>1. PICK row \in cand[r].old : row[1] = o
            BY <2>3 DEF OldPlans
        <3> QED
            BY <2>4, <3>1, <3>2 DEF StagedRows
    <2>6. q \in OldPlans(r)
        BY <2>1, <2>3, <2>5 DEF SwitchAllowed, OldScopeHolds
    <2> QED
        BY <2>2, <2>6
<1>6. expiry' = expiry
    BY DEF CommitSwitch
<1> QED
    BY <1>1, <1>4, <1>5, <1>6 DEF Live, Pending, Active

LEMMA TotalStep ==
    ASSUME Replacing, StagedRows, [Next]_vars,
           NEW r \in Runs, Kind[r] \in {"regen", "candidate"},
           NEW p \in PlansOf(r), status[p] = "NONE", status'[p] = "PENDING"
    PROVE  Live(Target[r])' \subseteq PlansOf(r)
<1> USE DEF Replacing, Sound, Base, TypeOK
<1>1. RunOf[p] = r /\ p \in Plans
    BY DEF PlansOf
<1>2. ASSUME PublishRegeneration(r) PROVE Live(Target[r])' \subseteq PlansOf(r)
    <2>0. now <= 5 * Target[r] /\ now \in Nat /\ Target[r] \in Nat
        BY <1>2, ClosedMoment, ConstantTypes DEF PublishRegeneration
    <2>1. expiry' = expiry /\ \A q \in Active : expiry[q] # Target[r]
        BY <1>2, <2>0, NoneActiveYet DEF PublishRegeneration
    <2>2. \A q \in Pending : q \in PlansOf(r) \/ q \in regenOld[r] \cap Pending
        BY <1>2 DEF PublishRegeneration, RegenScopeHolds
    <2>3. status' = [q \in Plans |->
             IF q \in PlansOf(r) THEN Republished(q, FALSE)
             ELSE IF q \in regenOld[r] \cap Pending THEN "SUPERSEDED"
             ELSE status[q]]
        BY <1>2 DEF PublishRegeneration
    <2> QED
        BY <2>1, <2>2, <2>3 DEF Live, Pending, Active
<1>3. ASSUME CommitSwitch, SwitchAllowed(switch.run) PROVE Live(Target[r])' \subseteq PlansOf(r)
    <2>1. status' = [q \in Plans |-> IF q \in PlansOf(switch.run) THEN "PENDING"
                                     ELSE IF q \in OldPlans(switch.run) THEN "SUPERSEDED" ELSE status[q]]
        BY <1>3 DEF CommitSwitch, Inserted
    <2>2. switch.run = r
        BY <1>1, <2>1 DEF PlansOf
    <2> QED
        BY <1>3, <2>2, SwitchTotal
<1>4. ASSUME NEW r2 \in Runs, PublishRegeneration(r2) PROVE r2 = r
    BY <1>1, <1>4 DEF PublishRegeneration, PlansOf
<1>5. ASSUME NEW r2 \in Runs, PublishClose(r2) PROVE FALSE
    BY <1>1, <1>5 DEF PublishClose, PlansOf, Retired
<1>6. ASSUME NEW r2 \in Runs, PublishSameDay(r2) PROVE FALSE
    BY <1>1, <1>6 DEF PublishSameDay, PlansOf, Retired
<1>7. ASSUME CommitSwitch PROVE SwitchAllowed(switch.run)
    BY <1>1, <1>7 DEF CommitSwitch
<1>8. ASSUME NEW q \in Plans, ReviewExpire(q) PROVE FALSE
    BY <1>1, <1>8 DEF ReviewExpire
<1>9. ASSUME ReviewActivate PROVE FALSE
    BY <1>1, <1>9 DEF ReviewActivate, Activated
<1>10. ASSUME NEW a \in {"monitor", "operator"}, RecoverActivate(a) PROVE FALSE
    BY <1>1, <1>10 DEF RecoverActivate, Activated
<1>11. ASSUME NEW q \in Plans, RecordInvalidation(q) PROVE FALSE
    BY <1>1, <1>11 DEF RecordInvalidation
<1>12. CASE UNCHANGED status
    BY <1>12
<1> QED
    BY <1>2, <1>3, <1>4, <1>5, <1>6, <1>7, <1>8, <1>9, <1>10, <1>11, <1>12
    DEF Next, Publish, BindRegeneration, StageCandidate, StageEmpty, ReadCandidate, StageBundle,
        ReviewRead, RecoverStart, RecoverRead, MonitorRead, Abandon, Tick, vars, rows

\* When a regeneration or a reviewed switch brings its plans in, no plan of
\* another run stays live for that session, although the plans were compared
\* with readings of hours before (publish_plan_batch with
\* supersede_pending_plan_ids, commit_reviewed_batch_switch).
THEOREM TotalReplacement == Spec => ReplacementIsTotal
<1>1. Init => Replacing /\ StagedRows
    BY SoundInit DEF Init, Replacing, StagedRows, PendingOneRun, Pending, ActiveLate, Active, NoCandidate
<1>2. Replacing /\ StagedRows /\ [Next]_vars => Replacing' /\ StagedRows'
    BY SoundStep, PendingStep, ActiveLateStep, StagedRowsStep DEF Replacing, Sound
<1>3. Replacing /\ StagedRows /\ [Next]_vars =>
        [\A p \in Plans : (/\ status[p] = "NONE" /\ status'[p] = "PENDING"
                           /\ Kind[RunOf[p]] \in {"regen", "candidate"})
            => Live(Target[RunOf[p]])' \subseteq PlansOf(RunOf[p])]_vars
    <2>1. \A p \in Plans : RunOf[p] \in Runs /\ p \in PlansOf(RunOf[p])
        BY PlanAssumption DEF PlansOf
    <2> QED
        BY <2>1, TotalStep
<1> QED
    BY <1>1, <1>2, <1>3, PTL DEF Spec, ReplacementIsTotal

-----------------------------------------------------------------------------
(* The monitor's recovery.                                                 *)

\* A monitor round ends on the day it began: the Node runner kills it after 58
\* seconds (server/runner.ts, timeoutForJob).
MonitorOfToday == recovery["monitor"] # Idle => Day(recovery["monitor"].at) = Day(now)

\* What the monitor's recovery is about to activate is not a same-day batch.
Proven ==
    recovery["monitor"].pc = "activate" => \A p \in recovery["monitor"].ids : SourceProven(p)

\* Beside a pending plan of a close, regeneration or candidate no plan of another
\* run for the same session is active in it.
Beside ==
    \A p \in Pending : \A q \in Active :
        SourceProven(p) /\ expiry[q] = expiry[p] /\ Target[RunOf[q]] = expiry[p] => RunOf[q] = RunOf[p]

\* In the evening, once a plan of the next session is published, only a same-day
\* batch may still be pending for an earlier one.
Evening ==
    \A p \in Pending : \A q \in Plans :
        /\ status[q] # "NONE" /\ now + 1 = 5 * Target[RunOf[q]]
        /\ SourceProven(p)
        => Target[RunOf[q]] <= expiry[p]

\* A moment of day d is not before the start of d.
LEMMA DayStarts ==
    ASSUME NEW t \in Nat, NEW d \in Nat, Day(t) = d
    PROVE  t >= 5 * d
BY DEF Day

\* Of the moments of an earlier day only the last is one tick before day d.
LEMMA NextDayNear ==
    ASSUME NEW t \in Nat, NEW d \in Nat, NEW e \in Nat, Day(t) = e, e < d, t + 1 >= 5 * d
    PROVE  t + 1 = 5 * d
BY DEF Day

\* The monitor takes only plans of a proven source.
LEMMA ProvenStep == ASSUME Base, Proven, [Next]_vars PROVE Proven'
<1> USE DEF Base, TypeOK, SourceProven
<1>1. ASSUME NEW a \in {"monitor", "operator"}, RecoverStart(a) PROVE Proven'
    BY <1>1 DEF RecoverStart, Proven
<1>2. ASSUME NEW a \in {"monitor", "operator"}, RecoverRead(a) PROVE Proven'
    <2>1. CASE a = "operator"
        <3>1. recovery'["monitor"] = recovery["monitor"]
            BY <1>2, <2>1 DEF RecoverRead
        <3> QED
            BY <3>1 DEF Proven
    <2>2. CASE a = "monitor"
        <3> DEFINE found == {p \in Pending :
                               /\ Expiry(p) >= recovery[a].at
                               /\ a = "monitor" =>
                                    /\ expiry[p] = Day(recovery[a].at)
                                    /\ recovery[a].runs = {} \/ RunOf[p] \in recovery[a].runs}
                   taken(r) == {p \in found : RunOf[p] = r /\ (a = "monitor" => SourceProven(p))}
        <3>1. recovery \in [{"monitor", "operator"} -> Process]
            OBVIOUS
        <3>2. \/ recovery' = [recovery EXCEPT ![a] = Idle]
              \/ \E r \in {RunOf[p] : p \in found} :
                   recovery' = [recovery EXCEPT ![a].pc = "activate", ![a].run = r, ![a].ids = taken(r)]
            BY <1>2 DEF RecoverRead
        <3>3. CASE recovery' = [recovery EXCEPT ![a] = Idle]
            BY <2>2, <3>1, <3>3 DEF Idle, Proven
        <3>4. ASSUME NEW r,
                     recovery' = [recovery EXCEPT ![a].pc = "activate", ![a].run = r, ![a].ids = taken(r)]
              PROVE  Proven'
            <4>1. \A p \in taken(r) : SourceProven(p)
                BY <2>2
            <4> HIDE DEF taken
            <4>2. recovery'["monitor"].ids = taken(r)
                BY <2>2, <3>1, <3>4 DEF Process
            <4> QED
                BY <4>1, <4>2 DEF Proven
        <3> HIDE DEF taken, found
        <3> QED
            BY <3>2, <3>3, <3>4
    <2> QED
        BY <2>1, <2>2
<1>3. ASSUME NEW a \in {"monitor", "operator"}, RecoverActivate(a) PROVE Proven'
    BY <1>3 DEF RecoverActivate, Proven, Idle
<1>4. ASSUME Abandon PROVE Proven'
    BY <1>4 DEF Abandon, Proven, Idle
<1>5. CASE UNCHANGED recovery
    BY <1>5 DEF Proven
<1> QED
    BY <1>1, <1>2, <1>3, <1>4, <1>5
    DEF Next, Publish, PublishClose, PublishSameDay, PublishRegeneration, BindRegeneration, StageCandidate,
        StageEmpty, ReadCandidate, StageBundle, CommitSwitch, ReviewRead, ReviewExpire, ReviewActivate,
        MonitorRead, RecordInvalidation, Tick, vars, procs

\* A publication leaves only its own plans pending, and activates none.
LEMMA Publishes ==
    ASSUME Base, NEW r \in Runs, PublishClose(r) \/ PublishRegeneration(r)
    PROVE  /\ ClosedSession(r) /\ expiry' = expiry /\ now' = now
           /\ Pending' \subseteq PlansOf(r) /\ Active' \subseteq Active
<1> USE DEF Base, TypeOK
<1>1. CASE PublishClose(r)
    BY <1>1 DEF PublishClose, Pending, Active, Retired, Republished, Inserted
<1>2. CASE PublishRegeneration(r)
    BY <1>2 DEF PublishRegeneration, RegenScopeHolds, Pending, Active, Republished, Inserted
<1> QED
    BY <1>1, <1>2

\* A switch happens before 09:32 of the session it is for.
LEMMA SwitchMoment ==
    ASSUME Base, CommitSwitch, SwitchAllowed(switch.run)
    PROVE  /\ switch.run \in Runs /\ now' = now
           /\ 5 * Target[switch.run] <= now /\ now <= 5 * Target[switch.run] + 1
<1>1. PICK r \in Runs : r = switch.run
    BY DEF CommitSwitch, Base, ProcessSound
<1>2. /\ switch.wall \in Nat /\ switch.wall <= now /\ now <= switch.wall + 1 /\ now \in Nat /\ now' = now
      /\ Phase(switch.wall) = 0 /\ Day(switch.wall) = Target[r]
    BY <1>1 DEF CommitSwitch, SwitchAllowed, Base, TypeOK, ProcessSound
<1> QED
    BY <1>1, <1>2, ConstantTypes DEF Day, Phase

\* A plan is inserted by a publication or a switch of its run.
LEMMA Insertion ==
    ASSUME Base, [Next]_vars, NEW p \in Plans, status[p] = "NONE", status'[p] = "PENDING"
    PROVE  \/ PublishClose(RunOf[p]) \/ PublishRegeneration(RunOf[p])
           \/ PublishSameDay(RunOf[p])
           \/ CommitSwitch /\ SwitchAllowed(switch.run) /\ switch.run = RunOf[p]
<1> USE DEF Base, TypeOK
<1>1. ASSUME NEW r \in Runs, PublishClose(r) PROVE r = RunOf[p]
    BY <1>1 DEF PublishClose, PlansOf, Retired
<1>2. ASSUME NEW r \in Runs, PublishSameDay(r) PROVE r = RunOf[p]
    BY <1>2 DEF PublishSameDay, PlansOf, Retired
<1>3. ASSUME NEW r \in Runs, PublishRegeneration(r) PROVE r = RunOf[p]
    BY <1>3 DEF PublishRegeneration, PlansOf
<1>4. ASSUME CommitSwitch PROVE SwitchAllowed(switch.run) /\ switch.run = RunOf[p]
    BY <1>4 DEF CommitSwitch, PlansOf
<1>5. ASSUME NEW q \in Plans, ReviewExpire(q) PROVE FALSE
    BY <1>5 DEF ReviewExpire
<1>6. ASSUME ReviewActivate PROVE FALSE
    BY <1>6 DEF ReviewActivate, Activated
<1>7. ASSUME NEW a \in {"monitor", "operator"}, RecoverActivate(a) PROVE FALSE
    BY <1>7 DEF RecoverActivate, Activated
<1>8. ASSUME NEW q \in Plans, RecordInvalidation(q) PROVE FALSE
    BY <1>8 DEF RecordInvalidation
<1>9. CASE UNCHANGED status
    BY <1>9
<1> QED
    BY <1>1, <1>2, <1>3, <1>4, <1>5, <1>6, <1>7, <1>8, <1>9
    DEF Next, Publish, BindRegeneration, StageCandidate, StageEmpty, ReadCandidate, StageBundle,
        ReviewRead, RecoverStart, RecoverRead, MonitorRead, Abandon, Tick, vars, rows

LEMMA BesideStep ==
    ASSUME Replacing, StagedRows, Beside, [Next]_vars
    PROVE  Beside'
<1> USE DEF Replacing, Sound
<1>1. \A p \in Plans : /\ StatusStep(p) /\ expiry[p] \in Nat /\ expiry'[p] \in Nat
                       /\ RunOf[p] \in Runs /\ Target[RunOf[p]] \in Nat
    BY PlanStep, BaseStep, ConstantTypes DEF Base, TypeOK
<1>2. \A p \in Plans : status[p] \in {"NONE", "PENDING"} => expiry[p] = Target[RunOf[p]]
    BY DEF Horizons
<1>3. SUFFICES ASSUME NEW p \in Pending', NEW q \in Active',
                      SourceProven(p), expiry'[q] = expiry'[p], Target[RunOf[q]] = expiry'[p]
               PROVE  RunOf[q] = RunOf[p]
    BY DEF Beside, SourceProven
<1>4. p \in Plans /\ q \in Plans /\ status'[p] = "PENDING" /\ status'[q] = "ACTIVE"
    BY DEF Pending, Active
<1>5. status[p] \in {"NONE", "PENDING"} /\ expiry'[p] = expiry[p] /\ expiry[p] = Target[RunOf[p]]
    BY <1>1, <1>2, <1>4 DEF StatusStep
<1>6. CASE status[p] = "PENDING" /\ status[q] = "PENDING"
    BY <1>1, <1>2, <1>3, <1>4, <1>5, <1>6 DEF PendingOneRun, Pending
<1>7. CASE status[p] = "PENDING" /\ status[q] # "PENDING"
    <2>1. status[q] = "ACTIVE" /\ expiry'[q] = expiry[q]
        BY <1>1, <1>4, <1>7 DEF StatusStep
    <2> QED
        BY <1>3, <1>4, <1>5, <1>7, <2>1 DEF Beside, Pending, Active
<1>8. CASE status[p] = "NONE"
    <2>1. PICK r \in Runs : r = RunOf[p]
        BY <1>1, <1>4
    <2>2. CASE PublishClose(r) \/ PublishRegeneration(r)
        <3>1. ClosedSession(r) /\ q \in Active /\ expiry' = expiry
            BY <1>3, <2>2, Publishes
        <3>2. now <= 5 * Target[r] /\ now \in Nat /\ Target[r] \in Nat
            BY <3>1, ClosedMoment, ConstantTypes DEF Base, TypeOK
        <3> QED
            BY <1>3, <1>5, <2>1, <3>1, <3>2, NoneActiveYet
    <2>3. CASE CommitSwitch /\ SwitchAllowed(switch.run) /\ switch.run = r
        <3>1. Live(Target[r])' \subseteq PlansOf(r)
            BY <2>3, SwitchTotal
        <3>2. q \in Live(Target[r])'
            BY <1>3, <1>5, <2>1 DEF Live
        <3> QED
            BY <2>1, <3>1, <3>2 DEF PlansOf
    <2>4. ~PublishSameDay(r)
        BY <1>3, <2>1 DEF PublishSameDay, SourceProven
    <2> QED
        BY <1>4, <1>8, <2>1, <2>2, <2>3, <2>4, Insertion
<1> QED
    BY <1>5, <1>6, <1>7, <1>8

LEMMA EveningStep ==
    ASSUME Sound, Evening, [Next]_vars
    PROVE  Evening'
<1> USE DEF Sound
<1>1. \A p \in Plans : /\ StatusStep(p) /\ expiry[p] \in Nat /\ expiry'[p] \in Nat
                       /\ RunOf[p] \in Runs /\ Target[RunOf[p]] \in Nat
    BY PlanStep, BaseStep, ConstantTypes DEF Base, TypeOK
<1>2. \A p \in Plans : status[p] \in {"NONE", "PENDING"} => expiry[p] = Target[RunOf[p]]
    BY DEF Horizons
<1>3. SUFFICES ASSUME NEW p \in Pending', NEW q \in Plans, status'[q] # "NONE", now' + 1 = 5 * Target[RunOf[q]],
                      SourceProven(p)
               PROVE  Target[RunOf[q]] <= expiry'[p]
    BY DEF Evening, SourceProven
<1>4. p \in Plans /\ status'[p] = "PENDING"
    BY DEF Pending
<1>5. status[p] \in {"NONE", "PENDING"} /\ expiry'[p] = expiry[p] /\ expiry[p] = Target[RunOf[p]]
    BY <1>1, <1>2, <1>4 DEF StatusStep
<1>6. now \in Nat /\ now' \in Nat /\ now' >= now
    BY Time
<1>7. CASE status[q] # "NONE"
    <2>1. now' = now
        <3>1. now + 1 >= 5 * Target[RunOf[q]]
            BY <1>7 DEF Horizons
        <3> QED
            BY <1>1, <1>3, <1>6, <3>1
    <2>2. CASE status[p] = "PENDING"
        BY <1>3, <1>4, <1>5, <1>7, <2>1, <2>2 DEF Evening, Pending
    <2>3. CASE status[p] = "NONE"
        <3>1. PICK r \in Runs : r = RunOf[p]
            BY <1>1, <1>4
        <3>2. CASE PublishClose(r) \/ PublishRegeneration(r)
            <4>1. now <= 5 * Target[r] /\ now + 1 >= 5 * Target[r] /\ Target[r] \in Nat
                BY <3>2, Publishes, ClosedMoment, ConstantTypes
            <4>2. Target[RunOf[q]] \in Nat /\ now + 1 = 5 * Target[RunOf[q]]
                BY <1>1, <1>3, <2>1
            <4> QED
                BY <1>5, <1>6, <3>1, <4>1, <4>2
        <3>3. CASE CommitSwitch /\ SwitchAllowed(switch.run) /\ switch.run = r
            <4>1. 5 * Target[r] <= now /\ now <= 5 * Target[r] + 1 /\ Target[r] \in Nat
                BY <3>3, SwitchMoment, ConstantTypes
            <4>2. Target[RunOf[q]] \in Nat /\ now + 1 = 5 * Target[RunOf[q]]
                BY <1>1, <1>3, <2>1
            <4> QED
                BY <1>6, <4>1, <4>2
        <3>4. ~PublishSameDay(r)
            BY <1>3, <3>1 DEF PublishSameDay, SourceProven
        <3> QED
            BY <1>4, <2>3, <3>1, <3>2, <3>3, <3>4, Insertion
    <2> QED
        BY <1>5, <2>2, <2>3
<1>8. CASE status[q] = "NONE"
    <2>1. status'[q] = "PENDING"
        BY <1>1, <1>3, <1>8 DEF StatusStep
    <2>2. PICK r \in Runs : r = RunOf[q]
        BY <1>1
    <2>3. CASE PublishClose(r) \/ PublishRegeneration(r)
        <3>1. p \in PlansOf(r)
            BY <2>3, Publishes
        <3> QED
            BY <1>1, <1>4, <1>5, <2>2, <3>1 DEF PlansOf
    <2>4. CASE CommitSwitch /\ SwitchAllowed(switch.run) /\ switch.run = r
        BY <1>1, <1>3, <1>6, <2>2, <2>4, SwitchMoment
    <2>5. ASSUME PublishSameDay(r) PROVE FALSE
        <3>1. Day(now) = Target[r] /\ now' = now /\ Target[r] \in Nat
            BY <1>1, <2>2, <2>5 DEF PublishSameDay
        <3>2. now >= 5 * Target[r]
            BY <1>6, <3>1, DayStarts
        <3>3. now + 1 = 5 * Target[r]
            BY <1>3, <2>2, <3>1
        <3> QED
            BY <1>6, <3>1, <3>2, <3>3
    <2> QED
        BY <1>8, <2>1, <2>2, <2>3, <2>4, <2>5, Insertion
<1> QED
    BY <1>7, <1>8

Recovering == Replacing /\ StagedRows /\ Proven /\ Beside /\ Evening

\* The monitor's recovery is the only step that changes its own process and
\* activates a plan.
LEMMA RecoveryStep ==
    ASSUME Recovering, MonitorOfToday, [Next]_vars, recovery'["monitor"] # recovery["monitor"],
           NEW p \in Plans, status[p] # "ACTIVE", status'[p] = "ACTIVE",
           NEW q \in Active, expiry[q] = expiry[p]
    PROVE  RunOf[q] = RunOf[p]
<1> USE DEF Recovering, Replacing, Sound, Base, TypeOK
<1>1. RecoverActivate("monitor")
    <2>1. ASSUME RecoverActivate("operator") PROVE FALSE
        BY <2>1 DEF RecoverActivate
    <2>2. ~UNCHANGED status /\ ~UNCHANGED recovery
        OBVIOUS
    <2> QED
        BY <2>1, <2>2
        DEF Next, Publish, PublishClose, PublishSameDay, PublishRegeneration, BindRegeneration, StageCandidate,
            StageEmpty, ReadCandidate, StageBundle, CommitSwitch, ReviewRead, ReviewExpire, ReviewActivate,
            RecoverStart, RecoverRead, MonitorRead, RecordInvalidation, Abandon, Tick, vars, rows, procs
<1>2. PICK act \in SUBSET recovery["monitor"].ids, inv \in SUBSET recovery["monitor"].ids :
        /\ LatestAccepts("monitor", act, inv, RecoveryTime("monitor"))
        /\ Activated(act \cap Pending, inv \cap Pending, RecoveryTime("monitor"))
    BY <1>1 DEF RecoverActivate
<1>3. p \in act /\ p \in Pending /\ recovery["monitor"].pc = "activate"
    BY <1>1, <1>2 DEF Activated, RecoverActivate, Active
<1>4. SourceProven(p) /\ ActivationOk(expiry[p], RecoveryTime("monitor")) /\ expiry[p] = Target[RunOf[p]]
    BY <1>2, <1>3 DEF Proven, LatestAccepts, Horizons, Pending
<1>5. Day(now) = expiry[p] /\ now \in Nat /\ expiry[p] \in Nat
    <2>1. recovery["monitor"] # Idle
        BY <1>3 DEF Idle
    <2>2. Day(recovery["monitor"].at) = Day(now)
        BY <2>1 DEF MonitorOfToday
    <2>3. recovery["monitor"].at \in Nat /\ Phase(recovery["monitor"].at) \in {1, 2, 3}
        BY <1>3 DEF ProcessSound, Process
    <2>4. Day(RecoveryTime("monitor")) = Day(recovery["monitor"].at)
        BY <2>3, Clock DEF RecoveryTime
    <2> QED
        BY <1>4, <2>2, <2>4 DEF ActivationOk
<1>6. q \in Plans /\ Target[RunOf[q]] \in Nat /\ status[q] # "NONE" /\ expiry[q] <= Target[RunOf[q]]
      /\ now + 1 >= 5 * Target[RunOf[q]]
    BY ConstantTypes DEF Active, Horizons
<1>7. CASE Target[RunOf[q]] = expiry[p]
    BY <1>3, <1>4, <1>7 DEF Beside
<1>8. CASE Target[RunOf[q]] # expiry[p]
    <2>1. PICK d \in Nat : d = Target[RunOf[q]]
        BY <1>6
    <2>2. PICK e \in Nat : e = expiry[p]
        BY <1>5
    <2>3. e < d /\ Day(now) = e /\ now + 1 >= 5 * d
        <3>1. e <= d /\ e # d
            <4>1. expiry[q] = e
                BY <2>2
            <4> QED
                BY <1>6, <1>8, <2>1, <2>2, <4>1
        <3>2. now + 1 >= 5 * d
            BY <1>6, <2>1
        <3>3. Day(now) = e
            BY <1>5, <2>2
        <3> HIDE DEF Base, TypeOK
        <3> QED
            BY <3>1, <3>2, <3>3
    <2>4. now + 1 = 5 * d
        BY <1>5, <2>3, NextDayNear
    <2>5. d <= e
        BY <1>3, <1>4, <1>6, <2>1, <2>2, <2>4 DEF Evening
    <2> QED
        BY <2>3, <2>5
<1> QED
    BY <1>7, <1>8

\* A monitor round that ends on its day activates no plan beside an active plan of
\* another run and the same horizon, although the active runs and the pending plans are
\* read in two transactions and activated in a third
\* (activate_latest_a3_for_monitor, activate_latest_a3_plan_batch).
THEOREM RecoveryJoinsItsBatch == Spec /\ []MonitorOfToday => RecoveryKeepsBatch
<1> DEFINE Body == recovery'["monitor"] # recovery["monitor"] =>
                     \A p \in Plans : (status[p] # "ACTIVE" /\ status'[p] = "ACTIVE") =>
                         \A q \in Active : expiry[q] = expiry[p] => RunOf[q] = RunOf[p]
<1>1. Init => Recovering
    BY SoundInit
    DEF Init, Recovering, Replacing, StagedRows, PendingOneRun, Pending, ActiveLate, Active, NoCandidate,
        Proven, Idle, Beside, Evening
<1>2. Recovering /\ [Next]_vars => Recovering'
    BY SoundStep, PendingStep, ActiveLateStep, StagedRowsStep, ProvenStep, BesideStep, EveningStep
    DEF Recovering, Replacing, Sound
<1>3. Recovering /\ MonitorOfToday /\ [Next]_vars => [Body]_vars
    BY RecoveryStep
<1>4. Spec /\ []MonitorOfToday => [][Body]_vars
    BY <1>1, <1>2, <1>3, PTL DEF Spec
<1> QED
    BY <1>4 DEF RecoveryKeepsBatch
=============================================================================
