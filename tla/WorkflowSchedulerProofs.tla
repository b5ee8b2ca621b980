---------------------- MODULE WorkflowSchedulerProofs ----------------------
(***************************************************************************)
(* Proofs about WorkflowScheduler and the runner below it, for any jobs,   *)
(* timetable, number of days and bounds: types, the slots, what an orderly *)
(* exit leaves behind, what is started, and what is not forgotten.         *)
(*                                                                         *)
(* The two properties of the slots are one invariant with a third part: a  *)
(* run whose last timer is armed, or that was given up, was sent SIGKILL   *)
(* (Laddered).  The exit needs a fourth: stop has marked every run that    *)
(* was pending when it was called (Marked).                                *)
(*                                                                         *)
(* The rest follows the keys that are asked of a job (Asks: in the queue,  *)
(* in a BUSY answer, in a retry timer) back to the clock of the tick that  *)
(* asked: Plain (one key at a time), Down, Timely (a key names an instant  *)
(* that was reached), then OnceInv (no key that was started is ahead of a  *)
(* clock that may still ask), ReadyInv (what is asked from 06:50 on is of  *)
(* a day that is ready) and OwedInv (what is owed is still asked).         *)
(***************************************************************************)
EXTENDS WorkflowScheduler, TLAPS

RunnerType ==
    /\ slot \in [Slots -> Ids \cup {None}] /\ run \in [Ids -> RunRecord]
    /\ node \in {"up", "stopping", "down"}

Laddered == \A i \in Ids : run[i].timer \in {"hardFinish", "off"} => run[i].signal = "SIGKILL"

RunnerInv == RunnerType /\ SlotsHeldByPending /\ Laddered

Marked ==
    /\ running => node = "up"
    /\ node = "stopping" => \A i \in Ids : Pending(i) => run[i].era # "served"

Eras == {"served", "doomed", "late"}

LEMMA NoRunType == NoRun \in RunRecord /\ NoRun.timer = "free"
<1>1. (CHOOSE j \in Jobs : TRUE) \in Jobs
  BY SchedulerAssumption
<1>2. (CHOOSE k \in Keys : TRUE) \in Keys
  BY RunnerAssumption
<1> QED BY <1>1, <1>2 DEF NoRun, RunRecord

LEMMA SlotOfType == \A j \in Jobs : SlotOf[j] \in Slots
  BY RunnerAssumption DEF Slots

-----------------------------------------------------------------------------
(* The steps of the runner keep its invariant.                             *)

LEMMA RunChildKeeps ==
  ASSUME RunnerInv, NEW j \in Jobs, NEW k \in Keys, NEW era \in Eras,
         SlotFree(j), RunChild(j, k, era)
  PROVE  RunnerInv'
<1>1. PICK i \in Free :
        /\ run' = [run EXCEPT ![i] = [job |-> j, key |-> k, timer |-> "timeout",
                                      signal |-> "none", era |-> era]]
        /\ slot' = [slot EXCEPT ![SlotOf[j]] = i]
        /\ node' = node
  BY DEF RunChild
<1>2. i \in Ids /\ ~Exists(i)
  BY <1>1 DEF Free
<1>3. RunnerType'
  BY <1>1, <1>2, SlotOfType DEF RunnerInv, RunnerType, RunRecord, Eras
<1>4. Laddered'
  BY <1>1, <1>2 DEF RunnerInv, RunnerType, Laddered
<1>5. SlotsHeldByPending'
  <2>1. i # None
    BY <1>2, RunnerAssumption
  <2>2. \A s \in Slots : slot[s] # i
    BY <1>2, <2>1 DEF RunnerInv, SlotsHeldByPending, Pending, Exists
  <2>3. \A o \in Ids \ {i} : run'[o] = run[o]
    BY <1>1, <1>2 DEF RunnerInv, RunnerType
  <2>4. run'[i].job = j /\ run'[i].timer = "timeout"
    BY <1>1, <1>2 DEF RunnerInv, RunnerType
  <2>5. \A s \in Slots : slot'[s] = IF s = SlotOf[j] THEN i ELSE slot[s]
    BY <1>1, SlotOfType DEF RunnerInv, RunnerType
  <2>6. \A s \in Slots : slot'[s] # None => Pending(slot[s])' /\ SlotOf[run'[slot'[s]].job] = s
    BY <2>2, <2>3, <2>4, <2>5, SlotOfType DEF RunnerInv, RunnerType, SlotsHeldByPending, Pending
  <2>7. \A o \in Ids : Pending(o)' => slot'[SlotOf[run'[o].job]] = o
    <3> TAKE o \in Ids
    <3> HAVE Pending(o)'
    <3>1. CASE o = i
      BY <3>1, <2>4, <2>5, SlotOfType
    <3>2. CASE o # i
      <4>1. Pending(o) /\ slot[SlotOf[run[o].job]] = o
        BY <3>2, <2>3 DEF RunnerInv, SlotsHeldByPending, Pending
      <4>2. SlotOf[run[o].job] # SlotOf[j]
        BY <4>1, RunnerAssumption DEF SlotFree
      <4>3. SlotOf[run[o].job] \in Slots
        BY SlotOfType DEF RunnerInv, RunnerType, RunRecord
      <4> QED BY <3>2, <4>1, <4>2, <4>3, <2>3, <2>5
    <3> QED BY <3>1, <3>2
  <2> QED BY <2>6, <2>7 DEF SlotsHeldByPending
<1> QED BY <1>3, <1>4, <1>5 DEF RunnerInv

LEMMA SettleKeeps ==
  ASSUME RunnerInv, NEW i \in Ids, NEW survives \in BOOLEAN, Pending(i),
         survives => CanHardFinish(i), Settle(i, survives)
  PROVE  RunnerInv'
<1> DEFINE s0 == SlotOf[run[i].job]
<1>1. s0 \in Slots /\ slot[s0] = i
  BY SlotOfType DEF RunnerInv, RunnerType, RunRecord, SlotsHeldByPending
<1>2. \A s \in Slots : slot'[s] = IF s = s0 THEN None ELSE slot[s]
  BY <1>1 DEF RunnerInv, RunnerType, Settle
<1>3. \A o \in Ids \ {i} : run'[o] = run[o]
  BY DEF RunnerInv, RunnerType, Settle
<1>4. run'[i] = IF survives THEN [run[i] EXCEPT !.timer = "off"] ELSE NoRun
  BY DEF RunnerInv, RunnerType, Settle
<1>5. run'[i] \in RunRecord /\ run'[i].timer \in {"off", "free"}
  BY <1>4, NoRunType DEF RunnerInv, RunnerType, RunRecord
<1>6. RunnerType'
  <2>1. run' \in [Ids -> RunRecord]
    BY <1>4, <1>5 DEF RunnerInv, RunnerType, Settle
  <2>2. slot' \in [Slots -> Ids \cup {None}]
    BY <1>1 DEF RunnerInv, RunnerType, Settle
  <2> QED BY <2>1, <2>2 DEF RunnerInv, RunnerType, Settle
<1>7. Laddered'
  <2>1. run'[i].timer \in {"hardFinish", "off"} => run'[i].signal = "SIGKILL"
    BY <1>4, NoRunType DEF RunnerInv, RunnerType, RunRecord, Laddered, CanHardFinish
  <2> QED BY <2>1, <1>3 DEF RunnerInv, Laddered
<1>8. SlotsHeldByPending'
  <2>1. ~Pending(i)'
    BY <1>5 DEF Pending
  <2>2. \A s \in Slots \ {s0} : slot[s] # i
    BY <1>1, RunnerAssumption DEF RunnerInv, SlotsHeldByPending
  <2>3. \A s \in Slots : slot'[s] # None => Pending(slot[s])' /\ SlotOf[run'[slot'[s]].job] = s
    BY <1>2, <1>3, <2>2 DEF RunnerInv, RunnerType, SlotsHeldByPending, Pending
  <2>4. \A o \in Ids : Pending(o)' => slot'[SlotOf[run'[o].job]] = o
    <3> SUFFICES ASSUME NEW o \in Ids, Pending(o)' PROVE slot'[SlotOf[run'[o].job]] = o
      OBVIOUS
    <3>1. o # i
      BY <2>1
    <3>2. Pending(o) /\ slot[SlotOf[run[o].job]] = o /\ run'[o] = run[o]
      BY <3>1, <1>3 DEF RunnerInv, SlotsHeldByPending, Pending
    <3>3. SlotOf[run[o].job] \in Slots
      BY SlotOfType DEF RunnerInv, RunnerType, RunRecord
    <3> QED BY <3>1, <3>2, <3>3, <1>1, <1>2
  <2> QED BY <2>3, <2>4 DEF SlotsHeldByPending
<1> QED BY <1>6, <1>7, <1>8 DEF RunnerInv

\* A run that changes without ending, or that had ended, disturbs nothing.
LEMMA RelabelKeeps ==
  ASSUME RunnerInv, NEW i \in Ids, NEW r \in RunRecord,
         run' = [run EXCEPT ![i] = r], UNCHANGED <<slot, node>>,
         Pending(i) <=> r.timer \in {"timeout", "escalation", "hardFinish"},
         Pending(i) => r.job = run[i].job,
         r.timer \in {"hardFinish", "off"} => r.signal = "SIGKILL"
  PROVE  RunnerInv'
<1>1. run'[i] = r /\ \A o \in Ids \ {i} : run'[o] = run[o]
  BY DEF RunnerInv, RunnerType
<1>2. RunnerType'
  BY DEF RunnerInv, RunnerType
<1>3. Laddered'
  BY <1>1 DEF RunnerInv, Laddered
<1>4. \A o \in Ids : (Pending(o)' <=> Pending(o)) /\ (Pending(o) => run'[o].job = run[o].job)
  BY <1>1 DEF Pending
<1>5. \A s \in Slots : slot[s] # None => slot[s] \in Ids
  BY DEF RunnerInv, RunnerType
<1>6. \A s \in Slots : slot[s] # None => Pending(slot[s])' /\ SlotOf[run'[slot[s]].job] = s
  BY <1>4, <1>5 DEF RunnerInv, SlotsHeldByPending
<1>7. \A o \in Ids : Pending(o)' => slot[SlotOf[run'[o].job]] = o
  BY <1>4 DEF RunnerInv, SlotsHeldByPending
<1>8. SlotsHeldByPending'
  BY <1>6, <1>7 DEF SlotsHeldByPending, Pending
<1> QED BY <1>2, <1>3, <1>8 DEF RunnerInv

LEMMA TimersKeep ==
  ASSUME RunnerInv, NEW i \in Ids,
         StrayExits(i) \/ Timeout(i) \/ Escalate(i) \/ StopEscalates(i)
  PROVE  RunnerInv'
<1>0. run[i] \in RunRecord /\ run \in [Ids -> RunRecord]
  BY DEF RunnerInv, RunnerType
<1>1. CASE StrayExits(i)
  BY <1>1, RelabelKeeps, NoRunType DEF StrayExits, Strays, Pending
<1>2. CASE Timeout(i)
  <2> DEFINE r == [run[i] EXCEPT !.timer = "escalation", !.signal = Stronger(@, "SIGTERM")]
  <2>1. r \in RunRecord /\ r.timer = "escalation" /\ r.job = run[i].job
    BY <1>0 DEF RunRecord, Stronger
  <2>2. run' = [run EXCEPT ![i] = r] /\ UNCHANGED <<slot, node>>
    BY <1>0, <1>2 DEF Timeout, RunRecord
  <2>3. Pending(i)
    BY <1>2 DEF Timeout, Pending
  <2> HIDE DEF r
  <2> QED BY <2>1, <2>2, <2>3, RelabelKeeps
<1>3. CASE Escalate(i)
  <2> DEFINE r == [run[i] EXCEPT !.timer = "hardFinish", !.signal = "SIGKILL"]
  <2>1. r \in RunRecord /\ r.timer = "hardFinish" /\ r.job = run[i].job /\ r.signal = "SIGKILL"
    BY <1>0 DEF RunRecord
  <2>2. run' = [run EXCEPT ![i] = r] /\ UNCHANGED <<slot, node>>
    BY <1>0, <1>3 DEF Escalate, RunRecord
  <2>3. Pending(i)
    BY <1>3 DEF Escalate, Pending
  <2> HIDE DEF r
  <2> QED BY <2>1, <2>2, <2>3, RelabelKeeps
<1>4. CASE StopEscalates(i)
  <2> DEFINE r == [run[i] EXCEPT !.signal = "SIGKILL"]
  <2>1. r \in RunRecord /\ r.timer = run[i].timer /\ r.job = run[i].job /\ r.signal = "SIGKILL"
    BY <1>0 DEF RunRecord
  <2>2. run' = [run EXCEPT ![i] = r] /\ UNCHANGED <<slot, node>>
    BY <1>0, <1>4 DEF StopEscalates, RunRecord
  <2>3. Pending(i)
    BY <1>4 DEF StopEscalates
  <2> HIDE DEF r
  <2> QED BY <2>1, <2>2, <2>3, RelabelKeeps DEF Pending
<1> QED BY <1>1, <1>2, <1>3, <1>4

LEMMA StopKeeps == ASSUME RunnerInv, StopChildren PROVE RunnerInv'
<1>0. run \in [Ids -> RunRecord]
  BY DEF RunnerInv, RunnerType
<1>1. \A i \in Ids : /\ run'[i] \in RunRecord /\ run'[i].timer = run[i].timer
                     /\ run'[i].job = run[i].job
                     /\ run[i].signal = "SIGKILL" => run'[i].signal = "SIGKILL"
  BY <1>0 DEF StopChildren, RunRecord, Stronger
<1>2. RunnerType'
  BY <1>1 DEF RunnerInv, RunnerType, StopChildren
<1>3. Laddered'
  BY <1>1 DEF RunnerInv, Laddered
<1>4. slot' = slot /\ \A s \in Slots : slot[s] # None => slot[s] \in Ids
  BY DEF RunnerInv, RunnerType, StopChildren
<1>5. SlotsHeldByPending'
  BY <1>1, <1>4 DEF RunnerInv, SlotsHeldByPending, Pending
<1> QED BY <1>2, <1>3, <1>5 DEF RunnerInv

LEMMA GoneKeeps == ASSUME RunnerInv, ServerGone PROVE RunnerInv'
<1>0. run \in [Ids -> RunRecord]
  BY DEF RunnerInv, RunnerType
<1>1. PICK survivors \in SUBSET {i \in Ids : Exists(i)} :
        run' = [i \in Ids |-> IF i \in survivors THEN Orphan(run[i]) ELSE NoRun]
  BY DEF ServerGone
<1>2. (CHOOSE k \in Keys : TRUE) \in Keys
  BY RunnerAssumption
<1>3. \A r \in RunRecord : Orphan(r) \in RunRecord /\ Orphan(r).timer = "gone"
  BY <1>2 DEF Orphan, RunRecord
<1>4. \A i \in Ids : run'[i] \in RunRecord /\ run'[i].timer \in {"gone", "free"}
  BY <1>0, <1>1, <1>3, NoRunType
<1>5. RunnerType'
  BY <1>1, <1>4 DEF ServerGone, RunnerType
<1>6. Laddered'
  BY <1>4 DEF Laddered
<1>7. SlotsHeldByPending'
  BY <1>4 DEF SlotsHeldByPending, Pending, ServerGone
<1> QED BY <1>5, <1>6, <1>7 DEF RunnerInv

-----------------------------------------------------------------------------
(* The scheduler above the runner.                                         *)

AllCalls == [job: Jobs, key: DispatchKeys]
MaybeDays == Days \cup {None}

LEMMA DayType ==
  \A t \in 0..MaxTime : Day(t) \in Days /\ Point(t) \in 0..(DayLength - 1)
<1> SUFFICES ASSUME NEW t \in 0..MaxTime
             PROVE  t \div DayLength \in 0..(MaxTime \div DayLength) /\ t % DayLength \in 0..(DayLength - 1)
  BY DEF Day, Point, Days
<1>0. DayLength \in Nat \ {0} /\ MaxTime \in Nat
  BY SchedulerAssumption
<1>1. t % DayLength \in 0..(DayLength - 1)
  BY <1>0
<1>2. t \div DayLength \in Nat /\ MaxTime \div DayLength \in Nat
  BY <1>0
<1>3. t \div DayLength <= MaxTime \div DayLength
  BY <1>0, SMTT(30)
<1> QED BY <1>1, <1>2, <1>3

LEMMA KeyType ==
  /\ \A d \in Days : AfterCloseKey(d) \in DispatchKeys
  /\ \A t \in 0..MaxTime : IntegrityKey(t) \in DispatchKeys /\ \A j \in Jobs : KeyFor(j, t) \in DispatchKeys
  /\ ComparisonCall \in AllCalls
<1>1. 0..(DayLength - 1) \subseteq 0..DayLength /\ DayLength \in 0..DayLength /\ 0 \in 0..DayLength
  BY SchedulerAssumption
<1>2. ASSUME NEW d \in Days PROVE AfterCloseKey(d) \in DispatchKeys
  BY <1>1 DEF AfterCloseKey, AfterClose, DispatchKeys
<1>3. ASSUME NEW t \in 0..MaxTime PROVE IntegrityKey(t) \in DispatchKeys
  BY <1>1, DayType, SchedulerAssumption DEF IntegrityKey, DispatchKeys
<1>4. ASSUME NEW t \in 0..MaxTime, NEW j \in Jobs PROVE KeyFor(j, t) \in DispatchKeys
  <2>1. (IF j \in DOMAIN DailyKey THEN DailyKey[j] ELSE Point(t)) \in 0..DayLength
    BY <1>1, DayType, SchedulerAssumption
  <2> QED BY <2>1, DayType DEF KeyFor, DispatchKeys
<1>5. 0 \in 0..MaxTime
  BY SchedulerAssumption
<1>6. Day(0) = 0
  BY SchedulerAssumption DEF Day
<1>7. 0 \in Days
  BY <1>5, <1>6, DayType
<1>8. ComparisonCall \in AllCalls
  BY <1>1, <1>7, SchedulerAssumption DEF ComparisonCall, Call, AllCalls, DispatchKeys
<1> QED BY <1>2, <1>3, <1>4, <1>8

LEMMA TickBodyTypes ==
  ASSUME TypeOK, NEW t \in 0..MaxTime, TickBody(t)
  PROVE  {eodChecked', eodAfter', outcomesAfter'} \subseteq MaybeDays /\ queue' \subseteq AllCalls
<1>1. Day(t) \in Days
  BY DayType
<1>2. eodChecked' \in MaybeDays /\ eodAfter' \in MaybeDays /\ outcomesAfter' \in MaybeDays
  BY <1>1 DEF TickBody, TypeOK, MaybeDays
<1>3. \A j \in Jobs : Call(j, KeyFor(j, t)) \in AllCalls
  BY KeyType DEF Call, AllCalls
<1>4. \A j \in Jobs : Call(j, AfterCloseKey(Day(t))) \in AllCalls
  BY KeyType, <1>1 DEF Call, AllCalls
<1>5. queue' \subseteq AllCalls
  BY <1>3, <1>4, SchedulerAssumption DEF TickBody
<1> QED BY <1>2, <1>5

\* A BUSY answer that is still to be heard belongs to a key.
Asking == \A j \in busy \ {Comparison} : dispatched[j] # None

Inv == RunnerInv /\ TypeOK /\ Marked /\ Asking

\* What TypeOK says beyond RunnerType.
SchedulerType ==
    /\ running \in BOOLEAN
    /\ now \in 0..MaxTime /\ starts \in 0..MaxStarts
    /\ dispatched \in [Jobs -> DispatchKeys \cup {None}] /\ inFlight \subseteq Jobs
    /\ retryKeys \in [Jobs -> DispatchKeys \cup {None}]
    /\ retryTimers \in [Jobs -> DispatchKeys \cup {None}]
    /\ parked \subseteq 0..MaxTime /\ handoff \subseteq Days /\ busy \subseteq Jobs
    /\ {ready, outcomesAfter, eodAfter, eodChecked} \subseteq MaybeDays
    /\ {cmpInFlight, cmpPending, cmpTimer} \subseteq BOOLEAN
    /\ queue \subseteq AllCalls /\ ran \subseteq AllCalls /\ owed \subseteq AllCalls

LEMMA TypeParts == TypeOK <=> RunnerType /\ SchedulerType
BY DEF TypeOK, RunnerType, SchedulerType, MaybeDays, AllCalls

LEMMA InvNext == RunnerInv' /\ SchedulerType' /\ Marked' /\ Asking' => Inv'
BY DEF Inv, RunnerInv, TypeOK, RunnerType, SchedulerType, MaybeDays, AllCalls

LEMMA InitInv == Init => Inv
<1> SUFFICES ASSUME Init PROVE Inv
  OBVIOUS
<1>1. \A i \in Ids : run[i] \in RunRecord /\ run[i].timer = "free"
  BY NoRunType DEF Init, RunnerInit
<1>2. RunnerType
  BY <1>1 DEF Init, RunnerInit, RunnerType
<1>3. SlotsHeldByPending /\ Laddered
  BY <1>1 DEF Init, RunnerInit, SlotsHeldByPending, Laddered, Pending
<1>4. SchedulerType
  <2>1. 0 \in 0..MaxTime /\ 0 \in 0..MaxStarts
    BY SchedulerAssumption
  <2>2. /\ dispatched \in [Jobs -> DispatchKeys \cup {None}]
        /\ retryKeys \in [Jobs -> DispatchKeys \cup {None}]
        /\ retryTimers \in [Jobs -> DispatchKeys \cup {None}]
    BY DEF Init
  <2> QED BY <2>1, <2>2 DEF Init, SchedulerType, MaybeDays
<1>5. Marked
  BY DEF Init, RunnerInit, Marked
<1>6. Asking
  BY DEF Init, Asking
<1> QED BY <1>2, <1>3, <1>4, <1>5, <1>6, TypeParts DEF Inv, RunnerInv

LEMMA DispatchKeeps == ASSUME Inv, NEW c \in queue, Dispatch(c) PROVE Inv'
<1> DEFINE era == IF running THEN "served" ELSE "late"
<1>0. c.job \in Jobs /\ c.key \in DispatchKeys /\ c \in AllCalls
  BY TypeParts DEF Inv, SchedulerType, AllCalls
<1>a. Asking'
  <2>1. c.key # None /\ dispatched \in [Jobs -> DispatchKeys \cup {None}] /\ busy \subseteq Jobs
    BY <1>0, KeysAssumption, TypeParts DEF Inv, SchedulerType
  <2>2. /\ busy' \subseteq busy \cup {c.job}
        /\ c.job # Comparison => dispatched' = [dispatched EXCEPT ![c.job] = c.key]
        /\ c.job = Comparison => dispatched' = dispatched
    BY DEF Dispatch
  <2> QED BY <1>0, <2>1, <2>2 DEF Inv, Asking
<1>1. CASE SlotFree(c.job) /\ RunChild(c.job, c.key, era)
  <2>1. RunnerInv'
    BY <1>0, <1>1, RunChildKeeps, KeysAssumption DEF Inv, Eras
  <2>2. SchedulerType'
    BY <1>0, <1>1, TypeParts DEF Inv, SchedulerType, Dispatch, worldVars, gateVars, followVars, cmpVars
  <2>3. Marked'
    <3>1. PICK i \in Ids : \E r : r.era = era /\ run' = [run EXCEPT ![i] = r]
      <4> DEFINE r0 == [job |-> c.job, key |-> c.key, timer |-> "timeout", signal |-> "none", era |-> era]
      <4>1. PICK i \in Free : run' = [run EXCEPT ![i] = r0]
        BY <1>1 DEF RunChild
      <4>2. r0.era = era /\ i \in Ids
        BY <4>1 DEF Free
      <4> QED BY <4>1, <4>2
    <3>2. running' = running /\ node' = node
      BY <1>1 DEF Dispatch, RunChild
    <3>3. \A o \in Ids : run'[o].era # "served" \/ running \/ (o # i /\ run'[o] = run[o])
      BY <3>1 DEF Inv, RunnerInv, RunnerType
    <3>4. node = "stopping" => ~running
      BY DEF Inv, Marked
    <3> QED BY <3>2, <3>3, <3>4 DEF Inv, Marked, Pending
  <2> QED BY <1>a, <2>1, <2>2, <2>3, InvNext
<1>2. CASE ~SlotFree(c.job) /\ UNCHANGED <<runnerVars, ran, owed>> /\ busy' = busy \cup {c.job}
  <2>1. UNCHANGED runnerVars
    BY <1>2
  <2>2. SchedulerType'
    BY <1>0, <1>2, TypeParts DEF Inv, SchedulerType, Dispatch, worldVars, gateVars, followVars, cmpVars
  <2>3. Marked' /\ RunnerInv'
    BY <2>1 DEF Inv, Marked, Pending, Dispatch, runnerVars, RunnerInv, RunnerType, SlotsHeldByPending, Laddered, CanHardFinish
  <2> QED BY <1>a, <2>2, <2>3, InvNext
<1> QED BY <1>1, <1>2 DEF Dispatch

\* A step that leaves the runner alone.
LEMMA RunnerUntouched ==
  ASSUME Inv, UNCHANGED runnerVars, running' = running PROVE RunnerInv' /\ Marked'
BY DEF Inv, Marked, Pending, runnerVars, RunnerInv, RunnerType, SlotsHeldByPending, Laddered

LEMMA TickKeeps == ASSUME Inv, Tick PROVE Inv'
<1>0. now \in 0..MaxTime /\ SchedulerType
  BY TypeParts DEF Inv, SchedulerType
<1>1. RunnerInv' /\ Marked' /\ Asking'
  BY RunnerUntouched DEF Tick, Inv, Asking, jobVars
<1>2. CASE TickBody(now) /\ UNCHANGED parked
  <2>1. {eodChecked', eodAfter', outcomesAfter'} \subseteq MaybeDays /\ queue' \subseteq AllCalls
    BY <1>0, <1>2, TickBodyTypes DEF Inv
  <2>2. SchedulerType'
    BY <1>0, <1>2, <2>1 DEF SchedulerType, Tick, worldVars, jobVars, cmpVars
  <2> QED BY <1>1, <2>2, InvNext
<1>3. CASE /\ parked' = parked \cup {now}
           /\ queue' \in {{Call(Integrity, IntegrityKey(now))}, {}}
           /\ UNCHANGED followVars
  <2>1. Call(Integrity, IntegrityKey(now)) \in AllCalls
    BY <1>0, KeyType, SchedulerAssumption DEF Call, AllCalls
  <2>2. queue' \subseteq AllCalls
    BY <1>3, <2>1
  <2>3. SchedulerType'
    BY <1>0, <1>3, <2>2 DEF SchedulerType, Tick, worldVars, jobVars, cmpVars, followVars
  <2> QED BY <1>1, <2>3, InvNext
<1> QED BY <1>2, <1>3 DEF Tick

LEMMA ResumeKeeps == ASSUME Inv, ResumeTick PROVE Inv'
<1>0. SchedulerType
  BY TypeParts DEF Inv
<1>1. RunnerInv' /\ Marked' /\ Asking'
  BY RunnerUntouched DEF ResumeTick, Inv, Asking, jobVars
<1>2. PICK t \in parked : /\ parked' = parked \ {t}
                          /\ IF IntegrityPassed(t) THEN TickBody(t) ELSE UNCHANGED <<followVars, queue>>
  BY DEF ResumeTick
<1>3. t \in 0..MaxTime
  BY <1>0 DEF SchedulerType
<1>4. {eodChecked', eodAfter', outcomesAfter'} \subseteq MaybeDays /\ queue' \subseteq AllCalls
  <2>1. CASE TickBody(t)
    BY <1>3, <2>1, TickBodyTypes DEF Inv
  <2>2. CASE UNCHANGED <<followVars, queue>>
    BY <1>0, <2>2 DEF SchedulerType, followVars
  <2> QED BY <1>2, <2>1, <2>2
<1>5. SchedulerType'
  BY <1>0, <1>2, <1>4 DEF SchedulerType, ResumeTick, worldVars, jobVars, cmpVars
<1> QED BY <1>1, <1>5, InvNext

\* The steps between two callbacks and the timers that leave the runner alone.
LEMMA SettleBusyKeeps == ASSUME Inv, NEW j \in Jobs, SettleBusy(j) PROVE Inv'
<1>0. SchedulerType
  BY TypeParts DEF Inv
<1>1. RunnerInv' /\ Marked'
  BY RunnerUntouched DEF SettleBusy
<1>2. dispatched[j] \in DispatchKeys
  BY <1>0 DEF Inv, Asking, SchedulerType, SettleBusy
<1>3. Call(j, dispatched[j]) \in AllCalls /\ dispatched[j][1] \in Days
  BY <1>2 DEF Call, AllCalls, DispatchKeys
<1>4. dispatched' \in [Jobs -> DispatchKeys \cup {None}] /\ \A o \in Jobs \ {j} : dispatched'[o] = dispatched[o]
  BY <1>0 DEF SchedulerType, SettleBusy
<1>5. Asking'
  BY <1>0, <1>4 DEF Inv, Asking, SchedulerType, SettleBusy
<1>6. SchedulerType'
  <2>1. eodAfter' \in MaybeDays
    BY <1>0, <1>3 DEF SchedulerType, SettleBusy, MaybeDays
  <2>2. owed' \subseteq AllCalls
    BY <1>0, <1>3 DEF SchedulerType, SettleBusy
  <2>3. /\ retryKeys' \in [Jobs -> DispatchKeys \cup {None}]
        /\ retryTimers' \in [Jobs -> DispatchKeys \cup {None}]
    BY <1>0, <1>2 DEF SchedulerType, SettleBusy
  <2> QED BY <1>0, <1>4, <2>1, <2>2, <2>3 DEF SchedulerType, SettleBusy, worldVars, gateVars, cmpVars
<1> QED BY <1>1, <1>5, <1>6, InvNext

LEMMA RetryKeeps == ASSUME Inv, NEW j \in Jobs, RetryFires(j) PROVE Inv'
<1>0. SchedulerType
  BY TypeParts DEF Inv
<1>1. RunnerInv' /\ Marked'
  BY RunnerUntouched DEF RetryFires
<1>2. Call(j, retryTimers[j]) \in AllCalls
  BY <1>0 DEF SchedulerType, RetryFires, Call, AllCalls
<1>3. queue' \subseteq AllCalls
  BY <1>2 DEF RetryFires
<1>4. SchedulerType'
  BY <1>0, <1>3 DEF SchedulerType, RetryFires, worldVars, gateVars, followVars, cmpVars
<1>5. Asking'
  BY DEF RetryFires, Inv, Asking
<1> QED BY <1>1, <1>4, <1>5, InvNext

LEMMA OthersKeep ==
  ASSUME Inv, SettleBusyComparison \/ ComparisonRetryFires \/ AdvanceTime PROVE Inv'
<1>0. SchedulerType /\ ComparisonCall \in AllCalls
  BY TypeParts, KeyType DEF Inv
<1>1. CASE SettleBusyComparison
  <2>1. RunnerInv' /\ Marked'
    BY <1>1, RunnerUntouched DEF SettleBusyComparison
  <2>2. SchedulerType' /\ Asking'
    BY <1>0, <1>1 DEF Inv, Asking, SchedulerType, SettleBusyComparison, worldVars, gateVars, followVars, jobVars
  <2> QED BY <2>1, <2>2, InvNext
<1>2. CASE ComparisonRetryFires
  <2>1. RunnerInv' /\ Marked'
    BY <1>2, RunnerUntouched DEF ComparisonRetryFires
  <2>2. queue' \subseteq AllCalls /\ {cmpInFlight', cmpPending', cmpTimer'} \subseteq BOOLEAN
    BY <1>0, <1>2 DEF ComparisonRetryFires, TriggerComparison, SchedulerType
  <2>3. SchedulerType' /\ Asking'
    BY <1>0, <1>2, <2>2 DEF Inv, Asking, SchedulerType, ComparisonRetryFires, worldVars, gateVars, followVars, jobVars
  <2> QED BY <2>1, <2>3, InvNext
<1>3. CASE AdvanceTime
  <2>1. RunnerInv' /\ Marked'
    BY <1>3, RunnerUntouched DEF AdvanceTime
  <2>2. now' \in 0..MaxTime
    BY <1>0, <1>3, SchedulerAssumption DEF AdvanceTime, SchedulerType
  <2>3. SchedulerType' /\ Asking'
    BY <1>0, <1>3, <2>2 DEF Inv, Asking, SchedulerType, AdvanceTime, gateVars, followVars, cmpVars, jobVars
  <2> QED BY <2>1, <2>3, InvNext
<1> QED BY <1>1, <1>2, <1>3

-----------------------------------------------------------------------------
(* The ends of children, and the start and the end of the server.          *)

LEMMA FinishKeeps ==
  ASSUME Inv, NEW i \in Ids, NEW succeeded \in BOOLEAN, NEW survives \in BOOLEAN,
         Pending(i), survives => CanHardFinish(i), Finish(i, succeeded, survives)
  PROVE  Inv'
<1>0. SchedulerType /\ RunnerInv /\ ComparisonCall \in AllCalls
  BY TypeParts, KeyType DEF Inv
<1> DEFINE d == run[i].key[1]
<1>1. run[i] \in RunRecord /\ run \in [Ids -> RunRecord]
  BY <1>0 DEF RunnerInv, RunnerType
<1>2. d \in Days
  BY <1>1, KeysAssumption DEF RunRecord, DispatchKeys
<1>3. RunnerInv'
  BY <1>0, SettleKeeps DEF Finish
<1>4. Marked'
  <2>1. \A o \in Ids : Pending(o)' => Pending(o) /\ run'[o] = run[o]
    <3>1. \A o \in Ids \ {i} : run'[o] = run[o]
      BY <1>1 DEF Finish, Settle
    <3>2. ~Pending(i)'
      BY <1>1, NoRunType DEF Finish, Settle, Pending, RunRecord
    <3> QED BY <3>1, <3>2 DEF Pending
  <2> QED BY <2>1 DEF Inv, Marked, Finish, Settle
<1>5. Asking'
  BY DEF Finish, Inv, Asking
<1>6. /\ {outcomesAfter', eodAfter'} \subseteq MaybeDays /\ handoff' \subseteq Days
      /\ owed' \subseteq AllCalls /\ queue' \subseteq AllCalls /\ {cmpInFlight', cmpPending'} \subseteq BOOLEAN
  <2>1. CASE CloseSucceeded(d)
    <3>1. Call(Outcomes, AfterCloseKey(d)) \in AllCalls /\ Call(Eod, AfterCloseKey(d)) \in AllCalls
      BY <1>2, KeyType, SchedulerAssumption DEF Call, AllCalls
    <3>2. owed' \subseteq AllCalls
      BY <1>0, <2>1, <3>1 DEF CloseSucceeded, SchedulerType
    <3>3. {outcomesAfter', eodAfter'} \subseteq MaybeDays /\ handoff' \subseteq Days
      BY <1>0, <1>2, <2>1 DEF CloseSucceeded, SchedulerType, MaybeDays
    <3>4. queue' \subseteq AllCalls /\ {cmpInFlight', cmpPending'} \subseteq BOOLEAN
      BY <1>0, <2>1 DEF CloseSucceeded, TriggerComparison, SchedulerType
    <3> QED BY <3>2, <3>3, <3>4
  <2>2. CASE ComparisonEnds /\ UNCHANGED <<outcomesAfter, eodAfter, handoff, owed>>
    BY <1>0, <2>2 DEF ComparisonEnds, SchedulerType
  <2>3. CASE UNCHANGED <<outcomesAfter, eodAfter, handoff, owed, cmpInFlight, cmpPending, queue>>
    BY <1>0, <2>3 DEF SchedulerType
  <2> QED BY <2>1, <2>2, <2>3 DEF Finish
<1>7. ready' \in MaybeDays
  BY <1>0, <1>2 DEF Finish, SchedulerType, MaybeDays
<1>8. SchedulerType'
  BY <1>0, <1>6, <1>7 DEF Finish, SchedulerType
<1> QED BY <1>3, <1>4, <1>5, <1>8, InvNext

LEMMA RunStepsKeep == ASSUME Inv, NEW i \in Ids, RunSteps(i) PROVE Inv'
<1>0. SchedulerType /\ RunnerInv
  BY TypeParts DEF Inv
<1>1. RunnerInv'
  BY <1>0, TimersKeep DEF RunSteps
<1>2. SchedulerType' /\ Asking'
  BY <1>0 DEF Inv, Asking, SchedulerType, RunSteps, worldVars, gateVars, followVars, cmpVars, jobVars
<1>3. node' = node /\ running' = running
  BY DEF RunSteps, StrayExits, Timeout, Escalate, StopEscalates
<1>4. \A o \in Ids : Pending(o)' => Pending(o) /\ run'[o].era = run[o].era
  <2>1. run \in [Ids -> RunRecord]
    BY <1>0 DEF RunnerInv, RunnerType
  <2>2. \A o \in Ids \ {i} : run'[o] = run[o]
    BY <2>1 DEF RunSteps, StrayExits, Timeout, Escalate, StopEscalates
  <2>3. Pending(i)' => Pending(i) /\ run'[i].era = run[i].era
    <3>1. CASE StrayExits(i)
      BY <2>1, <3>1, NoRunType DEF StrayExits, Pending
    <3>2. CASE Timeout(i)
      BY <2>1, <3>2 DEF Timeout, Pending, RunRecord
    <3>3. CASE Escalate(i)
      BY <2>1, <3>3 DEF Escalate, Pending, RunRecord
    <3>4. CASE StopEscalates(i)
      BY <2>1, <3>4 DEF StopEscalates, Pending, RunRecord
    <3> QED BY <3>1, <3>2, <3>3, <3>4 DEF RunSteps
  <2> QED BY <2>2, <2>3 DEF Pending
<1>5. Marked'
  BY <1>3, <1>4 DEF Inv, Marked
<1> QED BY <1>1, <1>2, <1>5, InvNext

LEMMA StartKeeps == ASSUME Inv, Start PROVE Inv'
<1>0. SchedulerType /\ ComparisonCall \in AllCalls
  BY TypeParts, KeyType DEF Inv
<1>1. RunnerInv'
  BY DEF Inv, RunnerInv, RunnerType, SlotsHeldByPending, Laddered, Pending, Start
<1>2. Marked' /\ Asking'
  BY DEF Start, Marked, Asking
<1>3. starts' \in 0..MaxStarts
  BY <1>0, SchedulerAssumption DEF Start, SchedulerType
<1>4. SchedulerType'
  BY <1>0, <1>3 DEF Start, SchedulerType, MaybeDays
<1> QED BY <1>1, <1>2, <1>4, InvNext

LEMMA StopMarks == ASSUME Inv, Stop PROVE Inv'
<1>0. SchedulerType /\ RunnerInv
  BY TypeParts DEF Inv
<1>1. RunnerInv'
  BY <1>0, StopKeeps DEF Stop
<1>2. Marked'
  <2>1. run \in [Ids -> RunRecord]
    BY <1>0 DEF RunnerInv, RunnerType
  <2>2. ASSUME NEW o \in Ids, Pending(o)' PROVE run'[o].era # "served"
    <3>1. Pending(o)
      BY <2>1, <2>2 DEF Stop, StopChildren, Pending, RunRecord
    <3>2. SlotOf[run[o].job] \in Slots /\ slot[SlotOf[run[o].job]] = o
      BY <3>1, <2>1, <1>0, SlotOfType DEF RunnerInv, SlotsHeldByPending, RunRecord
    <3>3. run'[o].era = "doomed"
      BY <2>1, <3>1, <3>2 DEF Stop, StopChildren, Pending, Exists, RunRecord
    <3> QED BY <3>3
  <2> QED BY <2>2 DEF Marked, Stop
<1>3. SchedulerType' /\ Asking'
  BY <1>0 DEF Inv, Asking, SchedulerType, Stop, StopChildren, worldVars, MaybeDays
<1> QED BY <1>1, <1>2, <1>3, InvNext

LEMMA GoneClears == ASSUME Inv, Gone PROVE Inv'
<1>0. SchedulerType
  BY TypeParts DEF Inv
<1>1. RunnerInv'
  BY GoneKeeps DEF Gone, Inv
<1>2. Marked' /\ Asking'
  BY DEF Gone, ServerGone, Marked, Asking
<1>3. SchedulerType'
  BY <1>0 DEF Gone, SchedulerType, worldVars, MaybeDays
<1> QED BY <1>1, <1>2, <1>3, InvNext

LEMMA NextInv == Inv /\ [Next]_vars => Inv'
<1> SUFFICES ASSUME Inv, [Next]_vars PROVE Inv'
  OBVIOUS
<1>1. CASE Start
  BY <1>1, StartKeeps
<1>2. CASE DispatchNext
  BY <1>2, DispatchKeeps DEF DispatchNext
<1>3. CASE Tick
  BY <1>3, TickKeeps
<1>4. CASE ResumeTick
  BY <1>4, ResumeKeeps
<1>5. CASE SettleBusyComparison \/ ComparisonRetryFires \/ AdvanceTime
  BY <1>5, OthersKeep
<1>6. CASE Stop
  BY <1>6, StopMarks
<1>7. CASE ExitServer \/ CrashServer
  BY <1>7, GoneClears DEF ExitServer, CrashServer
<1>8. CASE \E j \in Jobs : SettleBusy(j) \/ RetryFires(j)
  BY <1>8, SettleBusyKeeps, RetryKeeps
<1>9. ASSUME NEW i \in Ids, ChildCloses(i) \/ HardFinish(i) \/ RunSteps(i) PROVE Inv'
  <2>1. CASE ChildCloses(i)
    BY <2>1, FinishKeeps DEF ChildCloses, CanClose, Succeeded
  <2>2. CASE HardFinish(i)
    BY <2>2, FinishKeeps DEF HardFinish, CanHardFinish, Pending
  <2>3. CASE RunSteps(i)
    BY <2>3, RunStepsKeep
  <2> QED BY <1>9, <2>1, <2>2, <2>3
<1>10. CASE UNCHANGED vars
  <2>1. UNCHANGED runnerVars /\ running' = running
    BY <1>10 DEF vars
  <2>2. SchedulerType' /\ Asking'
    BY <1>10, TypeParts DEF Inv, Asking, vars, SchedulerType, worldVars, gateVars, followVars, cmpVars, jobVars
  <2> QED BY <2>1, <2>2, RunnerUntouched, InvNext
<1> QED BY <1>1, <1>2, <1>3, <1>4, <1>5, <1>6, <1>7, <1>8, <1>9, <1>10 DEF Next

LEMMA InvAlways == Spec => []Inv
BY InitInv, NextInv, PTL DEF Spec

-----------------------------------------------------------------------------
\* Every variable of the scheduler and the runner keeps its type.
THEOREM TypeCorrect == Spec => []TypeOK
<1>1. Inv => TypeOK
  BY DEF Inv
<1> QED BY <1>1, InvAlways, PTL

\* A slot and its run point at each other, and a held slot has a timer left that
\* can give it back (JobRunner.finish, the escalation of runChild).
THEOREM SlotsHeld == Spec => []SlotsHeldByPending
<1>1. Inv => SlotsHeldByPending
  BY DEF Inv, RunnerInv
<1> QED BY <1>1, InvAlways, PTL

\* No two commands of one slot run at once, unless one was sent SIGKILL or belongs
\* to an earlier server (JobRunner.run).
THEOREM SlotsExclude == Spec => []OneProcessPerSlot
<1>1. Inv => OneProcessPerSlot
  <2> SUFFICES ASSUME Inv, NEW a \in Ids, NEW b \in Ids, a # b, Exists(a), Exists(b),
                      SlotOf[run[a].job] = SlotOf[run[b].job]
               PROVE  \E i \in {a, b} : run[i].signal = "SIGKILL" \/ run[i].timer = "gone"
    BY DEF OneProcessPerSlot
  <2>1. ~Pending(a) \/ ~Pending(b)
    BY DEF Inv, RunnerInv, SlotsHeldByPending
  <2>2. ASSUME NEW i \in {a, b}, ~Pending(i) PROVE run[i].signal = "SIGKILL" \/ run[i].timer = "gone"
    <3>1. run[i].timer \in {"off", "gone"}
      BY <2>2 DEF Inv, RunnerInv, RunnerType, RunRecord, Pending, Exists
    <3> QED BY <3>1 DEF Inv, RunnerInv, Laddered
  <2> QED BY <2>1, <2>2
<1> QED BY <1>1, InvAlways, PTL

\* When stop has ended, only children that survive SIGKILL or were started after
\* the scheduler had stopped are left (JobRunner.stop, index.ts).
THEOREM OrderlyExit == Spec => OrderlyExitLeavesNone
<1> DEFINE Leaves == node = "stopping" /\ ExitServer
                       => \A i \in Ids : Exists(i)' /\ run[i].timer # "gone"
                            => run[i].signal = "SIGKILL" \/ run[i].era = "late"
<1>1. Inv /\ [Next]_vars => Leaves
  <2> SUFFICES ASSUME Inv, node = "stopping", ExitServer, NEW i \in Ids, Exists(i)', run[i].timer # "gone"
               PROVE  run[i].signal = "SIGKILL" \/ run[i].era = "late"
    OBVIOUS
  <2>1. Exists(i)
    <3>1. PICK survivors \in SUBSET {o \in Ids : Exists(o)} :
            run' = [o \in Ids |-> IF o \in survivors THEN Orphan(run[o]) ELSE NoRun]
      BY DEF ExitServer, Gone, ServerGone
    <3>2. i \in survivors
      BY <3>1, NoRunType DEF Exists
    <3> QED BY <3>2
  <2>2. CASE Pending(i)
    <3>1. run[i].era \in {"doomed", "late"}
      BY <2>2 DEF Inv, Marked, RunnerInv, RunnerType, RunRecord
    <3> QED BY <3>1, <2>1 DEF ExitServer, ChildrenStopped
  <2>3. CASE ~Pending(i)
    <3>1. run[i].timer = "off"
      BY <2>1, <2>3 DEF Inv, RunnerInv, RunnerType, RunRecord, Pending, Exists
    <3> QED BY <3>1 DEF Inv, RunnerInv, Laddered
  <2> QED BY <2>2, <2>3
<1>2. Inv /\ [Next]_vars => [Leaves]_vars
  BY <1>1
<1> QED BY <1>2, InvAlways, PTL DEF Spec, OrderlyExitLeavesNone
-----------------------------------------------------------------------------
(* Instants, days and keys.                                                *)

LEMMA Divide ==
  ASSUME NEW m \in Nat \ {0}, NEW t \in Nat
  PROVE  t \div m \in Nat /\ t % m \in 0..(m - 1) /\ t = m * (t \div m) + (t % m)
OBVIOUS

LEMMA Quotient ==
  ASSUME NEW m \in Nat \ {0}, NEW q \in Nat, NEW r \in 0..(m - 1), NEW p \in Nat, NEW s \in 0..(m - 1),
         m * q + r = m * p + s
  PROVE  q = p /\ r = s
<1>1. CASE q < p
  <2>1. m * q + m <= m * p
    BY <1>1, SMTT(20)
  <2> QED BY <2>1
<1>2. CASE p < q
  <2>1. m * p + m <= m * q
    BY <1>2, SMTT(20)
  <2> QED BY <2>1
<1> QED BY <1>1, <1>2

\* The next instant is the next one of the day, or the first of the next day.
LEMMA NextInstant ==
  ASSUME NEW t \in Nat
  PROVE  \/ Day(t + 1) = Day(t) /\ Point(t + 1) = Point(t) + 1
         \/ Day(t + 1) = Day(t) + 1 /\ Point(t + 1) = 0
<1> DEFINE m == DayLength
<1>0. m \in Nat \ {0} /\ t + 1 \in Nat
  BY SchedulerAssumption
<1> DEFINE q == t \div m
           r == t % m
           p == (t + 1) \div m
           s == (t + 1) % m
<1>1. q \in Nat /\ r \in 0..(m - 1) /\ t = m * q + r
  BY <1>0, Divide
<1>2. p \in Nat /\ s \in 0..(m - 1) /\ t + 1 = m * p + s
  BY <1>0, Divide
<1> HIDE DEF m, q, r, p, s
<1>3. CASE r = m - 1
  <2>1. m * (q + 1) + 0 = m * p + s
    BY <1>0, <1>1, <1>2, <1>3
  <2>2. p = q + 1 /\ s = 0
    BY <1>0, <1>1, <1>2, <2>1, Quotient
  <2> QED BY <2>2 DEF Day, Point, m, q, r, p, s
<1>4. CASE r # m - 1
  <2>1. r + 1 \in 0..(m - 1) /\ m * q + (r + 1) = m * p + s
    BY <1>0, <1>1, <1>2, <1>4
  <2>2. p = q /\ s = r + 1
    BY <1>0, <1>1, <1>2, <2>1, Quotient
  <2> QED BY <2>2 DEF Day, Point, m, q, r, p, s
<1> QED BY <1>3, <1>4

\* Later is a later day, or the same day and no earlier in it.
LEMMA Instants ==
  ASSUME NEW t \in Nat, NEW u \in Nat, t <= u
  PROVE  Day(t) < Day(u) \/ (Day(t) = Day(u) /\ Point(t) <= Point(u))
<1> DEFINE m == DayLength
<1>0. m \in Nat \ {0}
  BY SchedulerAssumption
<1> DEFINE q == t \div m
           r == t % m
           p == u \div m
           s == u % m
<1>1. q \in Nat /\ r \in 0..(m - 1) /\ t = m * q + r
  BY <1>0, Divide
<1>2. p \in Nat /\ s \in 0..(m - 1) /\ u = m * p + s
  BY <1>0, Divide
<1> HIDE DEF m, q, r, p, s
<1>3. ~(p < q)
  <2> SUFFICES ASSUME p < q PROVE FALSE
    OBVIOUS
  <2>1. m * p + m <= m * q
    BY <1>0, <1>1, <1>2, SMTT(20)
  <2> QED BY <1>0, <1>1, <1>2, <2>1
<1>4. p = q => r <= s
  BY <1>0, <1>1, <1>2
<1>5. q < p \/ (q = p /\ r <= s)
  BY <1>1, <1>2, <1>3, <1>4
<1> QED BY <1>5 DEF Day, Point, m, q, r, p, s

\* The second part of the key of a job that is due at instant q of a day.
KeyPoint(j, q) == IF j \in DOMAIN DailyKey THEN DailyKey[j] ELSE q

LEMMA KeyParts ==
  ASSUME NEW j \in Jobs, NEW t \in 0..MaxTime
  PROVE  KeyFor(j, t) = <<Day(t), KeyPoint(j, Point(t))>> /\ KeyPoint(j, Point(t)) \in 0..(DayLength - 1)
<1>1. Point(t) \in 0..(DayLength - 1)
  BY DayType
<1> QED BY <1>1, SchedulerAssumption DEF KeyFor, KeyPoint

\* What one tick asks for.
DueCall(c, t) ==
    /\ c.job \in Jobs \ {Eod, Integrity, Comparison}
    /\ c = Call(c.job, KeyFor(c.job, t)) /\ Point(t) \in DueAt[c.job]
    /\ c.job \notin inFlight /\ ~Asked(c.job, c.key)
EodCall(c, t) ==
    /\ c = Call(Eod, AfterCloseKey(Day(t)))
    /\ EodFrom <= Point(t) /\ Eod \notin inFlight
OutcomesCall(c, t) ==
    /\ c = Call(Outcomes, AfterCloseKey(Day(t)))
    /\ CloseFrom <= Point(t) /\ Outcomes \notin inFlight /\ retryTimers[Outcomes] = None
    /\ ~DueCall(Call(Outcomes, KeyFor(Outcomes, t)), t)

LEMMA TickCalls ==
  ASSUME NEW t \in 0..MaxTime, TickBody(t), NEW c \in queue'
  PROVE  DueCall(c, t) \/ EodCall(c, t) \/ OutcomesCall(c, t)
<1> DEFINE d == Day(t)
           due == {j \in Jobs : /\ Point(t) \in DueAt[j] /\ j \notin inFlight
                                /\ ~Asked(j, KeyFor(j, t))}
<1>1. Point(t) \in Nat
  BY DayType, SchedulerAssumption
<1>2. \/ \E j \in due : c = Call(j, KeyFor(j, t))
      \/ c = Call(Eod, AfterCloseKey(d)) /\ Point(t) >= EodFrom /\ Eod \notin inFlight
      \/ c = Call(Outcomes, AfterCloseKey(d)) /\ Point(t) >= CloseFrom
         /\ Outcomes \notin inFlight \cup due /\ retryTimers[Outcomes] = None
  BY DEF TickBody
<1>3. ASSUME NEW j \in due, c = Call(j, KeyFor(j, t)) PROVE DueCall(c, t)
  BY <1>3, TimetableAssumption DEF DueCall, Call
<1>4. ASSUME c = Call(Outcomes, AfterCloseKey(d)), Point(t) >= CloseFrom,
             Outcomes \notin inFlight \cup due, retryTimers[Outcomes] = None
      PROVE  OutcomesCall(c, t)
  BY <1>1, <1>4, SchedulerAssumption DEF OutcomesCall, DueCall, Call
<1> QED BY <1>1, <1>2, <1>3, <1>4, SchedulerAssumption DEF EodCall

\* One tick asks for a job once.
LEMMA TickCallsOnce ==
  ASSUME NEW t \in 0..MaxTime, TickBody(t), NEW c \in queue', NEW e \in queue', c.job = e.job
  PROVE  c = e /\ c.job \in Jobs \ {Integrity, Comparison} /\ c.job \notin inFlight
<1>1. DueCall(c, t) \/ EodCall(c, t) \/ OutcomesCall(c, t)
  BY TickCalls
<1>2. DueCall(e, t) \/ EodCall(e, t) \/ OutcomesCall(e, t)
  BY TickCalls
<1>3. /\ EodCall(c, t) => c.job = Eod
      /\ OutcomesCall(c, t) => c.job = Outcomes
      /\ EodCall(e, t) => e.job = Eod
      /\ OutcomesCall(e, t) => e.job = Outcomes
  BY DEF EodCall, OutcomesCall, Call
<1>4. CASE DueCall(c, t) /\ DueCall(e, t)
  BY <1>4 DEF DueCall
<1>5. CASE EodCall(c, t) /\ EodCall(e, t)
  BY <1>3, <1>5, SchedulerAssumption DEF EodCall
<1>6. CASE OutcomesCall(c, t) /\ OutcomesCall(e, t)
  BY <1>3, <1>6, SchedulerAssumption DEF OutcomesCall
<1>7. ~(DueCall(c, t) /\ EodCall(e, t)) /\ ~(EodCall(c, t) /\ DueCall(e, t))
  BY <1>3 DEF DueCall
<1>8. ~(EodCall(c, t) /\ OutcomesCall(e, t)) /\ ~(OutcomesCall(c, t) /\ EodCall(e, t))
  BY <1>3, SchedulerAssumption
<1>9. ~(DueCall(c, t) /\ OutcomesCall(e, t)) /\ ~(OutcomesCall(c, t) /\ DueCall(e, t))
  BY <1>3 DEF DueCall, OutcomesCall
<1> QED BY <1>1, <1>2, <1>4, <1>5, <1>6, <1>7, <1>8, <1>9

-----------------------------------------------------------------------------
(* What is asked, and that it is asked once.                               *)

\* Two keys are never asked of a job at once, a job whose BUSY answer is still to
\* be heard is not asked again, and only a retried job has a retry timer.
Plain ==
    /\ retryKeys = retryTimers
    /\ \A j \in Jobs : retryTimers[j] # None => Retried(j)
    /\ \A c, e \in queue : c.job = e.job => c = e
    /\ \A c \in queue : c.job # Comparison => c.job \notin busy
    /\ busy \ {Comparison} \subseteq inFlight

LEMMA PlainTick ==
  ASSUME Plain, NEW t \in 0..MaxTime, TickBody(t), UNCHANGED <<retryKeys, retryTimers, busy, inFlight>>
  PROVE  Plain'
<1>1. \A c, e \in queue' : c.job = e.job => c = e
  BY TickCallsOnce
<1>2. \A c \in queue' : c.job # Comparison /\ c.job \notin inFlight
  BY TickCallsOnce
<1>3. \A j \in Jobs : retryTimers'[j] # None => Retried(j)
  BY DEF Plain
<1> QED BY <1>1, <1>2, <1>3 DEF Plain

LEMMA PlainStep == ASSUME Inv, Plain, [Next]_vars PROVE Plain'
<1>0. SchedulerType
  BY TypeParts DEF Inv
<1>1. CASE Start \/ ExitServer \/ CrashServer
  BY <1>1 DEF Start, ExitServer, CrashServer, Gone, Plain
<1>2. ASSUME NEW c \in queue, Dispatch(c) PROVE Plain'
  <2>1. /\ queue' = queue \ {c} /\ busy' \subseteq busy \cup {c.job}
        /\ inFlight' = IF c.job = Comparison THEN inFlight ELSE inFlight \cup {c.job}
        /\ UNCHANGED <<retryKeys, retryTimers>>
    BY <1>2 DEF Dispatch
  <2>2. /\ \A e, f \in queue' : e.job = f.job => e = f
        /\ \A e \in queue' : e.job # Comparison => e.job \notin busy'
        /\ busy' \ {Comparison} \subseteq inFlight'
    BY <1>2, <2>1 DEF Plain
  <2> QED BY <2>1, <2>2 DEF Plain
<1>3. CASE Tick
  <2>1. busy = {} /\ UNCHANGED <<retryKeys, retryTimers, busy, inFlight>>
    BY <1>3 DEF Tick, Idle, jobVars
  <2>2. CASE TickBody(now)
    BY <1>0, <2>1, <2>2, PlainTick DEF SchedulerType
  <2>3. CASE queue' \in {{Call(Integrity, IntegrityKey(now))}, {}}
    BY <2>1, <2>3 DEF Plain
  <2> QED BY <1>3, <2>2, <2>3 DEF Tick
<1>4. CASE ResumeTick
  <2>1. queue = {} /\ UNCHANGED <<retryKeys, retryTimers, busy, inFlight>>
    BY <1>4 DEF ResumeTick, jobVars
  <2>2. PICK t \in parked : IF IntegrityPassed(t) THEN TickBody(t) ELSE UNCHANGED <<followVars, queue>>
    BY <1>4 DEF ResumeTick
  <2>3. CASE TickBody(t)
    BY <1>0, <2>1, <2>3, PlainTick DEF SchedulerType
  <2>4. CASE queue' = queue
    BY <2>1, <2>4 DEF Plain
  <2> QED BY <2>2, <2>3, <2>4
<1>5. CASE SettleBusyComparison
  BY <1>5 DEF SettleBusyComparison, jobVars, Plain
<1>6. CASE ComparisonRetryFires
  <2>1. queue' \in {{ComparisonCall}, {}} /\ UNCHANGED <<retryKeys, retryTimers, busy, inFlight>>
    BY <1>6 DEF ComparisonRetryFires, TriggerComparison, jobVars
  <2>2. ComparisonCall.job = Comparison
    BY DEF ComparisonCall, Call
  <2> QED BY <2>1, <2>2 DEF Plain
<1>7. CASE Stop
  BY <1>7 DEF Stop, Idle, Plain
<1>8. CASE AdvanceTime \/ UNCHANGED vars
  BY <1>8 DEF AdvanceTime, jobVars, vars, Plain
<1>9. ASSUME NEW j \in Jobs, SettleBusy(j) PROVE Plain'
  <2> DEFINE k == dispatched[j]
  <2>1. queue' = {} /\ busy' = busy \ {j} /\ inFlight' = inFlight \ {j}
    BY <1>9 DEF SettleBusy
  <2>2. CASE UNCHANGED <<retryKeys, retryTimers>>
    BY <2>1, <2>2 DEF Plain
  <2>3. CASE /\ Retried(j) /\ retryKeys' = [retryKeys EXCEPT ![j] = k]
             /\ retryTimers' = [retryTimers EXCEPT ![j] = k]
    <3>1. retryKeys' = retryTimers'
      BY <2>3 DEF Plain
    <3>2. \A i \in Jobs : retryTimers'[i] # None => Retried(i)
      BY <1>0, <2>3 DEF Plain, SchedulerType
    <3> QED BY <2>1, <3>1, <3>2 DEF Plain
  <2> QED BY <1>9, <2>2, <2>3 DEF SettleBusy, Retried
<1>10. ASSUME NEW j \in Jobs, RetryFires(j) PROVE Plain'
  <2>1. retryKeys[j] = retryTimers[j] /\ busy' = {} /\ UNCHANGED inFlight
    BY <1>10 DEF Plain, RetryFires, Idle
  <2>2. /\ retryKeys' = [retryKeys EXCEPT ![j] = None]
        /\ retryTimers' = [retryTimers EXCEPT ![j] = None]
        /\ queue' \in {{}, {Call(j, retryTimers[j])}}
    BY <1>10, <2>1 DEF RetryFires
  <2>3. retryKeys' = retryTimers' /\ \A i \in Jobs : retryTimers'[i] # None => Retried(i)
    BY <1>0, <2>2 DEF Plain, SchedulerType
  <2> QED BY <2>1, <2>2, <2>3 DEF Plain
<1>11. ASSUME NEW i \in Ids, ChildCloses(i) \/ HardFinish(i) PROVE Plain'
  <2>1. busy' = {} /\ UNCHANGED <<retryKeys, retryTimers>>
    BY <1>11 DEF ChildCloses, HardFinish, Finish, Idle
  <2>2. queue' \in {{}, {ComparisonCall}}
    BY <1>11 DEF ChildCloses, HardFinish, Finish, Idle, CloseSucceeded, TriggerComparison, ComparisonEnds
  <2>3. \A j \in Jobs : retryTimers'[j] # None => Retried(j)
    BY <2>1 DEF Plain
  <2> QED BY <2>1, <2>2, <2>3 DEF Plain
<1>12. ASSUME NEW i \in Ids, RunSteps(i) PROVE Plain'
  BY <1>12 DEF RunSteps, jobVars, Plain
<1> QED BY <1>1, <1>2, <1>3, <1>4, <1>5, <1>6, <1>7, <1>8, <1>9, <1>10, <1>11, <1>12 DEF Next, DispatchNext

\* Nothing is asked of a server that is gone, and only team-eod outlives one.
Down ==
    node = "down" => /\ parked = {} /\ queue = {} /\ busy = {}
                     /\ \A j \in Jobs : retryTimers[j] = None
                     /\ \A o \in owed : o.job = Eod

LEMMA DownStep == ASSUME Inv, Down, [Next]_vars PROVE Down'
<1>1. CASE Start
  BY <1>1 DEF Start, Down
<1>2. CASE ExitServer \/ CrashServer
  BY <1>2 DEF ExitServer, CrashServer, Gone, Down
<1>3. CASE AdvanceTime \/ UNCHANGED vars \/ \E i \in Ids : RunSteps(i)
  <2>1. UNCHANGED <<node, parked, queue, busy, retryTimers, owed>>
    BY <1>3 DEF AdvanceTime, vars, runnerVars, gateVars, jobVars, RunSteps, StrayExits, Timeout, Escalate, StopEscalates
  <2> QED BY <2>1 DEF Down
<1>4. CASE DispatchNext \/ ResumeTick \/ SettleBusyComparison \/ \E j \in Jobs : SettleBusy(j)
  <2>1. node # "down" /\ node' = node
    BY <1>4 DEF DispatchNext, Dispatch, RunChild, ResumeTick, SettleBusyComparison, SettleBusy, runnerVars
  <2> QED BY <2>1 DEF Down
<1>5. CASE Tick \/ ComparisonRetryFires \/ Stop \/ (\E j \in Jobs : RetryFires(j))
           \/ (\E i \in Ids : ChildCloses(i) \/ HardFinish(i))
  <2>1. node # "down" /\ node' \in {node, "stopping"}
    BY <1>5 DEF Tick, ComparisonRetryFires, Stop, StopChildren, RetryFires, ChildCloses, HardFinish, Finish, Settle, Idle, runnerVars
  <2> QED BY <2>1 DEF Down
<1> QED BY <1>1, <1>2, <1>3, <1>4, <1>5 DEF Next

\* Key k was asked of job j, and no child has been started for it yet.
Asks(j, k) ==
    /\ j # Comparison
    /\ Call(j, k) \in queue \/ (j \in busy /\ dispatched[j] = k) \/ retryTimers[j] = k

\* Only a tick asks for a key that was not asked before.
LEMMA AsksStep ==
  ASSUME Inv, Plain, [Next]_vars, NEW j \in Jobs, NEW k \in DispatchKeys, Asks(j, k)'
  PROVE  Asks(j, k) \/ ((Tick \/ ResumeTick) /\ Call(j, k) \in queue' /\ j # Comparison)
<1>0. SchedulerType /\ k # None
  BY TypeParts, KeysAssumption DEF Inv
<1>a. Call(j, k).job = j /\ Call(j, k).key = k
  BY DEF Call
<1>1. CASE Start \/ ExitServer \/ CrashServer
  <2>1. (Call(j, k) \in queue' => j = Comparison) /\ busy' = {} /\ retryTimers'[j] = None
    BY <1>1 DEF Start, ExitServer, CrashServer, Gone, ComparisonCall, Call
  <2> QED BY <1>0, <2>1 DEF Asks
<1>2. ASSUME NEW c \in queue, Dispatch(c) PROVE Asks(j, k)
  <2>1. /\ queue' = queue \ {c} /\ busy' \subseteq busy \cup {c.job} /\ UNCHANGED retryTimers
        /\ c.job # Comparison => dispatched' = [dispatched EXCEPT ![c.job] = c.key]
        /\ c.job = Comparison => dispatched' = dispatched
    BY <1>2 DEF Dispatch
  <2>2. c.job # Comparison => c.job \notin busy
    BY <1>2 DEF Plain
  <2>3. c \in AllCalls /\ dispatched \in [Jobs -> DispatchKeys \cup {None}]
    BY <1>0 DEF SchedulerType
  <2>4. c = Call(c.job, c.key) /\ c.job \in Jobs
    BY <2>3 DEF AllCalls, Call
  <2>5. CASE c.job = j
    BY <2>1, <2>3, <2>4, <2>5 DEF Asks
  <2>6. CASE c.job # j
    BY <2>1, <2>3, <2>4, <2>6 DEF Asks
  <2> QED BY <2>5, <2>6
<1>3. CASE Tick \/ ResumeTick
  <2>1. UNCHANGED <<busy, dispatched, retryTimers>>
    BY <1>3 DEF Tick, ResumeTick, jobVars
  <2> QED BY <1>3, <2>1 DEF Asks
<1>4. CASE SettleBusyComparison
  <2>1. UNCHANGED <<queue, dispatched, retryTimers>> /\ busy' \subseteq busy
    BY <1>4 DEF SettleBusyComparison, jobVars
  <2> QED BY <2>1 DEF Asks
<1>5. CASE ComparisonRetryFires
  <2>1. UNCHANGED <<busy, dispatched, retryTimers>> /\ queue' \subseteq {ComparisonCall}
    BY <1>5 DEF ComparisonRetryFires, TriggerComparison, jobVars
  <2> QED BY <2>1, <1>a DEF Asks, ComparisonCall, Call
<1>6. CASE Stop
  <2>1. queue' = queue /\ busy' = {} /\ retryTimers'[j] = None
    BY <1>6 DEF Stop, Idle
  <2> QED BY <1>0, <2>1 DEF Asks
<1>7. CASE AdvanceTime \/ UNCHANGED vars \/ \E i \in Ids : RunSteps(i)
  <2>1. UNCHANGED <<queue, busy, dispatched, retryTimers>>
    BY <1>7 DEF AdvanceTime, vars, RunSteps, jobVars
  <2> QED BY <2>1 DEF Asks
<1>8. ASSUME NEW i \in Jobs, SettleBusy(i) PROVE Asks(j, k)
  <2>1. /\ queue' = queue /\ busy' = busy \ {i} /\ i \in busy
        /\ dispatched' \in {dispatched, [dispatched EXCEPT ![i] = None]}
        /\ retryTimers' \in {retryTimers, [retryTimers EXCEPT ![i] = dispatched[i]]}
    BY <1>8 DEF SettleBusy
  <2> QED BY <1>0, <2>1 DEF Asks, SchedulerType
<1>9. ASSUME NEW i \in Jobs, RetryFires(i) PROVE Asks(j, k)
  <2>1. /\ queue' \subseteq {Call(i, retryTimers[i])} /\ busy' = {}
        /\ retryTimers' = [retryTimers EXCEPT ![i] = None]
    BY <1>9 DEF RetryFires, Idle
  <2>2. CASE Call(j, k) \in queue'
    <3>1. i = j /\ retryTimers[i] = k
      BY <2>1, <2>2 DEF Call
    <3>2. j # Comparison
      BY DEF Asks
    <3> QED BY <3>1, <3>2 DEF Asks
  <2>3. CASE Call(j, k) \notin queue'
    BY <1>0, <2>1, <2>3 DEF Asks, SchedulerType
  <2> QED BY <2>2, <2>3
<1>10. ASSUME NEW i \in Ids, ChildCloses(i) \/ HardFinish(i) PROVE Asks(j, k)
  <2>1. busy' = {} /\ UNCHANGED <<retryTimers>> /\ queue' \subseteq {ComparisonCall}
    BY <1>10 DEF ChildCloses, HardFinish, Finish, Idle, CloseSucceeded, TriggerComparison, ComparisonEnds
  <2> QED BY <2>1, <1>a DEF Asks, ComparisonCall, Call
<1> QED BY <1>1, <1>2, <1>3, <1>4, <1>5, <1>6, <1>7, <1>8, <1>9, <1>10 DEF Next, DispatchNext

\* Instant q of day d is not to come.
Reached(d, q) == d < Day(now) \/ (d = Day(now) /\ q <= Point(now))

\* Key k of job j names an instant that was reached and at which it is asked.
Made(j, k) ==
    \/ j = Integrity /\ k[2] = GateFrom /\ Reached(k[1], GateFrom)
    \/ \E q \in DueAt[j] : k[2] = KeyPoint(j, q) /\ Reached(k[1], q)
    \/ j = Outcomes /\ k[2] = AfterClose /\ Reached(k[1], CloseFrom)
    \/ j = Eod /\ k[2] = AfterClose

\* A key of an earlier day is only met before the second instant of a day.
Fresh(k) == k[1] = Day(now) \/ Point(now) = 0

Timely ==
    /\ \A j \in Jobs, k \in DispatchKeys : Asks(j, k) => Made(j, k) /\ Fresh(k)
    /\ \A c \in ran : c.job # Comparison /\ Made(c.job, c.key)
    /\ \A i \in Ids : Pending(i) /\ run[i].job = Close => Made(Close, run[i].key)
    /\ \A t \in parked : t <= now /\ GateFrom <= Point(t) /\ (Day(t) = Day(now) \/ Point(now) = 0)

LEMMA ReachedStays ==
  ASSUME Inv, [Next]_vars, NEW d \in Days, NEW q \in Nat, Reached(d, q) PROVE Reached(d, q)'
<1>0. now \in 0..MaxTime /\ MaxTime \in Nat
  BY TypeParts, SchedulerAssumption DEF Inv, SchedulerType
<1>1. CASE now' = now
  BY <1>1 DEF Reached, Day, Point
<1>2. CASE now' = now + 1
  <2>1. \/ Day(now + 1) = Day(now) /\ Point(now + 1) = Point(now) + 1
        \/ Day(now + 1) = Day(now) + 1 /\ Point(now + 1) = 0
    BY <1>0, NextInstant
  <2>2. Day(now)' = Day(now + 1) /\ Point(now)' = Point(now + 1)
    BY <1>2 DEF Day, Point
  <2>3. Day(now) \in Nat /\ Point(now) \in Nat /\ d \in Nat
    BY <1>0, DayType, SchedulerAssumption DEF Days, Day
  <2> QED BY <2>1, <2>2, <2>3 DEF Reached
<1>3. now' = now \/ now' = now + 1
  BY DEF Next, Start, DispatchNext, Dispatch, Tick, ResumeTick, SettleBusyComparison, ComparisonRetryFires, Stop,
         ExitServer, CrashServer, Gone, AdvanceTime, SettleBusy, RetryFires, ChildCloses, HardFinish, Finish, RunSteps, worldVars, vars
<1> QED BY <1>1, <1>2, <1>3

LEMMA MadeStays ==
  ASSUME Inv, [Next]_vars, NEW j \in Jobs, NEW k \in DispatchKeys, Made(j, k) PROVE Made(j, k)'
<1>1. k[1] \in Days /\ GateFrom \in Nat /\ CloseFrom \in Nat
  BY SchedulerAssumption DEF DispatchKeys
<1>2. \A q \in DueAt[j] : q \in Nat
  BY TimetableAssumption, SchedulerAssumption
<1>3. Reached(k[1], GateFrom) => Reached(k[1], GateFrom)'
  BY <1>1, ReachedStays
<1>4. Reached(k[1], CloseFrom) => Reached(k[1], CloseFrom)'
  BY <1>1, ReachedStays
<1>5. \A q \in DueAt[j] : Reached(k[1], q) => Reached(k[1], q)'
  BY <1>1, <1>2, ReachedStays
<1> QED BY <1>3, <1>4, <1>5 DEF Made

\* What a tick of the day asks for is timely.
LEMMA TickTimely ==
  ASSUME Inv, NEW t \in 0..MaxTime, t <= now, Day(t) = Day(now) \/ Point(now) = 0, now' = now,
         NEW j \in Jobs, NEW k \in DispatchKeys,
         \/ DueCall(Call(j, k), t) \/ EodCall(Call(j, k), t) \/ OutcomesCall(Call(j, k), t)
         \/ Call(j, k) = Call(Integrity, IntegrityKey(t)) /\ GateFrom <= Point(t)
  PROVE  Made(j, k)' /\ Fresh(k)'
<1>0. now \in Nat /\ t \in Nat
  BY TypeParts, SchedulerAssumption DEF Inv, SchedulerType
<1>1. Call(j, k).job = j /\ Call(j, k).key = k
  BY DEF Call
<1>2. Reached(Day(t), Point(t)) /\ Point(t) \in Nat /\ Day(t) \in Nat /\ Day(now) \in Nat /\ Point(now) \in Nat
  BY <1>0, Instants, DayType, SchedulerAssumption, TypeParts DEF Reached, Days, Inv, SchedulerType
<1>3. \A q \in Nat : q <= Point(t) => Reached(Day(t), q)
  BY <1>2 DEF Reached
<1>4. CASE DueCall(Call(j, k), t)
  <2>1. k = <<Day(t), KeyPoint(j, Point(t))>> /\ Point(t) \in DueAt[j]
    BY <1>1, <1>4, KeyParts DEF DueCall, Call
  <2> QED BY <2>1, <1>2 DEF Made, Fresh, Reached, Day, Point
<1>5. CASE EodCall(Call(j, k), t)
  <2>1. j = Eod /\ k = <<Day(t), AfterClose>>
    BY <1>5, <1>1 DEF EodCall, Call, AfterCloseKey
  <2> QED BY <2>1 DEF Made, Fresh, Day, Point
<1>6. CASE OutcomesCall(Call(j, k), t)
  <2>1. j = Outcomes /\ k = <<Day(t), AfterClose>> /\ CloseFrom <= Point(t)
    BY <1>6, <1>1 DEF OutcomesCall, Call, AfterCloseKey
  <2> QED BY <2>1, <1>3, SchedulerAssumption DEF Made, Fresh, Reached, Day, Point
<1>7. CASE Call(j, k) = Call(Integrity, IntegrityKey(t)) /\ GateFrom <= Point(t)
  <2>1. j = Integrity /\ k = <<Day(t), GateFrom>>
    BY <1>7, <1>1 DEF Call, IntegrityKey
  <2> QED BY <2>1, <1>3, <1>7, SchedulerAssumption DEF Made, Fresh, Reached, Day, Point
<1> QED BY <1>4, <1>5, <1>6, <1>7

\* What a step of tick, or of a tick that had waited, asks for.
LEMMA TickAsks ==
  ASSUME Inv, Timely, Tick \/ ResumeTick, NEW c \in queue'
  PROVE  \E t \in 0..MaxTime :
           /\ t = now \/ t \in parked
           /\ t <= now /\ (Day(t) = Day(now) \/ Point(now) = 0)
           /\ \/ /\ DueCall(c, t) \/ EodCall(c, t) \/ OutcomesCall(c, t)
                 /\ TickBody(t)
                 /\ \/ Tick /\ t = now /\ Point(t) < GateFrom
                    \/ ResumeTick /\ t \in parked /\ parked' = parked \ {t} /\ IntegrityPassed(t) /\ \A u \in parked : t <= u
              \/ /\ Tick /\ t = now /\ GateFrom <= Point(t)
                 /\ c = Call(Integrity, IntegrityKey(t)) /\ dispatched[Integrity] # IntegrityKey(t)
                 /\ Integrity \notin inFlight
<1>0. SchedulerType /\ now \in 0..MaxTime /\ GateFrom \in Nat /\ Point(now) \in Nat
  BY TypeParts, DayType, SchedulerAssumption DEF Inv, SchedulerType
<1>1. CASE Tick
  <2>1. CASE TickBody(now) /\ Point(now) < GateFrom
    <3>1. DueCall(c, now) \/ EodCall(c, now) \/ OutcomesCall(c, now)
      BY <1>0, <2>1, TickCalls
    <3> QED BY <1>0, <1>1, <2>1, <3>1
  <2>2. CASE /\ GateFrom <= Point(now)
             /\ queue' = IF dispatched[Integrity] # IntegrityKey(now) /\ Integrity \notin inFlight
                         THEN {Call(Integrity, IntegrityKey(now))} ELSE {}
    BY <1>0, <1>1, <2>2
  <2> QED BY <1>0, <1>1, <2>1, <2>2 DEF Tick
<1>2. CASE ResumeTick
  <2>1. PICK t \in parked : /\ \A u \in parked : t <= u
                            /\ parked' = parked \ {t}
                            /\ IF IntegrityPassed(t) THEN TickBody(t) ELSE UNCHANGED <<followVars, queue>>
    BY <1>2 DEF ResumeTick
  <2>2. queue = {}
    BY <1>2 DEF ResumeTick
  <2>3. IntegrityPassed(t) /\ TickBody(t)
    BY <2>1, <2>2
  <2>4. t \in 0..MaxTime
    BY <1>0, <2>1 DEF SchedulerType
  <2>5. DueCall(c, t) \/ EodCall(c, t) \/ OutcomesCall(c, t)
    BY <2>3, <2>4, TickCalls
  <2> QED BY <1>2, <2>1, <2>3, <2>4, <2>5 DEF Timely
<1> QED BY <1>1, <1>2

\* A run that is pending was pending before, for the same job and key, or was
\* started by a dispatch.
LEMMA RunsStep ==
  ASSUME Inv, [Next]_vars, NEW i \in Ids, Pending(i)'
  PROVE  \/ Pending(i) /\ run'[i].job = run[i].job /\ run'[i].key = run[i].key
         \/ \E c \in queue : Dispatch(c) /\ run'[i].job = c.job /\ run'[i].key = c.key
<1>0. run \in [Ids -> RunRecord]
  BY DEF Inv, RunnerInv, RunnerType
<1>1. CASE UNCHANGED run
  BY <1>1 DEF Pending
<1>2. ASSUME NEW c \in queue, Dispatch(c) 
      PROVE  \/ (Pending(i) /\ run'[i].job = run[i].job /\ run'[i].key = run[i].key)
             \/ (Dispatch(c) /\ run'[i].job = c.job /\ run'[i].key = c.key)
  <2>1. CASE UNCHANGED runnerVars
    BY <2>1 DEF runnerVars, Pending
  <2>2. CASE RunChild(c.job, c.key, IF running THEN "served" ELSE "late")
    <3> DEFINE r0 == [job |-> c.job, key |-> c.key, timer |-> "timeout", signal |-> "none",
                      era |-> IF running THEN "served" ELSE "late"]
    <3>1. PICK o \in Free : run' = [run EXCEPT ![o] = r0]
      BY <2>2 DEF RunChild
    <3>2. r0.job = c.job /\ r0.key = c.key
      OBVIOUS
    <3> HIDE DEF r0
    <3> QED BY <1>0, <1>2, <3>1, <3>2 DEF Free, Pending
  <2> QED BY <1>2, <2>1, <2>2 DEF Dispatch
<1>3. CASE ExitServer \/ CrashServer
  <2>1. PICK survivors \in SUBSET {o \in Ids : Exists(o)} :
          run' = [o \in Ids |-> IF o \in survivors THEN Orphan(run[o]) ELSE NoRun]
    BY <1>3 DEF ExitServer, CrashServer, Gone, ServerGone
  <2>2. Orphan(run[i]).timer = "gone"
    BY <1>0 DEF Orphan, RunRecord
  <2>3. run'[i].timer \in {"gone", "free"}
    BY <2>1, <2>2, NoRunType
  <2> QED BY <2>3 DEF Pending
<1>4. CASE Stop
  BY <1>0, <1>4 DEF Stop, StopChildren, Pending, RunRecord
<1>5. ASSUME NEW o \in Ids, ChildCloses(o) \/ HardFinish(o) PROVE Pending(i) /\ run'[i].job = run[i].job /\ run'[i].key = run[i].key
  <2>1. PICK survives \in BOOLEAN : Settle(o, survives)
    BY <1>5 DEF ChildCloses, HardFinish, Finish
  <2>2. CASE i = o
    BY <1>0, <2>1, <2>2, NoRunType DEF Settle, Pending, RunRecord
  <2>3. CASE i # o
    BY <1>0, <2>1, <2>3 DEF Settle, Pending
  <2> QED BY <2>2, <2>3
<1>6. ASSUME NEW o \in Ids, RunSteps(o) PROVE Pending(i) /\ run'[i].job = run[i].job /\ run'[i].key = run[i].key
  <2>1. CASE i # o
    BY <1>0, <1>6, <2>1 DEF RunSteps, StrayExits, Timeout, Escalate, StopEscalates, Pending
  <2>2. CASE i = o
    <3>1. CASE StrayExits(o)
      BY <1>0, <2>2, <3>1, NoRunType DEF StrayExits, Pending
    <3>2. CASE Timeout(o)
      BY <1>0, <2>2, <3>2 DEF Timeout, Pending, RunRecord
    <3>3. CASE Escalate(o)
      BY <1>0, <2>2, <3>3 DEF Escalate, Pending, RunRecord
    <3>4. CASE StopEscalates(o)
      BY <1>0, <2>2, <3>4 DEF StopEscalates, Pending, RunRecord
    <3> QED BY <1>6, <3>1, <3>2, <3>3, <3>4 DEF RunSteps
  <2> QED BY <2>1, <2>2
<1>7. CASE \/ Start \/ Tick \/ ResumeTick \/ SettleBusyComparison \/ ComparisonRetryFires \/ AdvanceTime
           \/ UNCHANGED vars \/ \E j \in Jobs : SettleBusy(j) \/ RetryFires(j)
  BY <1>1, <1>7 DEF Start, Tick, ResumeTick, SettleBusyComparison, ComparisonRetryFires, AdvanceTime, SettleBusy, RetryFires, runnerVars, vars
<1> QED BY <1>2, <1>3, <1>4, <1>5, <1>6, <1>7 DEF Next, DispatchNext

\* Only a dispatch adds to what this server has started.
LEMMA RanStep ==
  ASSUME [Next]_vars, NEW c \in ran'
  PROVE  c \in ran \/ (c \in queue /\ Dispatch(c) /\ c.job # Comparison)
<1>1. ASSUME NEW e \in queue, Dispatch(e) PROVE c \in ran \/ (c = e /\ c.job # Comparison)
  BY <1>1 DEF Dispatch
<1>2. CASE Start \/ ExitServer \/ CrashServer
  BY <1>2 DEF Start, ExitServer, CrashServer, Gone
<1>3. CASE \/ Tick \/ ResumeTick \/ SettleBusyComparison \/ ComparisonRetryFires \/ AdvanceTime \/ Stop
           \/ UNCHANGED vars \/ (\E j \in Jobs : SettleBusy(j) \/ RetryFires(j))
           \/ (\E i \in Ids : ChildCloses(i) \/ HardFinish(i) \/ RunSteps(i))
  BY <1>3 DEF Tick, ResumeTick, SettleBusyComparison, ComparisonRetryFires, AdvanceTime, Stop, SettleBusy, RetryFires,
              ChildCloses, HardFinish, Finish, RunSteps, vars
<1> QED BY <1>1, <1>2, <1>3 DEF Next, DispatchNext

LEMMA TimelyStep == ASSUME Inv, Plain, Down, Timely, [Next]_vars PROVE Timely'
<1>0. SchedulerType /\ SchedulerType' /\ Inv'
  BY NextInv, TypeParts DEF Inv, TypeOK, SchedulerType, MaybeDays, AllCalls
<1>a. now' = now \/ (AdvanceTime /\ now' = now + 1)
  BY DEF Next, Start, DispatchNext, Dispatch, Tick, ResumeTick, SettleBusyComparison, ComparisonRetryFires, Stop,
         ExitServer, CrashServer, Gone, AdvanceTime, SettleBusy, RetryFires, ChildCloses, HardFinish, Finish, RunSteps, worldVars, vars
<1>b. now \in 0..MaxTime /\ now \in Nat
  BY <1>0, SchedulerAssumption DEF SchedulerType
<1>1. ASSUME NEW j \in Jobs, NEW k \in DispatchKeys, Asks(j, k)' PROVE Made(j, k)' /\ Fresh(k)'
  <2>1. CASE Asks(j, k)
    <3>1. Made(j, k)' /\ Fresh(k)
      BY <2>1, MadeStays DEF Timely
    <3>2. CASE now' = now
      BY <3>1, <3>2 DEF Fresh, Day, Point
    <3>3. CASE AdvanceTime /\ now' = now + 1
      <4>1. UNCHANGED <<queue, busy, dispatched, retryTimers>>
        BY <3>3 DEF AdvanceTime, jobVars
      <4>2. k # None
        BY KeysAssumption
      <4>3. retryTimers[j] = k /\ (Idle /\ NothingOverslept)
        BY <1>1, <3>3, <4>1, <4>2 DEF AdvanceTime, Asks, Idle, Down
      <4>4. k[1] = Day(now)
        BY <4>2, <4>3 DEF NothingOverslept
      <4>5. Day(now + 1) = Day(now) \/ Point(now + 1) = 0
        BY <1>b, NextInstant
      <4>6. Fresh(k)'
        BY <3>3, <4>4, <4>5 DEF Fresh, Day, Point
      <4> QED BY <3>1, <4>6
    <3> QED BY <1>a, <3>2, <3>3
  <2>2. CASE (Tick \/ ResumeTick) /\ Call(j, k) \in queue'
    <3>1. PICK t \in 0..MaxTime :
            /\ t <= now /\ (Day(t) = Day(now) \/ Point(now) = 0)
            /\ \/ DueCall(Call(j, k), t) \/ EodCall(Call(j, k), t) \/ OutcomesCall(Call(j, k), t)
               \/ Call(j, k) = Call(Integrity, IntegrityKey(t)) /\ GateFrom <= Point(t)
      BY <2>2, TickAsks
    <3>2. now' = now
      BY <2>2 DEF Tick, ResumeTick, worldVars
    <3> QED BY <3>1, <3>2, TickTimely
  <2> QED BY <1>1, <2>1, <2>2, AsksStep
<1>2. ASSUME NEW c \in ran' PROVE c.job # Comparison /\ Made(c.job, c.key)'
  <2>1. CASE c \in ran
    <3>1. c.job # Comparison /\ Made(c.job, c.key) /\ c \in AllCalls
      BY <1>0, <2>1 DEF Timely, SchedulerType
    <3>2. PICK j \in Jobs, k \in DispatchKeys : j = c.job /\ k = c.key
      BY <3>1 DEF AllCalls
    <3>3. Made(j, k)'
      BY <3>1, <3>2, MadeStays
    <3> QED BY <3>1, <3>2, <3>3
  <2>2. CASE c \in queue /\ c.job # Comparison
    <3>1. c \in AllCalls
      BY <1>0, <2>2 DEF SchedulerType
    <3>2. PICK j \in Jobs, k \in DispatchKeys : j = c.job /\ k = c.key /\ c = Call(j, k)
      BY <3>1 DEF AllCalls, Call
    <3>3. Asks(j, k)
      BY <2>2, <3>2 DEF Asks
    <3>4. Made(j, k)'
      BY <3>3, MadeStays DEF Timely
    <3> QED BY <2>2, <3>2, <3>4
  <2> QED BY <2>1, <2>2, RanStep
<1>3. ASSUME NEW i \in Ids, Pending(i)', run'[i].job = Close PROVE Made(Close, run[i].key)'
  <2>0. run'[i] \in RunRecord /\ run \in [Ids -> RunRecord]
    BY <1>0 DEF Inv, RunnerInv, RunnerType
  <2>1. CASE Pending(i) /\ run'[i].job = run[i].job /\ run'[i].key = run[i].key
    <3>1. PICK k \in DispatchKeys : k = run[i].key
      BY <2>0, KeysAssumption DEF RunRecord
    <3>2. Made(Close, k)'
      BY <1>3, <2>1, <3>1, MadeStays, SchedulerAssumption DEF Timely
    <3> QED BY <2>1, <3>1, <3>2
  <2>2. CASE \E c \in queue : Dispatch(c) /\ run'[i].job = c.job /\ run'[i].key = c.key
    <3>1. PICK c \in queue : run'[i].job = c.job /\ run'[i].key = c.key
      BY <2>2
    <3>2. c \in AllCalls
      BY <1>0 DEF SchedulerType
    <3>3. PICK k \in DispatchKeys : k = c.key /\ c = Call(Close, k)
      BY <1>3, <3>1, <3>2 DEF AllCalls, Call
    <3>4. Asks(Close, k)
      BY <3>3, SchedulerAssumption DEF Asks
    <3>5. Made(Close, k)'
      BY <3>4, MadeStays, SchedulerAssumption DEF Timely
    <3> QED BY <3>1, <3>3, <3>5
  <2> QED BY <1>3, <2>1, <2>2, RunsStep
<1>4. ASSUME NEW t \in parked' PROVE t <= now' /\ GateFrom <= Point(t) /\ (Day(t) = Day(now)' \/ Point(now)' = 0)
  <2>0. t \in 0..MaxTime /\ t \in Nat
    BY <1>0, SchedulerAssumption DEF SchedulerType
  <2>1. t \in parked \/ (Tick /\ t = now /\ GateFrom <= Point(now))
    <3>1. Tick => parked' = parked \/ (parked' = parked \cup {now} /\ ~(Point(now) < GateFrom))
      BY DEF Tick
    <3>2. Point(now) \in Nat /\ GateFrom \in Nat
      BY <1>b, DayType, SchedulerAssumption
    <3>3. ~Tick => parked' \subseteq parked
      BY DEF Next, Start, DispatchNext, Dispatch, ResumeTick, SettleBusyComparison, ComparisonRetryFires, Stop,
             ExitServer, CrashServer, Gone, AdvanceTime, SettleBusy, RetryFires, ChildCloses, HardFinish, Finish,
             RunSteps, gateVars, vars
    <3> QED BY <3>1, <3>2, <3>3
  <2>2. CASE now' = now
    <3>1. Day(now)' = Day(now) /\ Point(now)' = Point(now)
      BY <2>2 DEF Day, Point
    <3> QED BY <1>b, <2>0, <2>1, <2>2, <3>1 DEF Timely
  <2>3. CASE AdvanceTime /\ now' = now + 1
    <3>1. parked' = parked
      BY <2>3 DEF AdvanceTime, gateVars
    <3>2. Day(t) = Day(now)
      BY <1>4, <2>3, <3>1 DEF AdvanceTime, NothingOverslept, Down
    <3>3. Day(now + 1) = Day(now) \/ Point(now + 1) = 0
      BY <1>b, NextInstant
    <3>4. Day(now)' = Day(now + 1) /\ Point(now)' = Point(now + 1)
      BY <2>3 DEF Day, Point
    <3>5. t <= now /\ GateFrom <= Point(t)
      BY <1>4, <3>1 DEF Timely
    <3> QED BY <1>b, <2>0, <2>3, <3>2, <3>3, <3>4, <3>5
  <2> QED BY <1>a, <2>2, <2>3
<1> QED BY <1>1, <1>2, <1>3, <1>4 DEF Timely

LEMMA KeysInit == Init => Plain /\ Down /\ Timely
<1> SUFFICES ASSUME Init PROVE Plain /\ Down /\ Timely
  OBVIOUS
<1>1. Plain /\ Down
  BY DEF Init, RunnerInit, Plain, Down
<1>2. \A i \in Ids : ~Pending(i)
  BY NoRunType DEF Init, RunnerInit, Pending
<1>3. \A j \in Jobs, k \in DispatchKeys : ~Asks(j, k)
  BY KeysAssumption DEF Init, Asks
<1> QED BY <1>1, <1>2, <1>3 DEF Init, Timely

-----------------------------------------------------------------------------
(* A key is started once.                                                  *)

Once == Jobs \ {Outcomes, Eod, Comparison}

\* The key under which a tick that reads the clock at t asks for job j.
TickKey(j, t) == IF j = Integrity THEN IntegrityKey(t) ELSE KeyFor(j, t)

Upto(k, l) == k[1] < l[1] \/ (k[1] = l[1] /\ k[2] <= l[2])

\* The clocks with which job j may still be asked: that of a tick that waits, and
\* from now on.
Ahead(j) == {now} \cup {t \in parked : Point(t) \in DueAt[j]}

\* A key that is asked has not been started, and what was asked or started is not
\* ahead of any clock; a started key that a tick may still ask for is the last one
\* that was dispatched.
OnceInv ==
    /\ \A j \in Once, k \in DispatchKeys :
         Asks(j, k) => Call(j, k) \notin ran /\ (Call(j, k) \in queue => retryTimers[j] # k)
    /\ \A j \in Once, k \in DispatchKeys :
         Asks(j, k) \/ Call(j, k) \in ran => \A t \in Ahead(j) : Upto(k, TickKey(j, t))
    /\ \A j \in Once, k \in DispatchKeys :
         Call(j, k) \in ran => \A t \in Ahead(j) : TickKey(j, t) = k => dispatched[j] = k
    /\ \A j \in Once, k, l \in DispatchKeys :
         Call(j, k) \in queue /\ Call(j, l) \in ran => Upto(l, k)

LEMMA UptoOrder ==
  /\ \A k \in DispatchKeys : Upto(k, k)
  /\ \A k, l \in DispatchKeys : Upto(k, l) /\ Upto(l, k) => k = l
  /\ \A k, l, m \in DispatchKeys : Upto(k, l) /\ Upto(l, m) => Upto(k, m)
<1>1. \A k \in DispatchKeys : k = <<k[1], k[2]>> /\ k[1] \in Nat /\ k[2] \in Nat
  BY SchedulerAssumption DEF DispatchKeys, Days, Day
<1>2. \A k \in DispatchKeys : Upto(k, k)
  BY <1>1 DEF Upto
<1>3. ASSUME NEW k \in DispatchKeys, NEW l \in DispatchKeys, Upto(k, l), Upto(l, k) PROVE k = l
  <2>1. k[1] = l[1] /\ k[2] = l[2]
    BY <1>1, <1>3 DEF Upto
  <2> QED BY <1>1, <2>1
<1>4. \A k, l, m \in DispatchKeys : Upto(k, l) /\ Upto(l, m) => Upto(k, m)
  BY <1>1 DEF Upto
<1> QED BY <1>2, <1>3, <1>4

LEMMA TickKeyGrows ==
  ASSUME NEW j \in Jobs, NEW t \in 0..MaxTime, NEW u \in 0..MaxTime, t <= u
  PROVE  /\ TickKey(j, t) \in DispatchKeys
         /\ Upto(TickKey(j, t), TickKey(j, u))
<1>0. t \in Nat /\ u \in Nat
  BY SchedulerAssumption
<1>1. Day(t) < Day(u) \/ (Day(t) = Day(u) /\ Point(t) <= Point(u))
  BY <1>0, Instants
<1>2. TickKey(j, t) \in DispatchKeys
  BY KeyType DEF TickKey
<1>3. KeyFor(j, t) = <<Day(t), KeyPoint(j, Point(t))>> /\ KeyPoint(j, Point(t)) \in 0..(DayLength - 1)
  BY KeyParts
<1>4. KeyFor(j, u) = <<Day(u), KeyPoint(j, Point(u))>> /\ KeyPoint(j, Point(u)) \in 0..(DayLength - 1)
  BY KeyParts
<1>5. Day(t) = Day(u) /\ Point(t) <= Point(u) => KeyPoint(j, Point(t)) <= KeyPoint(j, Point(u))
  <2>1. CASE j \in DOMAIN DailyKey
    BY <1>3, <2>1, SchedulerAssumption DEF KeyPoint
  <2>2. CASE j \notin DOMAIN DailyKey
    BY <2>2 DEF KeyPoint
  <2> QED BY <2>1, <2>2
<1>6. CASE j = Integrity
  BY <1>1, <1>2, <1>6, SchedulerAssumption DEF TickKey, IntegrityKey, Upto
<1>7. CASE j # Integrity
  BY <1>1, <1>2, <1>3, <1>4, <1>5, <1>7 DEF TickKey, Upto
<1> QED BY <1>2, <1>6, <1>7

\* Where a call in the queue comes from.
LEMMA QueueStep ==
  ASSUME Inv, Plain, [Next]_vars, NEW j \in Jobs \ {Comparison}, NEW k \in DispatchKeys, Call(j, k) \in queue'
  PROVE  \/ Call(j, k) \in queue /\ retryTimers'[j] \in {retryTimers[j], None}
         \/ RetryFires(j) /\ retryTimers[j] = k /\ WithinWindow(j, k) /\ retryTimers'[j] = None
         \/ (Tick \/ ResumeTick) /\ retryTimers' = retryTimers
<1>0. SchedulerType /\ k # None
  BY TypeParts, KeysAssumption DEF Inv
<1>a. Call(j, k).job = j /\ Call(j, k).key = k /\ Call(j, k) # ComparisonCall
  BY DEF Call, ComparisonCall
<1>1. CASE Start \/ ExitServer \/ CrashServer
  BY <1>a, <1>1 DEF Start, ExitServer, CrashServer, Gone
<1>2. CASE DispatchNext
  BY <1>2 DEF DispatchNext, Dispatch
<1>3. CASE Tick \/ ResumeTick
  BY <1>3 DEF Tick, ResumeTick, jobVars
<1>4. CASE SettleBusyComparison \/ AdvanceTime \/ UNCHANGED vars \/ \E i \in Ids : RunSteps(i)
  BY <1>4 DEF SettleBusyComparison, AdvanceTime, RunSteps, jobVars, vars
<1>5. CASE ComparisonRetryFires \/ \E i \in Ids : ChildCloses(i) \/ HardFinish(i)
  <2>1. queue' \subseteq {ComparisonCall}
    BY <1>5 DEF ComparisonRetryFires, TriggerComparison, ChildCloses, HardFinish, Finish, Idle, CloseSucceeded, ComparisonEnds
  <2> QED BY <1>a, <2>1
<1>6. CASE Stop
  BY <1>6 DEF Stop
<1>7. CASE \E i \in Jobs : SettleBusy(i)
  BY <1>7 DEF SettleBusy
<1>8. ASSUME NEW i \in Jobs, RetryFires(i) PROVE RetryFires(j) /\ retryTimers[j] = k /\ WithinWindow(j, k) /\ retryTimers'[j] = None
  <2>1. Call(j, k) = Call(i, retryTimers[i]) /\ WithinWindow(i, retryTimers[i])
    BY <1>8 DEF RetryFires
  <2>2. i = j /\ retryTimers[i] = k
    BY <2>1 DEF Call
  <2>3. retryTimers'[j] = None
    BY <1>0, <1>8, <2>2 DEF RetryFires, SchedulerType
  <2> QED BY <1>8, <2>1, <2>2, <2>3
<1> QED BY <1>1, <1>2, <1>3, <1>4, <1>5, <1>6, <1>7, <1>8 DEF Next

\* The clock of a tick that waits was the present one when the tick began.
LEMMA AheadStep ==
  ASSUME [Next]_vars, NEW j \in Jobs, NEW t \in Ahead(j)'
  PROVE  t \in Ahead(j) \/ (AdvanceTime /\ t = now + 1)
<1>1. parked' \subseteq parked \cup {now}
  BY DEF Next, Start, DispatchNext, Dispatch, Tick, ResumeTick, SettleBusyComparison, ComparisonRetryFires, Stop,
         ExitServer, CrashServer, Gone, AdvanceTime, SettleBusy, RetryFires, ChildCloses, HardFinish, Finish,
         RunSteps, gateVars, vars
<1>2. now' = now \/ (AdvanceTime /\ now' = now + 1)
  BY DEF Next, Start, DispatchNext, Dispatch, Tick, ResumeTick, SettleBusyComparison, ComparisonRetryFires, Stop,
         ExitServer, CrashServer, Gone, AdvanceTime, SettleBusy, RetryFires, ChildCloses, HardFinish, Finish, RunSteps, worldVars, vars
<1>3. t = now' \/ (t \in parked' /\ Point(t) \in DueAt[j])
  BY DEF Ahead
<1> QED BY <1>1, <1>2, <1>3 DEF Ahead

\* A job that tick starts once for a key is asked for it with the clock of the tick.
LEMMA TickAsksOnce ==
  ASSUME Inv, Timely, Tick \/ ResumeTick, NEW j \in Once, NEW k \in DispatchKeys, Call(j, k) \in queue'
  PROVE  /\ dispatched[j] # k /\ (j = Integrity \/ retryKeys[j] # k)
         /\ \E t \in Ahead(j) : /\ t \in 0..MaxTime /\ k = TickKey(j, t)
                                /\ \A u \in Ahead(j) : t <= u
<1>0. /\ Call(j, k).job = j /\ Call(j, k).key = k /\ parked \subseteq 0..MaxTime
      /\ now \in 0..MaxTime /\ MaxTime \in Nat
  BY TypeParts, SchedulerAssumption DEF Call, Inv, SchedulerType
<1>1. PICK t \in 0..MaxTime :
           /\ t = now \/ t \in parked
           /\ t <= now
           /\ \/ /\ DueCall(Call(j, k), t) \/ EodCall(Call(j, k), t) \/ OutcomesCall(Call(j, k), t)
                 /\ \/ Tick /\ t = now /\ Point(t) < GateFrom
                    \/ t \in parked /\ \A u \in parked : t <= u
              \/ /\ t = now /\ Call(j, k) = Call(Integrity, IntegrityKey(t))
                 /\ dispatched[Integrity] # IntegrityKey(t)
  BY TickAsks
<1>2. ~EodCall(Call(j, k), t) /\ ~OutcomesCall(Call(j, k), t)
  BY <1>0 DEF EodCall, OutcomesCall, Call, Once
<1>3. CASE DueCall(Call(j, k), t)
  <2>1. /\ k = KeyFor(j, t) /\ Point(t) \in DueAt[j] /\ j # Integrity
        /\ dispatched[j] # k /\ retryKeys[j] # k
    BY <1>0, <1>3 DEF DueCall, Call, Asked
  <2>2. t \in Ahead(j) /\ k = TickKey(j, t)
    BY <1>1, <2>1 DEF Ahead, TickKey
  <2>3. ASSUME NEW u \in Ahead(j) PROVE t <= u
    <3>1. u = now \/ (u \in parked /\ Point(u) \in DueAt[j])
      BY DEF Ahead
    <3>2. CASE u \in parked /\ Point(u) \in DueAt[j] /\ Point(t) < GateFrom
      <4>1. Point(u) = Point(t)
        <5>1. j \in Jobs
          BY DEF Once
        <5>2. DueAt[j] = {Point(t)}
          BY <2>1, <3>2, <5>1, TimetableAssumption
        <5> QED BY <3>2, <5>2
      <4>2. GateFrom <= Point(u)
        BY <3>2 DEF Timely
      <4>3. Point(t) \in Nat /\ GateFrom \in Nat
        BY DayType, SchedulerAssumption
      <4> QED BY <3>2, <4>1, <4>2, <4>3
    <3>3. (Tick /\ t = now /\ Point(t) < GateFrom) \/ (t \in parked /\ \A v \in parked : t <= v)
      BY <1>0, <1>1, <2>1 DEF Call
    <3> QED BY <1>0, <1>1, <3>1, <3>2, <3>3
  <2> QED BY <2>1, <2>2, <2>3
<1>4. CASE /\ t = now /\ Call(j, k) = Call(Integrity, IntegrityKey(t))
           /\ dispatched[Integrity] # IntegrityKey(t)
  <2>1. j = Integrity /\ k = IntegrityKey(t)
    BY <1>4 DEF Call
  <2>2. Ahead(j) = {now}
    BY <2>1, TimetableAssumption DEF Ahead
  <2> QED BY <1>0, <1>4, <2>1, <2>2 DEF TickKey
<1> QED BY <1>1, <1>2, <1>3, <1>4

OnceType == Inv /\ Plain /\ Timely /\ OnceInv

LEMMA OnceAsked ==
  ASSUME OnceType, [Next]_vars, NEW j \in Once, NEW k \in DispatchKeys, Asks(j, k)'
  PROVE  Call(j, k) \notin ran' /\ (Call(j, k) \in queue' => retryTimers'[j] # k)
<1>0. Inv /\ Plain /\ Timely /\ OnceInv /\ j \in Jobs \ {Comparison} /\ k # None /\ SchedulerType
  BY TypeParts, KeysAssumption DEF OnceType, Once, Inv
<1>a. Call(j, k).job = j /\ Call(j, k).key = k
  BY DEF Call
<1>1. ASSUME Tick \/ ResumeTick, Call(j, k) \in queue', Call(j, k) \in ran PROVE FALSE
  <2>1. dispatched[j] # k /\ \E t \in Ahead(j) : k = TickKey(j, t)
    BY <1>0, <1>1, TickAsksOnce
  <2> QED BY <1>0, <1>1, <2>1 DEF OnceInv
<1>2. ASSUME Call(j, k) \in queue, Dispatch(Call(j, k)) PROVE ~Asks(j, k)' \/ Call(j, k) \notin ran'
  <2>1. Asks(j, k)
    BY <1>0, <1>2 DEF Asks
  <2>2. Call(j, k) \notin ran /\ retryTimers[j] # k /\ j \notin busy
    BY <1>0, <1>a, <1>2, <2>1 DEF OnceInv, Plain
  <2>3. /\ queue' = queue \ {Call(j, k)} /\ retryTimers' = retryTimers
        /\ busy' = busy \/ ran' = ran
    BY <1>2 DEF Dispatch
  <2> QED BY <2>2, <2>3 DEF Asks
<1>3. Call(j, k) \notin ran'
  <2>1. Asks(j, k) => Call(j, k) \notin ran
    BY <1>0 DEF OnceInv
  <2>2. (Tick \/ ResumeTick) => ran' = ran
    BY DEF Tick, ResumeTick
  <2>3. Asks(j, k) \/ ((Tick \/ ResumeTick) /\ Call(j, k) \in queue')
    BY <1>0, AsksStep
  <2>4. Call(j, k) \in ran' => Call(j, k) \in ran \/ (Call(j, k) \in queue /\ Dispatch(Call(j, k)))
    BY RanStep
  <2> QED BY <1>1, <1>2, <2>1, <2>2, <2>3, <2>4
<1>4. ASSUME Call(j, k) \in queue' PROVE retryTimers'[j] # k
  <2>1. CASE Call(j, k) \in queue /\ retryTimers'[j] \in {retryTimers[j], None}
    <3>1. Asks(j, k)
      BY <1>0, <2>1 DEF Asks
    <3> QED BY <1>0, <2>1, <3>1 DEF OnceInv
  <2>2. CASE (Tick \/ ResumeTick) /\ retryTimers' = retryTimers
    <3>1. j = Integrity \/ retryKeys[j] # k
      BY <1>0, <1>4, <2>2, TickAsksOnce
    <3>2. retryTimers[Integrity] = None
      BY <1>0, TimetableAssumption, SchedulerAssumption DEF Plain
    <3> QED BY <1>0, <2>2, <3>1, <3>2 DEF Plain
  <2> QED BY <1>0, <1>4, <2>1, <2>2, QueueStep
<1> QED BY <1>3, <1>4

\* What is asked or was started, in one step.
LEMMA MetStep ==
  ASSUME Inv, Plain, [Next]_vars, NEW j \in Jobs \ {Comparison}, NEW k \in DispatchKeys, Asks(j, k)' \/ Call(j, k) \in ran'
  PROVE  Asks(j, k) \/ Call(j, k) \in ran \/ ((Tick \/ ResumeTick) /\ Call(j, k) \in queue')
<1>1. Asks(j, k)' => Asks(j, k) \/ ((Tick \/ ResumeTick) /\ Call(j, k) \in queue')
  BY AsksStep
<1>2. Call(j, k) \in ran' => Call(j, k) \in ran \/ Call(j, k) \in queue
  BY RanStep
<1> QED BY <1>1, <1>2 DEF Asks

LEMMA OnceAhead ==
  ASSUME OnceType, [Next]_vars, NEW j \in Once, NEW k \in DispatchKeys, Asks(j, k)' \/ Call(j, k) \in ran',
         NEW t \in Ahead(j)'
  PROVE  Upto(k, TickKey(j, t))
<1>0. /\ Inv /\ Plain /\ Timely /\ OnceInv /\ j \in Jobs \ {Comparison} /\ SchedulerType
      /\ MaxTime \in Nat
  BY TypeParts, SchedulerAssumption DEF OnceType, Once, Inv
<1>1. t \in Ahead(j) \/ (AdvanceTime /\ t = now + 1)
  BY <1>0, AheadStep
<1>2. now \in Ahead(j) /\ now \in 0..MaxTime /\ \A u \in Ahead(j) : u \in 0..MaxTime
  BY <1>0 DEF Ahead, SchedulerType
<1>3. CASE Asks(j, k) \/ Call(j, k) \in ran
  <2>1. CASE t \in Ahead(j)
    BY <1>0, <1>3, <2>1 DEF OnceInv
  <2>2. CASE AdvanceTime /\ t = now + 1
    <3>1. t \in 0..MaxTime /\ now <= t
      BY <1>0, <1>2, <2>2 DEF AdvanceTime
    <3>2. TickKey(j, now) \in DispatchKeys /\ TickKey(j, t) \in DispatchKeys /\ Upto(TickKey(j, now), TickKey(j, t))
      BY <1>0, <1>2, <3>1, TickKeyGrows
    <3>3. Upto(k, TickKey(j, now))
      BY <1>0, <1>2, <1>3 DEF OnceInv
    <3> QED BY <3>2, <3>3, UptoOrder
  <2> QED BY <1>1, <2>1, <2>2
<1>4. CASE (Tick \/ ResumeTick) /\ Call(j, k) \in queue'
  <2>1. PICK u \in Ahead(j) : u \in 0..MaxTime /\ k = TickKey(j, u) /\ \A v \in Ahead(j) : u <= v
    BY <1>0, <1>4, TickAsksOnce
  <2>2. now' = now
    BY <1>4 DEF Tick, ResumeTick, worldVars
  <2>3. t \in Ahead(j)
    BY <1>0, <1>1, <1>2, <2>2 DEF AdvanceTime
  <2> QED BY <1>0, <1>2, <2>1, <2>3, TickKeyGrows
<1> QED BY <1>0, <1>3, <1>4, MetStep

LEMMA OnceDispatched ==
  ASSUME OnceType, [Next]_vars, NEW j \in Once, NEW k \in DispatchKeys, Call(j, k) \in ran',
         NEW t \in Ahead(j)', TickKey(j, t) = k
  PROVE  dispatched'[j] = k
<1>0. /\ Inv /\ Plain /\ Timely /\ OnceInv /\ j \in Jobs \ {Comparison} /\ SchedulerType
      /\ MaxTime \in Nat
  BY TypeParts, SchedulerAssumption DEF OnceType, Once, Inv
<1>a. Call(j, k).job = j /\ Call(j, k).key = k
  BY DEF Call
<1>1. CASE Call(j, k) \in queue /\ Dispatch(Call(j, k))
  BY <1>0, <1>a, <1>1 DEF Dispatch, SchedulerType
<1>2. CASE Call(j, k) \in ran
  <2>1. now \in Ahead(j) /\ now \in 0..MaxTime
    BY <1>0 DEF Ahead, SchedulerType
  <2>2. \E u \in Ahead(j) : TickKey(j, u) = k
    <3>1. CASE t \in Ahead(j)
      BY <3>1
    <3>2. CASE AdvanceTime /\ t = now + 1
      <4>1. t \in 0..MaxTime /\ now <= t
        BY <1>0, <2>1, <3>2 DEF AdvanceTime
      <4>2. TickKey(j, now) \in DispatchKeys /\ Upto(TickKey(j, now), TickKey(j, t))
        BY <1>0, <2>1, <4>1, TickKeyGrows
      <4>3. Upto(k, TickKey(j, now))
        BY <1>0, <1>2, <2>1 DEF OnceInv
      <4>4. TickKey(j, now) = k
        BY <4>2, <4>3, UptoOrder
      <4> QED BY <2>1, <4>4
    <3> QED BY <1>0, <3>1, <3>2, AheadStep
  <2>3. dispatched[j] = k
    BY <1>0, <1>2, <2>2 DEF OnceInv
  <2>4. j \notin busy
    <3>1. ~Asks(j, k)
      BY <1>0, <1>2 DEF OnceInv
    <3> QED BY <1>0, <2>3, <3>1 DEF Asks
  <2>5. ASSUME NEW c \in queue, Dispatch(c) PROVE dispatched'[j] = k
    <3>1. c \in AllCalls
      BY <1>0 DEF SchedulerType
    <3>2. dispatched' = dispatched \/ dispatched' = [dispatched EXCEPT ![c.job] = c.key]
      BY <2>5 DEF Dispatch
    <3>3. CASE c.job = j
      <4>1. PICK l \in DispatchKeys : c = Call(j, l) /\ c.key = l
        BY <3>1, <3>3 DEF AllCalls, Call
      <4>2. Asks(j, l)
        BY <1>0, <4>1 DEF Asks
      <4>3. Upto(k, l)
        BY <1>0, <1>2, <4>1 DEF OnceInv
      <4>4. PICK u \in Ahead(j) : TickKey(j, u) = k
        BY <2>2
      <4>5. Upto(l, k)
        BY <1>0, <4>2, <4>4 DEF OnceInv
      <4>6. l = k
        BY <4>3, <4>5, UptoOrder
      <4> QED BY <1>0, <2>3, <3>2, <3>3, <4>1, <4>6 DEF SchedulerType
    <3>4. CASE c.job # j
      BY <1>0, <2>3, <3>2, <3>4 DEF SchedulerType
    <3> QED BY <3>3, <3>4
  <2>6. ASSUME NEW i \in Jobs, SettleBusy(i) PROVE dispatched'[j] = k
    <3>1. i \in busy /\ dispatched' \in {dispatched, [dispatched EXCEPT ![i] = None]}
      BY <2>6 DEF SettleBusy
    <3> QED BY <1>0, <2>3, <2>4, <3>1 DEF SchedulerType
  <2>7. CASE Start \/ ExitServer \/ CrashServer
    BY <2>7 DEF Start, ExitServer, CrashServer, Gone
  <2>8. CASE \/ Tick \/ ResumeTick \/ SettleBusyComparison \/ ComparisonRetryFires \/ Stop \/ AdvanceTime
             \/ UNCHANGED vars \/ (\E i \in Jobs : RetryFires(i))
             \/ (\E i \in Ids : ChildCloses(i) \/ HardFinish(i) \/ RunSteps(i))
    <3>1. dispatched' = dispatched
      BY <2>8 DEF Tick, ResumeTick, SettleBusyComparison, ComparisonRetryFires, Stop, AdvanceTime, RetryFires,
                  ChildCloses, HardFinish, Finish, RunSteps, jobVars, vars
    <3> QED BY <2>3, <3>1
  <2> QED BY <2>5, <2>6, <2>7, <2>8 DEF Next, DispatchNext
<1> QED BY <1>1, <1>2, RanStep

LEMMA OnceQueued ==
  ASSUME OnceType, [Next]_vars, NEW j \in Once, NEW k \in DispatchKeys, NEW l \in DispatchKeys,
         Call(j, k) \in queue', Call(j, l) \in ran'
  PROVE  Upto(l, k)
<1>0. Inv /\ Plain /\ Timely /\ OnceInv /\ j \in Jobs \ {Comparison} /\ SchedulerType
  BY TypeParts DEF OnceType, Once, Inv
<1>a. Call(j, k).job = j /\ Call(j, k).key = k /\ Call(j, l).job = j
  BY DEF Call
<1>1. CASE Call(j, l) \in queue /\ Dispatch(Call(j, l))
  <2>1. queue' = queue \ {Call(j, l)}
    BY <1>1 DEF Dispatch
  <2> QED BY <1>0, <1>a, <1>1, <2>1 DEF Plain
<1>2. CASE Call(j, l) \in ran
  <2>1. CASE Call(j, k) \in queue
    BY <1>0, <1>2, <2>1 DEF OnceInv
  <2>2. CASE Tick \/ ResumeTick
    <3>1. PICK t \in Ahead(j) : k = TickKey(j, t)
      BY <1>0, <2>2, TickAsksOnce
    <3> QED BY <1>0, <1>2, <3>1 DEF OnceInv
  <2>3. CASE retryTimers[j] = k /\ WithinWindow(j, k)
    <3>1. Asks(j, k) /\ Retried(j)
      BY <1>0, <2>3, KeysAssumption DEF Asks, Plain
    <3>2. Made(j, k) /\ Made(j, l)
      <4>1. Made(Call(j, l).job, Call(j, l).key)
        BY <1>0, <1>2 DEF Timely
      <4> QED BY <1>0, <3>1, <4>1 DEF Timely, Call
    <3>3. PICK p : DueAt[j] \subseteq {p}
      BY <1>0, <3>1, TimetableAssumption
    <3>4. j \notin {Integrity, Outcomes, Eod}
      BY <3>1, TimetableAssumption DEF Once
    <3>5. k[2] = KeyPoint(j, p) /\ l[2] = KeyPoint(j, p) /\ Reached(l[1], p)
      BY <3>2, <3>3, <3>4 DEF Made
    <3>6. l[1] \in Nat /\ l[2] \in Nat /\ Day(now) \in Nat /\ k[1] = Day(now)
      BY <1>0, <2>3, DayType, SchedulerAssumption DEF SchedulerType, Days, DispatchKeys, WithinWindow
    <3> QED BY <3>5, <3>6 DEF Upto, Reached
  <2> QED BY <1>0, <2>1, <2>2, <2>3, QueueStep
<1> QED BY <1>1, <1>2, RanStep

LEMMA OnceStep == ASSUME OnceType, [Next]_vars PROVE OnceInv'
<1>1. \A j \in Once, k \in DispatchKeys :
         Asks(j, k)' => Call(j, k) \notin ran' /\ (Call(j, k) \in queue' => retryTimers'[j] # k)
  BY OnceAsked
<1>2. \A j \in Once, k \in DispatchKeys :
         Asks(j, k)' \/ Call(j, k) \in ran' => \A t \in Ahead(j)' : Upto(k, TickKey(j, t))
  BY OnceAhead
<1>3. \A j \in Once, k \in DispatchKeys :
         Call(j, k) \in ran' => \A t \in Ahead(j)' : TickKey(j, t) = k => dispatched'[j] = k
  BY OnceDispatched
<1>4. \A j \in Once, k, l \in DispatchKeys :
         Call(j, k) \in queue' /\ Call(j, l) \in ran' => Upto(l, k)
  BY OnceQueued
<1> QED BY <1>1, <1>2, <1>3, <1>4 DEF OnceInv

LEMMA OnceInit == Init => OnceInv
<1> SUFFICES ASSUME Init PROVE OnceInv
  OBVIOUS
<1>1. \A j \in Jobs, k \in DispatchKeys : ~Asks(j, k)
  BY KeysAssumption DEF Init, Asks
<1> QED BY <1>1 DEF Init, OnceInv, Once
\* Only a dispatch starts a run.
LEMMA NewRun ==
  ASSUME Inv, [Next]_vars, NEW i \in Ids, ~Exists(i), Exists(i)'
  PROVE  \E c \in queue : Dispatch(c) /\ run'[i].job = c.job /\ run'[i].key = c.key
<1>0. run \in [Ids -> RunRecord]
  BY DEF Inv, RunnerInv, RunnerType
<1>1. CASE UNCHANGED run
  BY <1>1 DEF Exists
<1>2. ASSUME NEW c \in queue, Dispatch(c)
      PROVE  Dispatch(c) /\ run'[i].job = c.job /\ run'[i].key = c.key
  <2>1. CASE UNCHANGED runnerVars
    BY <2>1 DEF runnerVars, Exists
  <2>2. CASE RunChild(c.job, c.key, IF running THEN "served" ELSE "late")
    <3> DEFINE r0 == [job |-> c.job, key |-> c.key, timer |-> "timeout", signal |-> "none",
                      era |-> IF running THEN "served" ELSE "late"]
    <3>1. PICK o \in Free : run' = [run EXCEPT ![o] = r0]
      BY <2>2 DEF RunChild
    <3>2. r0.job = c.job /\ r0.key = c.key
      OBVIOUS
    <3> HIDE DEF r0
    <3>3. i = o
      BY <1>0, <3>1 DEF Exists
    <3> QED BY <1>0, <1>2, <3>1, <3>2, <3>3
  <2> QED BY <1>2, <2>1, <2>2 DEF Dispatch
<1>3. CASE ExitServer \/ CrashServer
  <2>1. PICK survivors \in SUBSET {o \in Ids : Exists(o)} :
          run' = [o \in Ids |-> IF o \in survivors THEN Orphan(run[o]) ELSE NoRun]
    BY <1>3 DEF ExitServer, CrashServer, Gone, ServerGone
  <2>2. i \notin survivors
    BY <2>1
  <2> QED BY <2>1, <2>2, NoRunType DEF Exists
<1>4. CASE Stop
  <2>1. run'[i] = run[i]
    BY <1>4 DEF Stop, StopChildren
  <2> QED BY <2>1 DEF Exists
<1>5. ASSUME NEW o \in Ids, ChildCloses(o) \/ HardFinish(o) PROVE FALSE
  <2>1. PICK survives \in BOOLEAN : Settle(o, survives)
    BY <1>5 DEF ChildCloses, HardFinish, Finish
  <2>2. Exists(o)
    BY <1>5 DEF ChildCloses, HardFinish, CanClose, CanHardFinish, Pending, Exists
  <2> QED BY <1>0, <2>1, <2>2 DEF Settle, Exists
<1>6. ASSUME NEW o \in Ids, RunSteps(o) PROVE FALSE
  <2>1. Exists(o)
    BY <1>6 DEF RunSteps, StrayExits, Strays, Timeout, Escalate, StopEscalates, Pending, Exists
  <2>2. i # o
    BY <2>1
  <2> QED BY <1>0, <1>6, <2>2 DEF RunSteps, StrayExits, Timeout, Escalate, StopEscalates, Exists
<1>7. CASE \/ Start \/ Tick \/ ResumeTick \/ SettleBusyComparison \/ ComparisonRetryFires \/ AdvanceTime
           \/ UNCHANGED vars \/ \E j \in Jobs : SettleBusy(j) \/ RetryFires(j)
  BY <1>1, <1>7 DEF Start, Tick, ResumeTick, SettleBusyComparison, ComparisonRetryFires, AdvanceTime, SettleBusy, RetryFires, runnerVars, vars
<1> QED BY <1>2, <1>3, <1>4, <1>5, <1>6, <1>7 DEF Next, DispatchNext

LEMMA OnceStarted ==
  ASSUME Inv, OnceInv, [Next]_vars, NEW i \in Ids, ~Exists(i), Exists(i)', run'[i].job \notin {Outcomes, Eod, Comparison}
  PROVE  Call(run'[i].job, run'[i].key) \notin ran
<1>1. PICK c \in queue : run'[i].job = c.job /\ run'[i].key = c.key
  BY NewRun
<1>2. c \in AllCalls
  BY TypeParts DEF Inv, SchedulerType
<1>3. PICK j \in Once, k \in DispatchKeys : c = Call(j, k) /\ c.job = j /\ c.key = k
  BY <1>1, <1>2 DEF AllCalls, Call, Once
<1>4. Asks(j, k)
  BY <1>3 DEF Asks, Once
<1> QED BY <1>1, <1>3, <1>4 DEF OnceInv

-----------------------------------------------------------------------------
(* The integrity job of the day comes first.                               *)

ReadyInv ==
    /\ ready # None => ready <= Day(now)
    /\ \A i \in Ids : Pending(i) /\ run[i].job = Integrity
         => run[i].key[1] <= Day(now) /\ (ready # None => ready <= run[i].key[1])
    /\ \A k \in DispatchKeys : ready # None /\ Asks(Integrity, k) => ready <= k[1]
    /\ \A j \in Jobs \ {Integrity}, k \in DispatchKeys :
         Asks(j, k) /\ GateFrom <= k[2] => ready # None /\ k[1] <= ready
    /\ \A j \in Jobs \ {Integrity, Comparison}, k \in DispatchKeys :
         Call(j, k) \in queue /\ GateFrom <= k[2] => ready = k[1]

\* The result of an integrity job is of no earlier day than the last one.
ReadyBy(i) ==
    /\ Idle /\ Pending(i) /\ run[i].job = Integrity /\ ready' = run[i].key[1]
    /\ UNCHANGED <<now, busy, retryTimers>> /\ queue' = {} /\ ~Pending(i)'
    /\ \A o \in Ids \ {i} : run'[o] = run[o]

LEMMA ReadyStep ==
  ASSUME Inv, [Next]_vars
  PROVE  \/ ready' = ready
         \/ /\ ready' = None /\ queue' \subseteq {ComparisonCall} /\ busy' = {}
            /\ \A j \in Jobs : retryTimers'[j] = None
         \/ \E i \in Ids : ReadyBy(i)
<1>0. run \in [Ids -> RunRecord] /\ SchedulerType
  BY TypeParts DEF Inv, RunnerInv, RunnerType
<1>1. CASE Start \/ ExitServer \/ CrashServer \/ Stop
  BY <1>1 DEF Start, ExitServer, CrashServer, Gone, Stop, Idle
<1>2. ASSUME NEW i \in Ids, ChildCloses(i) \/ HardFinish(i) PROVE ready' = ready \/ ReadyBy(i)
  <2>1. PICK succeeded \in BOOLEAN, survives \in BOOLEAN : Finish(i, succeeded, survives)
    BY <1>2 DEF ChildCloses, HardFinish, Succeeded
  <2>2. CASE ready' # ready
    <3>1. run[i].job = Integrity /\ ready' = run[i].key[1] /\ Settle(i, survives)
      BY <2>1, <2>2 DEF Finish
    <3>2. Idle /\ Pending(i)
      BY <1>2 DEF ChildCloses, HardFinish, CanClose, CanHardFinish, Pending
    <3>3. UNCHANGED <<now, busy, retryTimers>> /\ queue' = queue
      BY <2>1, <3>1, SchedulerAssumption DEF Finish
    <3>4. queue = {}
      BY <3>2 DEF Idle
    <3>5. /\ \A o \in Ids \ {i} : run'[o] = run[o]
          /\ run'[i].timer \in {"off", "free"}
      BY <1>0, <3>1, NoRunType DEF Settle, RunRecord
    <3> QED BY <3>1, <3>2, <3>3, <3>4, <3>5 DEF ReadyBy, Pending
  <2> QED BY <2>2
<1>3. CASE \/ DispatchNext \/ Tick \/ ResumeTick \/ SettleBusyComparison \/ ComparisonRetryFires \/ AdvanceTime
           \/ UNCHANGED vars \/ (\E j \in Jobs : SettleBusy(j) \/ RetryFires(j)) \/ (\E i \in Ids : RunSteps(i))
  BY <1>3 DEF DispatchNext, Dispatch, Tick, ResumeTick, SettleBusyComparison, ComparisonRetryFires, AdvanceTime,
              SettleBusy, RetryFires, RunSteps, gateVars, vars
<1> QED BY <1>1, <1>2, <1>3 DEF Next

LEMMA DayGrows == ASSUME Inv, [Next]_vars PROVE Day(now) <= Day(now)' /\ Day(now) \in Nat /\ Day(now)' \in Nat
<1>0. now \in 0..MaxTime /\ now \in Nat
  BY TypeParts, SchedulerAssumption DEF Inv, SchedulerType
<1>a. now' = now \/ now' = now + 1
  BY DEF Next, Start, DispatchNext, Dispatch, Tick, ResumeTick, SettleBusyComparison, ComparisonRetryFires, Stop,
         ExitServer, CrashServer, Gone, AdvanceTime, SettleBusy, RetryFires, ChildCloses, HardFinish, Finish, RunSteps, worldVars, vars
<1>1. now' \in Nat /\ now <= now'
  BY <1>0, <1>a
<1>2. PICK n \in Nat : n = now' /\ now <= n
  BY <1>1
<1>3. Day(now) <= Day(n) /\ Day(now) \in Nat /\ Day(n) \in Nat
  <2>1. Day(now) < Day(n) \/ (Day(now) = Day(n) /\ Point(now) <= Point(n))
    BY <1>0, <1>2, Instants
  <2>2. Day(now) \in Nat /\ Day(n) \in Nat
    BY <1>0, <1>2, Divide, SchedulerAssumption DEF Day
  <2> QED BY <2>1, <2>2
<1>4. Day(now)' = Day(n)
  BY <1>2 DEF Day
<1> QED BY <1>3, <1>4

\* What a tick asks for from 06:50 on is asked on a day that is ready.
LEMMA TickReady ==
  ASSUME Inv, Timely, Tick \/ ResumeTick, NEW j \in Jobs \ {Integrity, Comparison}, NEW k \in DispatchKeys,
         Call(j, k) \in queue', GateFrom <= k[2]
  PROVE  ready = k[1]
<1>a. Call(j, k).job = j /\ Call(j, k).key = k
  BY DEF Call
<1>1. PICK t \in 0..MaxTime :
           /\ DueCall(Call(j, k), t) \/ EodCall(Call(j, k), t) \/ OutcomesCall(Call(j, k), t)
           /\ Point(t) < GateFrom \/ IntegrityPassed(t)
  BY <1>a, TickAsks DEF Call
<1>2. Point(t) \in Nat /\ {GateFrom, CloseFrom, EodFrom} \subseteq Nat
  BY DayType, SchedulerAssumption
<1>3. k[1] = Day(t) /\ ~(Point(t) < GateFrom)
  <2>1. CASE DueCall(Call(j, k), t)
    <3>1. k = <<Day(t), KeyPoint(j, Point(t))>> /\ Point(t) \in DueAt[j]
      BY <1>a, <2>1, KeyParts DEF DueCall, Call
    <3>2. KeyPoint(j, Point(t)) <= Point(t) /\ KeyPoint(j, Point(t)) \in Nat
      BY <1>2, <3>1, TimetableAssumption, SchedulerAssumption DEF KeyPoint
    <3> QED BY <1>2, <3>1, <3>2
  <2>2. CASE EodCall(Call(j, k), t)
    BY <1>2, <1>a, <2>2, SchedulerAssumption DEF EodCall, Call, AfterCloseKey
  <2>3. CASE OutcomesCall(Call(j, k), t)
    BY <1>2, <1>a, <2>3, SchedulerAssumption DEF OutcomesCall, Call, AfterCloseKey
  <2> QED BY <1>1, <2>1, <2>2, <2>3
<1> QED BY <1>1, <1>3 DEF IntegrityPassed

LEMMA ReadyKeeps == ASSUME Inv, Plain, Timely, ReadyInv, [Next]_vars PROVE ReadyInv'
<1>a. SchedulerType /\ run \in [Ids -> RunRecord] /\ Inv'
  BY NextInv, TypeParts DEF Inv, RunnerInv, RunnerType
<1>b. SchedulerType'
  BY <1>a DEF Inv, TypeOK, SchedulerType, MaybeDays, AllCalls
<1>c. \A k \in DispatchKeys : k[1] \in Nat
  BY DEF DispatchKeys, Days
<1>0. SchedulerType /\ SchedulerType' /\ run \in [Ids -> RunRecord] /\ \A k \in DispatchKeys : k[1] \in Nat
  BY <1>a, <1>b, <1>c
<1>d. Day(now) <= Day(now)' /\ Day(now) \in Nat /\ Day(now)' \in Nat
  BY DayGrows
<1>r. (ready # None => ready \in Nat) /\ (ready' # None => ready' \in Nat)
  BY <1>0, SchedulerAssumption DEF SchedulerType, MaybeDays, Days, Day
<1>k. \A i \in Ids : run[i].key \in DispatchKeys
  BY <1>0, KeysAssumption DEF RunRecord
<1>1. ready' # None => ready' <= Day(now)'
  <2>1. ASSUME NEW i \in Ids, ReadyBy(i) PROVE ready' <= Day(now)
    BY <2>1 DEF ReadyInv, ReadyBy
  <2> QED BY <1>d, <1>r, <2>1, ReadyStep DEF ReadyInv
<1>2. ASSUME NEW i \in Ids, Pending(i)', run'[i].job = Integrity
      PROVE  run'[i].key[1] <= Day(now)' /\ (ready' # None => ready' <= run'[i].key[1])
  <2>1. CASE Pending(i) /\ run'[i].job = run[i].job /\ run'[i].key = run[i].key
    <3>1. run[i].key[1] <= Day(now) /\ (ready # None => ready <= run[i].key[1]) /\ run[i].key[1] \in Nat
      BY <1>0, <1>2, <1>k, <2>1 DEF ReadyInv
    <3>2. ASSUME NEW o \in Ids, ReadyBy(o) PROVE FALSE
      <4>1. i # o /\ Pending(o) /\ run[o].job = Integrity
        BY <1>2, <3>2 DEF ReadyBy
      <4>2. slot[SlotOf[Integrity]] = i /\ slot[SlotOf[Integrity]] = o
        BY <1>2, <2>1, <4>1 DEF Inv, RunnerInv, SlotsHeldByPending
      <4> QED BY <4>1, <4>2
    <3> QED BY <1>d, <1>r, <2>1, <3>1, <3>2, ReadyStep
  <2>2. ASSUME NEW c \in queue, Dispatch(c), run'[i].job = c.job, run'[i].key = c.key
        PROVE  run'[i].key[1] <= Day(now)' /\ (ready' # None => ready' <= run'[i].key[1])
    <3>1. c \in AllCalls
      BY <1>0 DEF SchedulerType
    <3>2. PICK k \in DispatchKeys : c = Call(Integrity, k) /\ c.key = k
      BY <1>2, <2>2, <3>1 DEF AllCalls, Call
    <3>3. Asks(Integrity, k)
      BY <3>2, SchedulerAssumption DEF Asks
    <3>4. Made(Integrity, k)
      BY <3>3, SchedulerAssumption DEF Timely
    <3>5. Reached(k[1], GateFrom)
      BY <3>4, TimetableAssumption, SchedulerAssumption DEF Made
    <3>6. ready' = ready
      BY <2>2 DEF Dispatch, gateVars
    <3>7. ready # None => ready <= k[1]
      BY <3>3 DEF ReadyInv
    <3>8. k[1] <= Day(now) /\ k[1] \in Nat
      BY <1>0, <1>d, <3>5 DEF Reached
    <3> QED BY <1>d, <2>2, <3>2, <3>6, <3>7, <3>8
  <2> QED BY <1>2, <2>1, <2>2, RunsStep
<1>3. ASSUME NEW k \in DispatchKeys, ready' # None, Asks(Integrity, k)' PROVE ready' <= k[1]
  <2>0. Integrity \in Jobs \ {Comparison} /\ retryTimers[Integrity] = None /\ k # None
    BY TimetableAssumption, SchedulerAssumption, KeysAssumption DEF Plain
  <2>1. ready' = ready
    <3>1. ASSUME NEW i \in Ids, ReadyBy(i) PROVE FALSE
      <4>1. queue' = {} /\ busy' = {} /\ retryTimers' = retryTimers
        BY <3>1 DEF ReadyBy, Idle
      <4> QED BY <1>3, <2>0, <4>1 DEF Asks
    <3> QED BY <1>3, <3>1, ReadyStep
  <2>2. CASE Asks(Integrity, k)
    BY <1>3, <2>1, <2>2 DEF ReadyInv
  <2>3. CASE (Tick \/ ResumeTick) /\ Call(Integrity, k) \in queue'
    <3>1. Call(Integrity, k) = Call(Integrity, IntegrityKey(now))
      <4>1. Call(Integrity, k).job = Integrity
        BY DEF Call
      <4>2. \A t \in 0..MaxTime : ~DueCall(Call(Integrity, k), t) /\ ~EodCall(Call(Integrity, k), t) /\ ~OutcomesCall(Call(Integrity, k), t)
        BY <4>1, SchedulerAssumption DEF DueCall, EodCall, OutcomesCall, Call
      <4> QED BY <2>3, <4>2, TickAsks
    <3>2. k[1] = Day(now)
      BY <3>1 DEF Call, IntegrityKey
    <3> QED BY <1>3, <2>1, <3>2 DEF ReadyInv
  <2> QED BY <1>3, <2>0, <2>2, <2>3, AsksStep
<1>4. ASSUME NEW j \in Jobs \ {Integrity, Comparison}, NEW k \in DispatchKeys, Call(j, k) \in queue', GateFrom <= k[2]
      PROVE  ready' = k[1]
  <2>1. ready' = ready
    <3>1. \A i \in Ids : ~ReadyBy(i)
      BY <1>4 DEF ReadyBy
    <3>2. ~(queue' \subseteq {ComparisonCall})
      BY <1>4 DEF ComparisonCall, Call
    <3> QED BY <3>1, <3>2, ReadyStep
  <2>2. CASE Call(j, k) \in queue
    BY <1>4, <2>1, <2>2 DEF ReadyInv
  <2>3. CASE retryTimers[j] = k /\ WithinWindow(j, k)
    <3>1. Asks(j, k) /\ k[1] = Day(now)
      BY <2>3 DEF Asks, WithinWindow
    <3>2. ready # None /\ k[1] <= ready
      BY <1>4, <3>1 DEF ReadyInv
    <3> QED BY <1>d, <1>r, <2>1, <3>1, <3>2 DEF ReadyInv
  <2>4. CASE Tick \/ ResumeTick
    BY <1>4, <2>1, <2>4, TickReady
  <2> QED BY <1>4, <2>2, <2>3, <2>4, QueueStep
<1>5. ASSUME NEW j \in Jobs \ {Integrity}, NEW k \in DispatchKeys, Asks(j, k)', GateFrom <= k[2]
      PROVE  ready' # None /\ k[1] <= ready'
  <2>0. j # Comparison /\ k # None /\ k[1] \in Nat
    BY <1>0, <1>5, KeysAssumption DEF Asks
  <2>1. CASE Asks(j, k)
    <3>1. ready # None /\ k[1] <= ready
      BY <1>5, <2>1 DEF ReadyInv
    <3>2. CASE ready' = ready
      BY <3>1, <3>2
    <3>3. CASE queue' \subseteq {ComparisonCall} /\ busy' = {} /\ \A i \in Jobs : retryTimers'[i] = None
      <4>1. Call(j, k) # ComparisonCall
        BY <2>0 DEF ComparisonCall, Call
      <4> QED BY <1>5, <2>0, <3>3, <4>1 DEF Asks
    <3>4. ASSUME NEW i \in Ids, ReadyBy(i) PROVE ready' # None /\ k[1] <= ready'
      <4>1. ready' = run[i].key[1] /\ ready <= run[i].key[1] /\ run[i].key[1] \in Nat
        BY <1>0, <1>k, <3>1, <3>4 DEF ReadyBy, ReadyInv
      <4> QED BY <1>r, <2>0, <3>1, <4>1, SchedulerAssumption
    <3> QED BY <3>2, <3>3, <3>4, ReadyStep
  <2>2. CASE Call(j, k) \in queue'
    <3>1. ready' = k[1]
      BY <1>4, <1>5, <2>0, <2>2
    <3> QED BY <2>0, <3>1, SchedulerAssumption
  <2> QED BY <1>5, <2>0, <2>1, <2>2, AsksStep
<1>6. \A i \in Ids : Pending(i)' /\ run'[i].job = Integrity
        => run'[i].key[1] <= Day(now)' /\ (ready' # None => ready' <= run'[i].key[1])
  BY <1>2
<1> QED BY <1>1, <1>3, <1>4, <1>5, <1>6 DEF ReadyInv

LEMMA ReadyFirst ==
  ASSUME Inv, ReadyInv, [Next]_vars, NEW c \in ran', Starts(c), c.job \notin {Integrity, Comparison}, GateFrom <= c.key[2]
  PROVE  ready = c.key[1]
<1>1. c \in queue
  BY RanStep DEF Starts
<1>2. c \in AllCalls
  BY <1>1, TypeParts DEF Inv, SchedulerType
<1>3. PICK j \in Jobs \ {Integrity, Comparison}, k \in DispatchKeys : c = Call(j, k) /\ c.key = k
  BY <1>2 DEF AllCalls, Call
<1> QED BY <1>1, <1>3 DEF ReadyInv

LEMMA ReadyInit == Init => ReadyInv
<1> SUFFICES ASSUME Init PROVE ReadyInv
  OBVIOUS
<1>1. \A i \in Ids : ~Pending(i)
  BY NoRunType DEF Init, RunnerInit, Pending
<1>2. \A j \in Jobs, k \in DispatchKeys : ~Asks(j, k)
  BY KeysAssumption DEF Init, Asks
<1> QED BY <1>1, <1>2 DEF Init, ReadyInv

-----------------------------------------------------------------------------

KeysInv == Inv /\ Plain /\ Down /\ Timely /\ OnceInv /\ ReadyInv

LEMMA KeysAlways == Spec => []KeysInv
<1>1. Init => KeysInv
  BY InitInv, KeysInit, OnceInit, ReadyInit DEF KeysInv
<1>2. KeysInv /\ [Next]_vars => KeysInv'
  BY NextInv, PlainStep, DownStep, TimelyStep, OnceStep, ReadyKeeps DEF KeysInv, OnceType
<1> QED BY <1>1, <1>2, PTL DEF Spec

\* What a tick, a retry timer or a follow-up starts is started once in a server, and
\* from 06:50 on not before the integrity job of its day has succeeded there: for any
\* timetable, any queue of reactions and any number of days (tick, dispatch).
THEOREM StartsFollowTheRules == Spec => StartRules
<1> DEFINE Once1 == \A i \in Ids : ~Exists(i) /\ Exists(i)' /\ run'[i].job \notin {Outcomes, Eod, Comparison}
                      => Call(run'[i].job, run'[i].key) \notin ran
           First == \A c \in ran' : /\ Starts(c) /\ c.job \notin {Integrity, Comparison}
                                    /\ c.key[2] >= GateFrom
                                    => ready = c.key[1]
<1>1. KeysInv /\ [Next]_vars => [Once1]_vars
  BY OnceStarted DEF KeysInv
<1>2. KeysInv /\ [Next]_vars => [First]_vars
  <2> SUFFICES ASSUME KeysInv, [Next]_vars,
                      NEW c \in ran', Starts(c), c.job \notin {Integrity, Comparison}, c.key[2] >= GateFrom
               PROVE  ready = c.key[1]
    OBVIOUS
  <2>1. c \in queue /\ c \in AllCalls
    BY RanStep, TypeParts DEF Starts, KeysInv, Inv, SchedulerType
  <2>2. c.key[2] \in Nat /\ GateFrom \in Nat
    BY <2>1, SchedulerAssumption DEF AllCalls, DispatchKeys
  <2>3. GateFrom <= c.key[2]
    BY <2>2
  <2> QED BY <2>3, ReadyFirst DEF KeysInv
<1>3. Spec => [][Once1]_vars
  BY <1>1, KeysAlways, PTL DEF Spec
<1>4. Spec => [][First]_vars
  BY <1>2, KeysAlways, PTL DEF Spec
<1> QED BY <1>3, <1>4 DEF StartRules, StartedOncePerKey, NothingBeforeIntegrity
-----------------------------------------------------------------------------
(* What is owed will be started.                                           *)

Sent(j, k) == Call(j, k) \in queue \/ (j \in busy /\ dispatched[j] = k)

\* A key of today that was asked of a job whose timer is armed: the timer is for
\* the same follow-up after the close.
Rival ==
    \A j \in Jobs \ {Comparison}, k \in DispatchKeys :
        retryTimers[j] # None /\ k[1] = Day(now) /\ Sent(j, k)
        => retryTimers[j][1] = Day(now) /\ retryTimers[j][2] = AfterClose

\* What may be owed: the comparison, the team-eod of a day handed off, or a key of
\* a job with a retry timer.
OweType(o) ==
    \/ o.job = Comparison
    \/ o.job = Eod /\ o.key[1] \in handoff /\ Reached(o.key[1], 1)
    \/ Retried(o.job) /\ Reached(o.key[1], 1) /\ (o.key[2] # AfterClose => Made(o.job, o.key))

\* The owed key is still asked, or the follow-up after the close that replaces it.
StillAsked(o) ==
    \/ \E k \in DispatchKeys : Asks(o.job, k) /\ k[1] = o.key[1] /\ (k = o.key \/ k[2] = AfterClose)
    \/ o.job = Outcomes /\ o.key[2] = AfterClose /\ outcomesAfter = Day(now)

Covered(o) ==
    IF o.job = Comparison THEN WillStart(o)
    ELSE o.key[1] = Day(now) =>
           IF o.job = Eod THEN WillStart(o)
           ELSE (o.key[2] # AfterClose /\ Point(now) \notin RetryWindow[o.job]) \/ StillAsked(o)

OwedInv ==
    /\ Rival
    /\ \A o \in owed : OweType(o)
    /\ running => \A o \in owed : Covered(o)

\* A key of a job with a retry timer: the instant of the day at which it is due, or
\* the follow-up after the close.
LEMMA RetriedMade ==
  ASSUME NEW j \in Jobs, Retried(j), NEW k \in DispatchKeys, Made(j, k),
         NEW p \in 1..(DayLength - 1), DueAt[j] \subseteq {p}
  PROVE  \/ k[2] = KeyPoint(j, p) /\ KeyPoint(j, p) \in 0..(DayLength - 1) /\ Reached(k[1], p)
         \/ j = Outcomes /\ k[2] = AfterClose /\ Reached(k[1], CloseFrom)
<1>1. j # Integrity /\ j # Eod
  BY TimetableAssumption
<1>2. KeyPoint(j, p) \in 0..(DayLength - 1)
  BY SchedulerAssumption DEF KeyPoint
<1> QED BY <1>1, <1>2 DEF Made

LEMMA ReachedFirst ==
  ASSUME Inv, NEW d \in Days, NEW p \in Nat \ {0}, Reached(d, p)
  PROVE  Reached(d, 1) /\ (d = Day(now) => p <= Point(now)) /\ d <= Day(now)
<1>1. Day(now) \in Nat /\ Point(now) \in Nat /\ d \in Nat
  BY DayType, TypeParts, SchedulerAssumption DEF Inv, SchedulerType, Days
<1> QED BY <1>1 DEF Reached

LEMMA RetriedReached ==
  ASSUME Inv, NEW j \in Jobs, Retried(j), NEW k \in DispatchKeys, Made(j, k)
  PROVE  Reached(k[1], 1)
<1>1. PICK p \in 1..(DayLength - 1) : DueAt[j] \subseteq {p}
  BY TimetableAssumption
<1>2. k[1] \in Days /\ p \in Nat \ {0} /\ CloseFrom \in Nat \ {0}
  BY SchedulerAssumption DEF DispatchKeys
<1>3. Reached(k[1], p) \/ Reached(k[1], CloseFrom)
  BY <1>1, RetriedMade
<1> QED BY <1>2, <1>3, ReachedFirst

\* One step of what was sent.
LEMMA SentStep ==
  ASSUME Inv, Plain, Down, [Next]_vars, NEW j \in Jobs \ {Comparison}, NEW k \in DispatchKeys, Sent(j, k)', retryTimers'[j] # None
  PROVE  \/ Sent(j, k) /\ retryTimers'[j] = retryTimers[j] /\ now' = now
         \/ (Tick \/ ResumeTick) /\ Call(j, k) \in queue' /\ retryTimers' = retryTimers /\ now' = now
<1>0. SchedulerType /\ k # None
  BY TypeParts, KeysAssumption DEF Inv
<1>a. Call(j, k).job = j /\ Call(j, k).key = k /\ Call(j, k) # ComparisonCall
  BY DEF Call, ComparisonCall
<1>1. CASE Start \/ ExitServer \/ CrashServer \/ Stop
  BY <1>1 DEF Start, ExitServer, CrashServer, Gone, Stop
<1>2. ASSUME NEW c \in queue, Dispatch(c) PROVE Sent(j, k) /\ retryTimers'[j] = retryTimers[j] /\ now' = now
  <2>1. /\ queue' = queue \ {c} /\ busy' \subseteq busy \cup {c.job} /\ UNCHANGED <<retryTimers, now>>
        /\ c.job # Comparison => dispatched' = [dispatched EXCEPT ![c.job] = c.key]
        /\ c.job = Comparison => dispatched' = dispatched
    BY <1>2 DEF Dispatch, worldVars
  <2>3. c \in AllCalls /\ dispatched \in [Jobs -> DispatchKeys \cup {None}]
    BY <1>0 DEF SchedulerType
  <2>4. c = Call(c.job, c.key) /\ c.job \in Jobs
    BY <2>3 DEF AllCalls, Call
  <2>5. CASE c.job = j
    BY <2>1, <2>3, <2>4, <2>5 DEF Sent
  <2>6. CASE c.job # j
    BY <2>1, <2>3, <2>4, <2>6 DEF Sent
  <2> QED BY <2>1, <2>5, <2>6
<1>3. CASE Tick \/ ResumeTick
  <2>1. UNCHANGED <<busy, dispatched, retryTimers, now>>
    BY <1>3 DEF Tick, ResumeTick, jobVars, worldVars
  <2> QED BY <1>3, <2>1 DEF Sent
<1>4. CASE SettleBusyComparison
  <2>1. UNCHANGED <<queue, dispatched, retryTimers, now>> /\ busy' \subseteq busy
    BY <1>4 DEF SettleBusyComparison, jobVars, worldVars
  <2> QED BY <2>1 DEF Sent
<1>5. CASE ComparisonRetryFires
  <2>1. busy' = {} /\ queue' \subseteq {ComparisonCall}
    BY <1>5 DEF ComparisonRetryFires, TriggerComparison, Idle
  <2> QED BY <2>1, <1>a DEF Sent
<1>6. CASE AdvanceTime
  <2>1. queue' = {} /\ busy' = {}
    BY <1>6 DEF AdvanceTime, Idle, Down
  <2> QED BY <2>1 DEF Sent
<1>7. CASE UNCHANGED vars \/ \E i \in Ids : RunSteps(i)
  <2>1. UNCHANGED <<queue, busy, dispatched, retryTimers, now>>
    BY <1>7 DEF vars, RunSteps, jobVars, worldVars
  <2> QED BY <2>1 DEF Sent
<1>8. ASSUME NEW i \in Jobs, SettleBusy(i) PROVE Sent(j, k) /\ retryTimers'[j] = retryTimers[j] /\ now' = now
  <2>1. /\ queue' = {} /\ queue = {} /\ busy' = busy \ {i} /\ i \in busy
        /\ dispatched' \in {dispatched, [dispatched EXCEPT ![i] = None]}
        /\ retryTimers' \in {retryTimers, [retryTimers EXCEPT ![i] = dispatched[i]]}
        /\ now' = now
    BY <1>8 DEF SettleBusy, worldVars
  <2>2. j \in busy' /\ dispatched'[j] = k /\ j # i
    BY <2>1 DEF Sent
  <2> QED BY <1>0, <2>1, <2>2 DEF Sent, SchedulerType
<1>9. ASSUME NEW i \in Jobs, RetryFires(i) PROVE FALSE
  <2>1. busy' = {} /\ queue' \subseteq {Call(i, retryTimers[i])} /\ retryTimers' = [retryTimers EXCEPT ![i] = None]
    BY <1>9 DEF RetryFires, Idle
  <2>2. Call(j, k) = Call(i, retryTimers[i])
    BY <2>1 DEF Sent
  <2>3. i = j
    BY <2>2 DEF Call
  <2> QED BY <1>0, <2>1, <2>3 DEF SchedulerType
<1>10. ASSUME NEW i \in Ids, ChildCloses(i) \/ HardFinish(i) PROVE FALSE
  <2>1. busy' = {} /\ queue' \subseteq {ComparisonCall}
    BY <1>10 DEF ChildCloses, HardFinish, Finish, Idle, CloseSucceeded, TriggerComparison, ComparisonEnds
  <2> QED BY <2>1, <1>a DEF Sent
<1> QED BY <1>1, <1>2, <1>3, <1>4, <1>5, <1>6, <1>7, <1>8, <1>9, <1>10 DEF Next, DispatchNext

LEMMA RivalStep == ASSUME Inv, Plain, Down, Timely, Rival, [Next]_vars PROVE Rival'
<1> SUFFICES ASSUME NEW j \in Jobs \ {Comparison}, NEW k \in DispatchKeys,
                    retryTimers'[j] # None, k[1] = Day(now)', Sent(j, k)'
             PROVE  retryTimers'[j][1] = Day(now)' /\ retryTimers'[j][2] = AfterClose
  BY DEF Rival
<1>a. Call(j, k).job = j /\ Call(j, k).key = k
  BY DEF Call
<1>1. CASE Sent(j, k) /\ retryTimers'[j] = retryTimers[j] /\ now' = now
  <2>1. Day(now)' = Day(now)
    BY <1>1 DEF Day
  <2> QED BY <1>1, <2>1 DEF Rival
<1>2. CASE (Tick \/ ResumeTick) /\ Call(j, k) \in queue' /\ retryTimers' = retryTimers /\ now' = now
  <2>0. Day(now)' = Day(now)
    BY <1>2 DEF Day
  <2>1. Retried(j) /\ retryTimers[j] \in DispatchKeys
    BY <1>2, TypeParts DEF Plain, Inv, SchedulerType
  <2>2. PICK l \in DispatchKeys : l = retryTimers[j]
    BY <2>1
  <2>3. PICK p \in 1..(DayLength - 1) : DueAt[j] \subseteq {p}
    BY <2>1, TimetableAssumption
  <2>4. Asks(j, l)
    BY <2>2 DEF Asks
  <2>5. Made(j, l) /\ Fresh(l)
    BY <2>4 DEF Timely
  <2>6. PICK t \in 0..MaxTime :
           \/ DueCall(Call(j, k), t) \/ EodCall(Call(j, k), t) \/ OutcomesCall(Call(j, k), t)
           \/ Call(j, k) = Call(Integrity, IntegrityKey(t))
    BY <1>2, TickAsks
  <2>7. ~(Call(j, k) = Call(Integrity, IntegrityKey(t))) /\ ~EodCall(Call(j, k), t)
    BY <1>a, <2>1, TimetableAssumption DEF EodCall, Call
  <2>8. ~OutcomesCall(Call(j, k), t)
    BY <1>a, <1>2 DEF OutcomesCall, Call
  <2>9. DueCall(Call(j, k), t)
    BY <2>6, <2>7, <2>8
  <2>10. Asks(j, k)'
    BY <1>2 DEF Asks
  <2>11. Made(j, k)'
    BY <2>10, TimelyStep DEF Timely
  <2>12. k = KeyFor(j, t) /\ Point(t) \in DueAt[j] /\ l # k
    BY <1>a, <2>2, <2>9 DEF DueCall, Call, Asked, Plain
  <2>13. k[2] = KeyPoint(j, p) /\ Point(t) = p
    BY <2>3, <2>12, KeyParts
  <2>14. Made(j, k) /\ k[2] # AfterClose
    <3>1. k[2] \in 0..(DayLength - 1)
      BY <2>13, SchedulerAssumption DEF KeyPoint
    <3>2. k[2] # AfterClose
      BY <3>1, SchedulerAssumption DEF AfterClose
    <3>3. now' = now
      BY <1>2
    <3>4. Made(j, k)
      BY <2>11, <3>3 DEF Made, Reached, Day, Point
    <3> QED BY <3>2, <3>4
  <2>15. k[1] \in Days /\ l[1] \in Days /\ p \in Nat \ {0} /\ k[1] = Day(now)
    BY <2>0, SchedulerAssumption DEF DispatchKeys
  <2>16. Reached(k[1], p)
    BY <2>1, <2>3, <2>14, RetriedMade
  <2>17. p <= Point(now) /\ Point(now) # 0
    <3>1. Point(now) \in Nat
      BY DayType, TypeParts, SchedulerAssumption DEF Inv, SchedulerType
    <3> QED BY <2>15, <2>16, <3>1, ReachedFirst
  <2>18. l[1] = Day(now)
    BY <2>5, <2>17 DEF Fresh
  <2>19. l[2] # k[2]
    BY <2>12, <2>15, <2>18 DEF DispatchKeys
  <2>20. l[2] = AfterClose
    BY <2>1, <2>3, <2>5, <2>13, <2>19, RetriedMade
  <2> QED BY <1>2, <2>0, <2>2, <2>18, <2>20
<1> QED BY <1>1, <1>2, SentStep

\* Where what is owed comes from: it was owed and its job is not started in this
\* step, it was answered BUSY, or a close of today has succeeded.
OwedBusy(o) == \E j \in Jobs : SettleBusy(j) /\ Retried(j) /\ o = Call(j, dispatched[j])
OwedClose(o) ==
    \E i \in Ids : /\ Idle /\ Pending(i) /\ run[i].job = Close /\ CloseSucceeded(run[i].key[1])
                   /\ \/ o = ComparisonCall
                      \/ /\ run[i].key[1] = Day(now)
                         /\ o \in {Call(Outcomes, AfterCloseKey(Day(now))), Call(Eod, AfterCloseKey(Day(now)))}

LEMMA OwedStep ==
  ASSUME [Next]_vars, NEW o \in owed' PROVE o \in owed \/ OwedBusy(o) \/ OwedClose(o)
<1>1. CASE ExitServer \/ CrashServer
  BY <1>1 DEF ExitServer, CrashServer, Gone
<1>2. ASSUME NEW c \in queue, Dispatch(c) PROVE o \in owed
  BY <1>2 DEF Dispatch
<1>3. ASSUME NEW j \in Jobs, SettleBusy(j) PROVE o \in owed \/ OwedBusy(o)
  BY <1>3 DEF SettleBusy, OwedBusy, Retried
<1>4. ASSUME NEW i \in Ids, ChildCloses(i) \/ HardFinish(i) PROVE o \in owed \/ OwedClose(o)
  <2>1. PICK succeeded \in BOOLEAN, survives \in BOOLEAN : Finish(i, succeeded, survives)
    BY <1>4 DEF ChildCloses, HardFinish, Succeeded
  <2>2. owed' = owed \/ (run[i].job = Close /\ CloseSucceeded(run[i].key[1]))
    BY <2>1 DEF Finish
  <2>3. Idle /\ Pending(i)
    BY <1>4 DEF ChildCloses, HardFinish, CanClose, CanHardFinish, Pending
  <2>4. CASE run[i].job = Close /\ CloseSucceeded(run[i].key[1])
    <3>1. \/ o \in owed \/ o = ComparisonCall
          \/ run[i].key[1] = Day(now)
             /\ o \in {Call(Outcomes, AfterCloseKey(Day(now))), Call(Eod, AfterCloseKey(Day(now)))}
      BY <2>4 DEF CloseSucceeded
    <3> QED BY <2>3, <2>4, <3>1 DEF OwedClose
  <2> QED BY <2>2, <2>4
<1>5. CASE \/ Start \/ Tick \/ ResumeTick \/ SettleBusyComparison \/ ComparisonRetryFires \/ Stop \/ AdvanceTime
           \/ UNCHANGED vars \/ (\E j \in Jobs : RetryFires(j)) \/ (\E i \in Ids : RunSteps(i))
  BY <1>5 DEF Start, Tick, ResumeTick, SettleBusyComparison, ComparisonRetryFires, Stop, AdvanceTime, RetryFires, RunSteps, vars
<1> QED BY <1>1, <1>2, <1>3, <1>4, <1>5 DEF Next, DispatchNext

LEMMA HandoffStays == ASSUME [Next]_vars PROVE handoff \subseteq handoff'
BY DEF Next, Start, DispatchNext, Dispatch, Tick, ResumeTick, SettleBusyComparison, ComparisonRetryFires, Stop,
       ExitServer, CrashServer, Gone, AdvanceTime, SettleBusy, RetryFires, ChildCloses, HardFinish, Finish,
       CloseSucceeded, RunSteps, worldVars, vars

LEMMA CallParts == ASSUME NEW c \in AllCalls PROVE c = Call(c.job, c.key) /\ c.job \in Jobs /\ c.key \in DispatchKeys
BY DEF AllCalls, Call

\* The day of a key whose job was answered BUSY.
LEMMA BusyAsks ==
  ASSUME Inv, NEW j \in Jobs, SettleBusy(j)
  PROVE  dispatched[j] \in DispatchKeys /\ j # Comparison /\ Asks(j, dispatched[j]) /\ Sent(j, dispatched[j])
<1>1. j \in busy \ {Comparison}
  BY DEF SettleBusy
<1>2. dispatched[j] \in DispatchKeys
  BY <1>1, TypeParts DEF Inv, SchedulerType, Asking
<1> QED BY <1>1, <1>2 DEF Asks, Sent

LEMMA ClosedToday ==
  ASSUME Inv, Timely, NEW i \in Ids, Pending(i), run[i].job = Close
  PROVE  run[i].key[1] \in Days /\ Reached(run[i].key[1], 1)
<1>1. run[i].key \in DispatchKeys
  BY KeysAssumption DEF Inv, RunnerInv, RunnerType, RunRecord
<1>2. PICK k \in DispatchKeys : k = run[i].key
  BY <1>1
<1>3. Made(Close, k)
  BY <1>2 DEF Timely
<1>4. Reached(k[1], 1)
  BY <1>3, RetriedReached, TimetableAssumption, SchedulerAssumption
<1> QED BY <1>2, <1>4 DEF DispatchKeys

LEMMA OweTypeStep == ASSUME Inv, Timely, \A o \in owed : OweType(o), [Next]_vars, NEW o \in owed' PROVE OweType(o)'
<1>0. SchedulerType /\ Inv'
  BY NextInv, TypeParts DEF Inv
<1>a. o \in AllCalls
  BY <1>0 DEF Inv, TypeOK, AllCalls
<1>b. o = Call(o.job, o.key) /\ o.job \in Jobs /\ o.key \in DispatchKeys /\ o.key[1] \in Days
  BY <1>a, CallParts DEF DispatchKeys
<1>1. CASE o \in owed
  <2>1. Reached(o.key[1], 1) => Reached(o.key[1], 1)'
    BY <1>b, ReachedStays
  <2>2. Made(o.job, o.key) => Made(o.job, o.key)'
    BY <1>b, MadeStays
  <2>3. handoff \subseteq handoff'
    BY HandoffStays
  <2> QED BY <1>1, <2>1, <2>2, <2>3 DEF OweType
<1>2. CASE OwedBusy(o)
  <2>1. PICK j \in Jobs : SettleBusy(j) /\ Retried(j) /\ o = Call(j, dispatched[j])
    BY <1>2 DEF OwedBusy
  <2>2. o.job = j /\ o.key = dispatched[j]
    BY <2>1 DEF Call
  <2>3. Asks(o.job, o.key)
    BY <2>1, <2>2, BusyAsks
  <2>4. Made(o.job, o.key)
    BY <1>b, <2>3 DEF Timely
  <2>5. Reached(o.key[1], 1)
    BY <1>b, <2>1, <2>2, <2>4, RetriedReached
  <2>6. Reached(o.key[1], 1)' /\ Made(o.job, o.key)'
    BY <1>b, <2>4, <2>5, ReachedStays, MadeStays
  <2> QED BY <2>1, <2>2, <2>6 DEF OweType
<1>3. CASE OwedClose(o)
  <2>1. PICK i \in Ids : /\ Pending(i) /\ run[i].job = Close /\ CloseSucceeded(run[i].key[1])
                         /\ \/ o = ComparisonCall
                            \/ /\ run[i].key[1] = Day(now)
                               /\ o \in {Call(Outcomes, AfterCloseKey(Day(now))), Call(Eod, AfterCloseKey(Day(now)))}
    BY <1>3 DEF OwedClose
  <2>2. CASE o = ComparisonCall
    BY <2>2 DEF OweType, ComparisonCall, Call
  <2>3. CASE run[i].key[1] = Day(now) /\ o \in {Call(Outcomes, AfterCloseKey(Day(now))), Call(Eod, AfterCloseKey(Day(now)))}
    <3>1. o.key = AfterCloseKey(Day(now)) /\ o.key[1] = Day(now) /\ o.key[2] = AfterClose /\ o.job \in {Outcomes, Eod}
      BY <2>3 DEF Call, AfterCloseKey
    <3>2. Reached(o.key[1], 1)
      BY <2>1, <2>3, <3>1, ClosedToday
    <3>3. Reached(o.key[1], 1)'
      BY <1>b, <3>2, ReachedStays
    <3>4. o.key[1] \in handoff'
      BY <2>1, <2>3, <3>1 DEF CloseSucceeded
    <3> QED BY <3>1, <3>3, <3>4, TimetableAssumption DEF OweType
  <2> QED BY <2>1, <2>2, <2>3
<1> QED BY <1>1, <1>2, <1>3, OwedStep

LEMMA CoveredKeeps ==
  ASSUME now' = now, NEW o, Covered(o),
         o.job = Comparison => (WillStart(o) => WillStart(o)'),
         o.job = Eod /\ o.key[1] = Day(now) => (WillStart(o) => WillStart(o)'),
         o.job \notin {Comparison, Eod} /\ o.key[1] = Day(now) /\ StillAsked(o)
           => StillAsked(o)' \/ (o.key[2] # AfterClose /\ Point(now) \notin RetryWindow[o.job])
  PROVE  Covered(o)'
<1>1. Day(now)' = Day(now) /\ Point(now)' = Point(now)
  BY DEF Day, Point
<1>2. CASE o.job = Comparison
  BY <1>2 DEF Covered
<1>3. CASE o.job = Eod /\ o.job # Comparison
  BY <1>1, <1>3 DEF Covered
<1>4. CASE o.job \notin {Comparison, Eod}
  BY <1>1, <1>4 DEF Covered
<1> QED BY <1>2, <1>3, <1>4

LEMMA AskedKeeps ==
  ASSUME now' = now, NEW o, StillAsked(o),
         \A k \in DispatchKeys : Asks(o.job, k) => Asks(o.job, k)',
         outcomesAfter = Day(now) => outcomesAfter' = Day(now)
  PROVE  StillAsked(o)'
<1>1. Day(now)' = Day(now)
  BY DEF Day
<1> QED BY <1>1 DEF StillAsked

\* A step that takes nothing away of what was asked, and none of the flags.
LEMMA CoveredStays ==
  ASSUME UNCHANGED <<now, outcomesAfter, eodAfter, eodChecked, cmpPending, cmpInFlight, cmpTimer>>,
         NEW o, Covered(o),
         \A k \in DispatchKeys : Asks(o.job, k) => Asks(o.job, k)',
         o.job \in {Comparison, Eod} =>
           /\ (\E c \in queue : c.job = o.job) => o.job \in busy' \/ \E c \in queue' : c.job = o.job
           /\ o.job \in busy => o.job \in busy'
           /\ retryTimers'[o.job] = retryTimers[o.job]
  PROVE  Covered(o)'
<1>1. Day(now)' = Day(now)
  BY DEF Day
<1>2. o.job \in {Comparison, Eod} => (WillStart(o) => WillStart(o)')
  BY <1>1 DEF WillStart
<1>3. StillAsked(o) => StillAsked(o)'
  BY AskedKeeps
<1> QED BY <1>2, <1>3, CoveredKeeps

LEMMA DispatchCovers ==
  ASSUME Inv, Plain, NEW c \in queue, Dispatch(c), NEW o \in owed', Covered(o) PROVE Covered(o)'
<1>0. SchedulerType /\ c \in AllCalls /\ dispatched \in [Jobs -> DispatchKeys \cup {None}]
  BY TypeParts DEF Inv, SchedulerType
<1>1. c = Call(c.job, c.key) /\ c.job \in Jobs /\ c.key \in DispatchKeys
  BY <1>0, CallParts
<1>2. /\ UNCHANGED <<now, outcomesAfter, eodAfter, eodChecked, cmpPending, cmpInFlight, cmpTimer, retryTimers>>
      /\ queue' = queue \ {c}
      /\ c.job # Comparison => dispatched' = [dispatched EXCEPT ![c.job] = c.key]
      /\ c.job = Comparison => dispatched' = dispatched
      /\ (busy' = busy /\ o.job # c.job) \/ busy' = busy \cup {c.job}
  BY DEF Dispatch, worldVars, followVars, cmpVars
<1>3. o.job \in Jobs
  <2>1. o \in owed
    BY DEF Dispatch
  <2> QED BY <1>0, <2>1, CallParts DEF SchedulerType
<1>4. ASSUME NEW k \in DispatchKeys, Asks(o.job, k) PROVE Asks(o.job, k)'
  <2>1. CASE Call(o.job, k) \in queue /\ Call(o.job, k) # c
    BY <1>2, <1>4, <2>1 DEF Asks
  <2>2. CASE Call(o.job, k) = c
    <3>1. c.job = o.job /\ c.key = k /\ o.job # Comparison
      BY <1>4, <2>2 DEF Asks, Call
    <3>2. o.job \in busy' /\ dispatched'[o.job] = k
      BY <1>0, <1>2, <1>3, <3>1
    <3> QED BY <3>1, <3>2 DEF Asks
  <2>3. CASE o.job \in busy /\ dispatched[o.job] = k
    <3>1. o.job # Comparison /\ c.job # o.job
      BY <1>4, <2>3 DEF Asks, Plain
    <3>2. o.job \in busy' /\ dispatched'[o.job] = k
      BY <1>0, <1>2, <1>3, <2>3, <3>1
    <3> QED BY <3>1, <3>2 DEF Asks
  <2>4. CASE retryTimers[o.job] = k
    BY <1>2, <1>4, <2>4 DEF Asks
  <2> QED BY <1>4, <2>1, <2>2, <2>3, <2>4 DEF Asks
<1>5. (\E e \in queue : e.job = o.job) => o.job \in busy' \/ \E e \in queue' : e.job = o.job
  BY <1>2
<1> QED BY <1>2, <1>4, <1>5, CoveredStays

\* What is owed for today was asked after midnight, so that a tick or a key of
\* yesterday is not met any more.
LEMMA OwedPoint ==
  ASSUME Inv, NEW o \in owed, OweType(o), o.job # Comparison, o.key[1] = Day(now)
  PROVE  Point(now) # 0
<1>1. o.key[1] \in Days /\ Point(now) \in Nat
  BY DayType, TypeParts, SchedulerAssumption DEF Inv, TypeOK, SchedulerType, DispatchKeys
<1>2. Reached(o.key[1], 1)
  BY DEF OweType
<1>3. 1 <= Point(now)
  BY <1>1, <1>2, ReachedFirst
<1> QED BY <1>1, <1>3

LEMMA TickBodyCovers ==
  ASSUME Inv, Plain, Timely, NEW t \in parked \cup {now}, TickBody(t), queue = {},
         UNCHANGED <<now, cmpVars, jobVars, busy>>,
         NEW o \in owed, OweType(o), Covered(o)
  PROVE  Covered(o)'
<1>0. Day(now)' = Day(now) /\ SchedulerType /\ o.job \in Jobs
  BY TypeParts, CallParts DEF Day, Inv, SchedulerType
<1>1. UNCHANGED <<cmpPending, cmpInFlight, cmpTimer, retryTimers, busy, dispatched>>
  BY DEF cmpVars, jobVars
<1>2. o.job # Comparison /\ o.key[1] = Day(now) => Day(t) = Day(now)
  BY OwedPoint DEF Timely
<1>3. \A k \in DispatchKeys : Asks(o.job, k) => Asks(o.job, k)'
  BY <1>1 DEF Asks
<1>4. o.job = Comparison => (WillStart(o) => WillStart(o)')
  BY <1>0, <1>1, SchedulerAssumption DEF WillStart
<1>5. ASSUME o.job = Eod, o.key[1] = Day(now), WillStart(o) PROVE WillStart(o)'
  <2>1. Day(t) = Day(now) /\ Day(now) \in handoff
    BY <1>2, <1>5, TimetableAssumption, SchedulerAssumption DEF OweType
  <2>2. Eod \in busy \/ eodAfter = Day(now) \/ eodChecked # Day(now)
    BY <1>5, TimetableAssumption, SchedulerAssumption DEF WillStart, Plain
  <2>3. CASE Eod \in busy
    BY <1>1, <1>5, <2>3 DEF WillStart
  <2>4. CASE eodAfter = Day(now) \/ eodChecked # Day(now)
    <3> DEFINE d == Day(t)
               recovers == Point(t) >= CloseFrom /\ eodChecked # d
               eod == IF recovers /\ d \in handoff THEN d ELSE eodAfter
               eodNow == eod = d /\ Point(t) >= EodFrom /\ Eod \notin inFlight
    <3>1. /\ eodChecked' = IF recovers THEN d ELSE eodChecked
          /\ eodAfter' = IF eod # d \/ eodNow THEN None ELSE eod
          /\ eodNow => Call(Eod, AfterCloseKey(d)) \in queue'
      BY DEF TickBody
    <3>2. CASE eodNow
      <4>1. Call(Eod, AfterCloseKey(d)) \in queue' /\ Call(Eod, AfterCloseKey(d)).job = Eod
        BY <3>1, <3>2 DEF Call
      <4> QED BY <1>5, <4>1 DEF WillStart
    <3>3. CASE ~eodNow /\ eod = d
      <4>1. eodAfter' = Day(now)'
        BY <1>0, <2>1, <3>1, <3>3
      <4> QED BY <1>5, <4>1 DEF WillStart
    <3>4. CASE eod # d
      <4>1. ~recovers /\ eodChecked # d
        BY <2>1, <2>4, <3>4
      <4>2. eodChecked' # Day(now)'
        BY <1>0, <2>1, <3>1, <4>1
      <4> QED BY <1>5, <4>2 DEF WillStart
    <3> QED BY <3>2, <3>3, <3>4
  <2> QED BY <2>2, <2>3, <2>4
<1>6. ASSUME o.key[1] = Day(now), o.job \notin {Comparison, Eod}, StillAsked(o) PROVE StillAsked(o)'
  <2>1. CASE \E k \in DispatchKeys : Asks(o.job, k) /\ k[1] = o.key[1] /\ (k = o.key \/ k[2] = AfterClose)
    BY <1>3, <2>1 DEF StillAsked
  <2>2. CASE o.job = Outcomes /\ o.key[2] = AfterClose /\ outcomesAfter = Day(now)
    <3> DEFINE k == AfterCloseKey(Day(t))
    <3>1. outcomesAfter' = outcomesAfter \/ Call(Outcomes, k) \in queue'
      BY <1>2, <1>6, <2>2 DEF TickBody
    <3>2. CASE outcomesAfter' = outcomesAfter
      BY <1>0, <2>2, <3>2 DEF StillAsked
    <3>3. CASE Call(Outcomes, k) \in queue'
      <4>1. k \in DispatchKeys /\ k[1] = Day(t) /\ k[2] = AfterClose
        <5>1. t \in 0..MaxTime
          BY <1>0 DEF SchedulerType
        <5>2. AfterCloseKey(Day(t)) \in DispatchKeys
          BY <5>1, DayType, KeyType
        <5> QED BY <5>2 DEF AfterCloseKey
      <4>2. Asks(Outcomes, k)'
        BY <1>6, <2>2, <3>3 DEF Asks
      <4> HIDE DEF k
      <4> QED BY <1>2, <1>6, <2>2, <4>1, <4>2 DEF StillAsked
    <3> QED BY <3>1, <3>2, <3>3
  <2> QED BY <1>6, <2>1, <2>2 DEF StillAsked
<1> QED BY <1>4, <1>5, <1>6, CoveredKeeps

LEMMA TickCovers ==
  ASSUME Inv, Plain, Timely, Tick \/ ResumeTick, NEW o \in owed, OweType(o), Covered(o)
  PROVE  Covered(o)'
<1>1. queue = {} /\ UNCHANGED <<now, cmpVars, jobVars, busy>>
  BY DEF Tick, ResumeTick, Idle, worldVars
<1>2. CASE UNCHANGED followVars
  <2>1. UNCHANGED <<outcomesAfter, eodAfter, eodChecked, cmpPending, cmpInFlight, cmpTimer, retryTimers, busy, dispatched, now>>
    BY <1>1, <1>2 DEF followVars, cmpVars, jobVars
  <2>2. \A k \in DispatchKeys : Asks(o.job, k) => Asks(o.job, k)'
    BY <1>1, <2>1 DEF Asks
  <2> QED BY <1>1, <2>1, <2>2, CoveredStays
<1>3. CASE \E t \in parked \cup {now} : TickBody(t)
  BY <1>1, <1>3, TickBodyCovers
<1>4. UNCHANGED followVars \/ \E t \in parked \cup {now} : TickBody(t)
  BY DEF Tick, ResumeTick
<1> QED BY <1>2, <1>3, <1>4

LEMMA SettleBusyCovers ==
  ASSUME Inv, Plain, Timely, Rival, NEW j \in Jobs, SettleBusy(j), NEW o \in owed', OweType(o)',
         o \in owed => OweType(o) /\ Covered(o)
  PROVE  Covered(o)'
<1> DEFINE l == dispatched[j]
<1>0. SchedulerType /\ retryTimers \in [Jobs -> DispatchKeys \cup {None}] /\ now' = now
  BY TypeParts DEF Inv, SchedulerType, SettleBusy, worldVars
<1>a. Day(now)' = Day(now)
  BY <1>0 DEF Day
<1>1. l \in DispatchKeys /\ l # None /\ j # Comparison /\ Asks(j, l) /\ Sent(j, l)
  BY BusyAsks, KeysAssumption
<1>2. /\ queue = {} /\ queue' = {} /\ busy' = busy \ {j} /\ j \in busy
      /\ dispatched' \in {dispatched, [dispatched EXCEPT ![j] = None]}
      /\ UNCHANGED <<outcomesAfter, eodChecked, cmpPending, cmpInFlight, cmpTimer>>
      /\ eodAfter' = IF j = Eod /\ Day(now) = l[1] THEN l[1] ELSE eodAfter
      /\ owed' = IF Retried(j) THEN owed \cup {Call(j, l)} ELSE owed
      /\ \/ retryTimers' = [retryTimers EXCEPT ![j] = l]
         \/ retryTimers' = retryTimers /\ ~(Retried(j) /\ retryKeys[j] # l /\ retryTimers[j] = None)
  BY DEF SettleBusy, cmpVars, Retried
<1> HIDE DEF l
\* The retry timer of a job that has one is armed now: with the key, or with the
\* follow-up that replaces it.
<1>3. ASSUME Retried(j), l[1] = Day(now)
      PROVE  \E k \in DispatchKeys : Asks(j, k)' /\ k[1] = Day(now) /\ (k = l \/ k[2] = AfterClose)
  <2>1. CASE retryTimers' = [retryTimers EXCEPT ![j] = l]
    <3>1. retryTimers'[j] = l
      BY <1>0, <2>1
    <3> QED BY <1>1, <1>3, <3>1 DEF Asks
  <2>2. CASE retryTimers' = retryTimers /\ retryTimers[j] # None
    <3>1. PICK k \in DispatchKeys : k = retryTimers[j]
      BY <1>0, <2>2
    <3>2. k[1] = Day(now) /\ k[2] = AfterClose
      BY <1>1, <1>3, <2>2, <3>1 DEF Rival
    <3> QED BY <1>1, <2>2, <3>1, <3>2 DEF Asks
  <2>3. retryKeys[j] = retryTimers[j]
    BY DEF Plain
  <2> QED BY <1>1, <1>2, <1>3, <2>1, <2>2, <2>3
<1>4. CASE o \notin owed
  <2>1. Retried(j) /\ o = Call(j, l)
    BY <1>2, <1>4
  <2>2. o.job = j /\ o.key = l /\ o.job # Comparison /\ o.job # Eod
    BY <1>1, <2>1, TimetableAssumption DEF Call
  <2>3. l[1] = Day(now) => StillAsked(o)'
    BY <1>3, <2>1, <2>2 DEF StillAsked
  <2> QED BY <1>a, <2>2, <2>3 DEF Covered
<1>5. CASE o \in owed
  <2>0. Covered(o) /\ OweType(o) /\ o.job \in Jobs
    BY <1>0, <1>5, CallParts DEF SchedulerType
  <2>1. o.job = Comparison => (WillStart(o) => WillStart(o)')
    <3>1. retryTimers[Comparison] = None
      BY TimetableAssumption, SchedulerAssumption DEF Plain
    <3> QED BY <1>1, <1>2, <3>1, SchedulerAssumption DEF WillStart
  <2>2. ASSUME o.job = Eod, o.key[1] = Day(now), WillStart(o) PROVE WillStart(o)'
    <3>1. Eod \in busy \/ eodAfter = Day(now) \/ eodChecked # Day(now)
      BY <1>2, <2>2, TimetableAssumption, SchedulerAssumption DEF WillStart, Plain
    <3>2. CASE j = Eod
      <4>1. Fresh(l)
        BY <1>1 DEF Timely
      <4>2. l[1] = Day(now)
        BY <1>5, <2>0, <2>2, <4>1, OwedPoint, SchedulerAssumption DEF Fresh
      <4>3. eodAfter' = Day(now)'
        BY <1>2, <1>a, <3>2, <4>2
      <4> QED BY <2>2, <4>3 DEF WillStart
    <3>3. CASE j # Eod
      BY <1>2, <1>a, <2>2, <3>1, <3>3 DEF WillStart
    <3> QED BY <3>2, <3>3
  <2>3. ASSUME o.job \notin {Comparison, Eod}, o.key[1] = Day(now), StillAsked(o) PROVE StillAsked(o)'
    <3>0. Retried(o.job)
      BY <2>0, <2>3 DEF OweType
    <3>1. CASE o.job = Outcomes /\ o.key[2] = AfterClose /\ outcomesAfter = Day(now)
      BY <1>2, <1>a, <3>1 DEF StillAsked
    <3>2. ASSUME NEW k \in DispatchKeys, Asks(o.job, k), k[1] = o.key[1], k = o.key \/ k[2] = AfterClose PROVE StillAsked(o)'
      <4>1. CASE o.job # j
        <5>1. (o.job \in busy' <=> o.job \in busy) /\ dispatched'[o.job] = dispatched[o.job] /\ retryTimers'[o.job] = retryTimers[o.job]
          BY <1>0, <1>2, <2>0, <4>1 DEF SchedulerType
        <5>2. Asks(o.job, k)'
          BY <1>2, <3>2, <5>1 DEF Asks
        <5> QED BY <3>2, <5>2 DEF StillAsked
      <4>2. CASE o.job = j /\ k = l
        <5>1. PICK m \in DispatchKeys : Asks(j, m)' /\ m[1] = Day(now) /\ (m = l \/ m[2] = AfterClose)
          BY <1>3, <2>3, <3>0, <3>2, <4>2
        <5> QED BY <2>3, <3>2, <4>2, <5>1 DEF StillAsked
      <4>3. CASE o.job = j /\ k # l
        <5>1. retryTimers[j] = k /\ k # None
          BY <1>2, <3>2, <4>3, KeysAssumption DEF Asks, l
        <5>2. CASE retryTimers' = retryTimers
          <6>1. Asks(o.job, k)'
            BY <1>1, <4>3, <5>1, <5>2 DEF Asks
          <6> QED BY <3>2, <6>1 DEF StillAsked
        <5>3. retryTimers' = retryTimers
          BY <5>1 DEF SettleBusy
        <5> QED BY <5>2, <5>3
      <4> QED BY <4>1, <4>2, <4>3
    <3> QED BY <2>3, <3>1, <3>2 DEF StillAsked
  <2> QED BY <1>0, <2>0, <2>1, <2>2, <2>3, CoveredKeeps
<1> QED BY <1>4, <1>5

LEMMA RetryCovers ==
  ASSUME Inv, Plain, Timely, NEW j \in Jobs, RetryFires(j), NEW o \in owed, OweType(o), Covered(o)
  PROVE  Covered(o)'
<1> DEFINE l == retryTimers[j]
<1>0. SchedulerType /\ retryTimers \in [Jobs -> DispatchKeys \cup {None}] /\ now' = now /\ o.job \in Jobs
  BY TypeParts, CallParts DEF Inv, SchedulerType, RetryFires, worldVars
<1>1. /\ queue = {} /\ busy = {} /\ l # None /\ l \in DispatchKeys /\ retryKeys[j] = l
      /\ retryTimers' = [retryTimers EXCEPT ![j] = None]
      /\ UNCHANGED <<outcomesAfter, eodAfter, eodChecked, cmpPending, cmpInFlight, cmpTimer>>
  BY <1>0 DEF RetryFires, Idle, Plain, followVars, cmpVars
<1>2. /\ Retried(j) /\ j # Comparison /\ j # Eod /\ Asks(j, l)
      /\ retryTimers[Comparison] = None /\ retryTimers[Eod] = None
  BY <1>1, TimetableAssumption, SchedulerAssumption DEF Plain, Asks
<1>3. queue' = IF WithinWindow(j, l) THEN {Call(j, l)} ELSE {}
  BY <1>1 DEF RetryFires
<1> HIDE DEF l
<1>4. o.job \in {Comparison, Eod} => (WillStart(o) => WillStart(o)')
  <2>1. Day(now)' = Day(now)
    BY <1>0 DEF Day
  <2> QED BY <1>1, <1>2, <2>1 DEF WillStart
<1>5. ASSUME o.job \notin {Comparison, Eod}, o.key[1] = Day(now), StillAsked(o)
      PROVE  StillAsked(o)' \/ (o.key[2] # AfterClose /\ Point(now) \notin RetryWindow[o.job])
  <2>0. Day(now)' = Day(now)
    BY <1>0 DEF Day
  <2>1. CASE o.job = Outcomes /\ o.key[2] = AfterClose /\ outcomesAfter = Day(now)
    BY <1>1, <2>0, <2>1 DEF StillAsked
  <2>2. ASSUME NEW k \in DispatchKeys, Asks(o.job, k), k[1] = o.key[1], k = o.key \/ k[2] = AfterClose
        PROVE  StillAsked(o)' \/ (o.key[2] # AfterClose /\ Point(now) \notin RetryWindow[o.job])
    <3>1. retryTimers[o.job] = k
      BY <1>1, <2>2 DEF Asks
    <3>2. CASE o.job # j
      <4>1. Asks(o.job, k)'
        BY <1>0, <1>1, <1>5, <3>1, <3>2 DEF Asks
      <4> QED BY <2>2, <4>1 DEF StillAsked
    <3>3. CASE o.job = j
      <4>1. k = l
        BY <3>1, <3>3 DEF l
      <4>2. CASE WithinWindow(j, l)
        <5>1. Asks(o.job, k)'
          BY <1>2, <1>3, <3>3, <4>1, <4>2 DEF Asks
        <5> QED BY <2>2, <5>1 DEF StillAsked
      <4>3. CASE ~WithinWindow(j, l)
        <5>1. Point(now) \notin IF k[2] = AfterClose THEN CloseFrom..(DayLength - 1) ELSE RetryWindow[j]
          BY <1>5, <2>2, <4>1, <4>3 DEF WithinWindow
        <5>2. CASE k[2] # AfterClose
          BY <2>2, <3>3, <5>1, <5>2
        <5>3. CASE k[2] = AfterClose
          <6>1. PICK p \in 1..(DayLength - 1) : DueAt[j] \subseteq {p}
            BY <1>2, TimetableAssumption
          <6>2. Made(j, k)
            BY <1>2, <4>1 DEF Timely
          <6>3. KeyPoint(j, p) # AfterClose
            <7>1. KeyPoint(j, p) \in 0..(DayLength - 1)
              BY SchedulerAssumption DEF KeyPoint
            <7> QED BY <7>1, SchedulerAssumption DEF AfterClose
          <6>4. Reached(k[1], CloseFrom)
            BY <1>2, <5>3, <6>1, <6>2, <6>3, RetriedMade
          <6>5. CloseFrom <= Point(now) /\ Point(now) \in 0..(DayLength - 1)
            <7>1. k[1] \in Days /\ CloseFrom \in Nat \ {0} /\ k[1] = Day(now)
              BY <1>5, <2>2, SchedulerAssumption DEF DispatchKeys
            <7>2. Point(now) \in 0..(DayLength - 1)
              BY <1>0, DayType DEF SchedulerType
            <7> QED BY <6>4, <7>1, <7>2, ReachedFirst
          <6>6. Point(now) \in CloseFrom..(DayLength - 1)
            BY <6>5, SchedulerAssumption
          <6> QED BY <5>1, <5>3, <6>6
        <5> QED BY <5>2, <5>3
      <4> QED BY <4>2, <4>3
    <3> QED BY <3>2, <3>3
  <2> QED BY <1>5, <2>1, <2>2 DEF StillAsked
<1> QED BY <1>0, <1>4, <1>5, CoveredKeeps

LEMMA FinishCovers ==
  ASSUME Inv, Plain, NEW i \in Ids, NEW succeeded \in BOOLEAN, NEW survives \in BOOLEAN,
         Idle, running, Pending(i), Finish(i, succeeded, survives), NEW o \in owed', OwedClose(o) \/ o \in owed,
         o \in owed => OweType(o) /\ Covered(o)
  PROVE  Covered(o)'
<1> DEFINE d == run[i].key[1]
           closes == run[i].job = Close /\ succeeded /\ CloseSucceeded(d)
<1>0. /\ queue = {} /\ busy = {} /\ now' = now /\ Day(now)' = Day(now)
      /\ UNCHANGED <<eodChecked, cmpTimer, retryTimers, busy>>
  BY DEF Idle, Finish, Day
<1>1. \/ closes
      \/ run[i].job = Comparison /\ ComparisonEnds /\ UNCHANGED <<outcomesAfter, eodAfter, owed>>
      \/ UNCHANGED <<outcomesAfter, eodAfter, owed, cmpInFlight, cmpPending, queue>>
  BY DEF Finish
<1>2. closes => /\ outcomesAfter' = IF d = Day(now) THEN d ELSE outcomesAfter
                /\ eodAfter' = IF d = Day(now) THEN d ELSE eodAfter
                /\ owed' = owed \cup {ComparisonCall}
                        \cup (IF d = Day(now) THEN {Call(Outcomes, AfterCloseKey(d)), Call(Eod, AfterCloseKey(d))} ELSE {})
                /\ (cmpPending' /\ cmpInFlight') \/ queue' = {ComparisonCall}
  BY DEF CloseSucceeded, TriggerComparison
<1>3. ComparisonCall.job = Comparison
  BY DEF ComparisonCall, Call
<1>4. CASE o \in owed
  <2>1. o.job = Comparison => (WillStart(o) => WillStart(o)')
    <3> SUFFICES ASSUME o.job = Comparison, WillStart(o) PROVE WillStart(o)'
      OBVIOUS
    <3>1. cmpTimer \/ (cmpPending /\ cmpInFlight)
      BY <1>0, TimetableAssumption, SchedulerAssumption DEF WillStart, Plain
    <3>2. cmpTimer' \/ (cmpPending' /\ cmpInFlight') \/ queue' = {ComparisonCall}
      BY <1>0, <1>1, <1>2, <3>1 DEF ComparisonEnds
    <3> QED BY <1>3, <3>2 DEF WillStart
  <2>2. o.job = Eod /\ o.key[1] = Day(now) => (WillStart(o) => WillStart(o)')
    <3> SUFFICES ASSUME o.job = Eod, WillStart(o) PROVE WillStart(o)'
      OBVIOUS
    <3>1. eodAfter = Day(now) \/ eodChecked # Day(now)
      BY <1>0, TimetableAssumption, SchedulerAssumption DEF WillStart, Plain
    <3>2. eodAfter' = Day(now) \/ eodChecked # Day(now)
      BY <1>1, <1>2, <3>1
    <3> QED BY <1>0, <3>2 DEF WillStart
  <2>3. \A k \in DispatchKeys : Asks(o.job, k) => Asks(o.job, k)'
    BY <1>0 DEF Asks
  <2>4. outcomesAfter = Day(now) => outcomesAfter' = Day(now)
    BY <1>1, <1>2
  <2>5. StillAsked(o) => StillAsked(o)'
    BY <1>0, <2>3, <2>4, AskedKeeps
  <2> QED BY <1>0, <1>4, <2>1, <2>2, <2>5, CoveredKeeps
<1>5. CASE o \notin owed
  <2>1. closes
    BY <1>1, <1>5
  <2>2. CASE o = ComparisonCall
    <3>1. WillStart(o)'
      BY <1>2, <1>3, <2>1, <2>2 DEF WillStart
    <3> QED BY <1>3, <2>2, <3>1 DEF Covered
  <2>3. CASE d = Day(now) /\ o = Call(Outcomes, AfterCloseKey(d))
    <3>1. o.job = Outcomes /\ o.key[2] = AfterClose
      BY <2>3 DEF Call, AfterCloseKey
    <3>2. outcomesAfter' = Day(now)'
      BY <1>0, <1>2, <2>1, <2>3
    <3>3. StillAsked(o)'
      BY <3>1, <3>2 DEF StillAsked
    <3> QED BY <3>1, <3>3, SchedulerAssumption DEF Covered
  <2>4. CASE d = Day(now) /\ o = Call(Eod, AfterCloseKey(d))
    <3>1. o.job = Eod
      BY <2>4 DEF Call
    <3>2. eodAfter' = Day(now)'
      BY <1>0, <1>2, <2>1, <2>4
    <3>3. WillStart(o)'
      BY <3>1, <3>2 DEF WillStart
    <3> QED BY <3>1, <3>3, SchedulerAssumption DEF Covered
  <2> QED BY <1>2, <1>5, <2>1, <2>2, <2>3, <2>4
<1> QED BY <1>4, <1>5

\* A day goes on: a window that has not opened yet is not missed, because a key is
\* asked no earlier than its window opens.
LEMMA TimeCovers ==
  ASSUME Inv, Plain, Timely, AdvanceTime, NEW o \in owed, OweType(o), Covered(o)
  PROVE  Covered(o)'
<1>0. SchedulerType /\ o.job \in Jobs /\ o.key \in DispatchKeys /\ now \in 0..MaxTime /\ now \in Nat
  BY TypeParts, CallParts, SchedulerAssumption DEF Inv, SchedulerType
<1>1. /\ now' = now + 1
      /\ UNCHANGED <<queue, busy, dispatched, retryTimers, outcomesAfter, eodAfter, eodChecked, cmpPending, cmpInFlight, cmpTimer>>
  BY DEF AdvanceTime, jobVars, followVars, cmpVars
<1>2. \/ Day(now + 1) = Day(now) /\ Point(now + 1) = Point(now) + 1
      \/ Day(now + 1) = Day(now) + 1 /\ Point(now + 1) = 0
  BY <1>0, NextInstant
<1>3. Day(now)' = Day(now + 1) /\ Point(now)' = Point(now + 1)
  BY <1>1 DEF Day, Point
<1>4. o.key[1] \in Days /\ o.key[1] \in Nat /\ Day(now) \in Nat /\ Point(now) \in Nat
  BY <1>0, DayType, SchedulerAssumption DEF DispatchKeys, Days
<1>5. CASE o.job = Comparison
  <2>1. WillStart(o)
    BY <1>5 DEF Covered
  <2>2. WillStart(o)'
    BY <1>1, <1>5, <2>1, SchedulerAssumption DEF WillStart
  <2> QED BY <1>5, <2>2 DEF Covered
<1>6. CASE o.job # Comparison /\ o.key[1] = Day(now)'
  <2>1. Reached(o.key[1], 1)
    BY <1>6 DEF OweType
  <2>2. o.key[1] <= Day(now)
    BY <1>4, <2>1, ReachedFirst
  <2>3. o.key[1] = Day(now) /\ Day(now)' = Day(now) /\ Point(now)' = Point(now) + 1
    BY <1>2, <1>3, <1>4, <1>6, <2>2
  <2>4. CASE o.job = Eod
    <3>1. WillStart(o)
      BY <1>6, <2>3, <2>4 DEF Covered
    <3>2. WillStart(o)'
      BY <1>1, <2>3, <2>4, <3>1, SchedulerAssumption DEF WillStart
    <3> QED BY <1>6, <2>4, <3>2 DEF Covered
  <2>5. CASE o.job # Eod
    <3>1. CASE StillAsked(o)
      <4>1. StillAsked(o)'
        BY <1>1, <2>3, <3>1 DEF StillAsked, Asks
      <4> QED BY <1>6, <2>5, <4>1 DEF Covered
    <3>2. CASE o.key[2] # AfterClose /\ Point(now) \notin RetryWindow[o.job]
      <4>1. Retried(o.job) /\ Made(o.job, o.key)
        BY <1>6, <2>5, <3>2 DEF OweType
      <4>2. PICK p \in 1..(DayLength - 1), q \in 1..(DayLength - 1) : DueAt[o.job] \subseteq {p} /\ RetryWindow[o.job] = p..q
        BY <1>0, <4>1, TimetableAssumption
      <4>3. Reached(o.key[1], p)
        BY <1>0, <3>2, <4>1, <4>2, RetriedMade
      <4>4. p \in Nat \ {0} /\ q \in Nat
        BY SchedulerAssumption
      <4>5. p <= Point(now)
        BY <1>4, <2>3, <4>3, <4>4, ReachedFirst
      <4>6. Point(now) + 1 \notin p..q
        BY <1>4, <3>2, <4>2, <4>4, <4>5
      <4> QED BY <1>6, <2>3, <2>5, <3>2, <4>2, <4>6 DEF Covered
    <3> QED BY <1>6, <2>3, <2>5, <3>1, <3>2 DEF Covered
  <2> QED BY <2>4, <2>5
<1>7. CASE o.job # Comparison /\ o.key[1] # Day(now)'
  BY <1>7 DEF Covered
<1> QED BY <1>5, <1>6, <1>7

LEMMA OwedKeeps ==
  ASSUME Inv, Plain, Down, Timely, OwedInv, [Next]_vars PROVE OwedInv'
<1>1. Rival'
  BY RivalStep DEF OwedInv
<1>2. \A o \in owed' : OweType(o)'
  BY OweTypeStep DEF OwedInv
<1>3. ASSUME running', NEW o \in owed' PROVE Covered(o)'
  <2>0. /\ Rival /\ OweType(o)' /\ (o \in owed => OweType(o))
        /\ (running /\ o \in owed => Covered(o))
    BY <1>2 DEF OwedInv
  <2>1. CASE Start
    <3>1. node = "down" /\ eodChecked' = None /\ owed' = owed
      BY <2>1 DEF Start
    <3>2. o.job = Eod
      BY <3>1 DEF Down
    <3>3. eodChecked' # Day(now)'
      BY <3>1, DayGrows, SchedulerAssumption
    <3>4. WillStart(o)'
      BY <3>2, <3>3 DEF WillStart
    <3> QED BY <3>2, <3>4, SchedulerAssumption DEF Covered
  <2>2. ASSUME NEW c \in queue, Dispatch(c) PROVE Covered(o)'
    <3>1. running /\ o \in owed
      BY <1>3, <2>2 DEF Dispatch
    <3> QED BY <2>0, <2>2, <3>1, DispatchCovers
  <2>3. CASE Tick \/ ResumeTick
    <3>1. running /\ o \in owed
      BY <1>3, <2>3 DEF Tick, ResumeTick
    <3> QED BY <2>0, <2>3, <3>1, TickCovers
  <2>4. CASE SettleBusyComparison
    <3>1. /\ running /\ o \in owed /\ queue = {} /\ queue' = {} /\ busy' = busy \ {Comparison} /\ cmpTimer' = TRUE /\ now' = now
          /\ UNCHANGED <<outcomesAfter, eodAfter, eodChecked, dispatched, retryTimers>>
      BY <1>3, <2>4 DEF SettleBusyComparison, worldVars, jobVars, followVars
    <3>2. Day(now)' = Day(now)
      BY <3>1 DEF Day
    <3>3. o.job = Comparison => WillStart(o)'
      BY <3>1 DEF WillStart
    <3>4. o.job = Eod => (WillStart(o) => WillStart(o)')
      BY <3>1, <3>2, SchedulerAssumption DEF WillStart
    <3>5. \A k \in DispatchKeys : Asks(o.job, k) => Asks(o.job, k)'
      BY <3>1 DEF Asks
    <3>6. StillAsked(o) => StillAsked(o)'
      BY <3>1, <3>5, AskedKeeps
    <3> QED BY <2>0, <3>1, <3>3, <3>4, <3>6, CoveredKeeps
  <2>5. CASE ComparisonRetryFires
    <3>1. /\ running /\ o \in owed /\ queue = {} /\ busy = {} /\ busy' = {} /\ now' = now
          /\ UNCHANGED <<outcomesAfter, eodAfter, eodChecked, dispatched, retryTimers>>
          /\ (cmpPending' /\ cmpInFlight') \/ queue' = {ComparisonCall}
      BY <1>3, <2>5 DEF ComparisonRetryFires, TriggerComparison, Idle, worldVars, jobVars, followVars
    <3>2. Day(now)' = Day(now) /\ ComparisonCall.job = Comparison
      BY <3>1 DEF Day, ComparisonCall, Call
    <3>3. o.job = Comparison => WillStart(o)'
      BY <3>1, <3>2 DEF WillStart
    <3>4. o.job = Eod => (WillStart(o) => WillStart(o)')
      BY <3>1, <3>2, SchedulerAssumption DEF WillStart
    <3>5. \A k \in DispatchKeys : Asks(o.job, k) => Asks(o.job, k)'
      BY <3>1 DEF Asks
    <3>6. StillAsked(o) => StillAsked(o)'
      BY <3>1, <3>5, AskedKeeps
    <3> QED BY <2>0, <3>1, <3>3, <3>4, <3>6, CoveredKeeps
  <2>6. CASE Stop \/ ExitServer \/ CrashServer
    BY <1>3, <2>6 DEF Stop, ExitServer, CrashServer, Gone
  <2>7. CASE AdvanceTime
    <3>1. running /\ o \in owed
      BY <1>3, <2>7 DEF AdvanceTime
    <3> QED BY <2>0, <2>7, <3>1, TimeCovers
  <2>8. ASSUME NEW j \in Jobs, SettleBusy(j) PROVE Covered(o)'
    <3>1. running
      BY <1>3, <2>8 DEF SettleBusy
    <3> QED BY <2>0, <2>8, <3>1, SettleBusyCovers
  <2>9. ASSUME NEW j \in Jobs, RetryFires(j) PROVE Covered(o)'
    <3>1. running /\ o \in owed
      BY <1>3, <2>9 DEF RetryFires
    <3> QED BY <2>0, <2>9, <3>1, RetryCovers
  <2>10. ASSUME NEW i \in Ids, ChildCloses(i) \/ HardFinish(i) PROVE Covered(o)'
    <3>1. PICK succeeded \in BOOLEAN, survives \in BOOLEAN : Finish(i, succeeded, survives)
      BY <2>10 DEF ChildCloses, HardFinish, Succeeded
    <3>2. Idle /\ Pending(i)
      BY <2>10 DEF ChildCloses, HardFinish, CanClose, CanHardFinish, Pending
    <3>3. running
      BY <1>3, <3>1 DEF Finish
    <3>4. OwedClose(o) \/ o \in owed
      <4>1. ~OwedBusy(o)
        BY <3>2 DEF OwedBusy, SettleBusy, Idle
      <4> QED BY <4>1, OwedStep
    <3> QED BY <2>0, <3>1, <3>2, <3>3, <3>4, FinishCovers
  <2>11. CASE UNCHANGED vars \/ \E i \in Ids : RunSteps(i)
    <3>1. /\ UNCHANGED <<now, outcomesAfter, eodAfter, eodChecked, cmpPending, cmpInFlight, cmpTimer>>
          /\ UNCHANGED <<queue, busy, dispatched, retryTimers, owed, running>>
      BY <2>11 DEF vars, RunSteps, worldVars, jobVars, followVars, cmpVars
    <3>2. \A k \in DispatchKeys : Asks(o.job, k) => Asks(o.job, k)'
      BY <3>1 DEF Asks
    <3> QED BY <1>3, <2>0, <3>1, <3>2, CoveredStays
  <2> QED BY <2>1, <2>2, <2>3, <2>4, <2>5, <2>6, <2>7, <2>8, <2>9, <2>10, <2>11 DEF Next, DispatchNext
<1> QED BY <1>1, <1>2, <1>3 DEF OwedInv

LEMMA OwedInit == Init => OwedInv
BY DEF Init, OwedInv, Rival

LEMMA OwedRemembered == ASSUME Inv, OwedInv PROVE NothingForgotten
<1> SUFFICES ASSUME running, NEW o \in owed, ~Lapsed(o) PROVE WillStart(o)
  BY DEF NothingForgotten
<1>1. Covered(o) /\ o.job \in Jobs
  BY TypeParts, CallParts DEF OwedInv, Inv, SchedulerType
<1>2. CASE o.job = Comparison
  BY <1>1, <1>2 DEF Covered
<1>3. CASE o.job # Comparison
  <2>1. WithinWindow(o.job, o.key)
    BY <1>3 DEF Lapsed
  <2>2. o.key[1] = Day(now) /\ ~(o.key[2] # AfterClose /\ Point(now) \notin RetryWindow[o.job])
    BY <2>1 DEF WithinWindow
  <2>3. CASE o.job = Eod
    BY <1>1, <1>3, <2>2, <2>3 DEF Covered
  <2>4. CASE StillAsked(o)
    <3>1. CASE o.job = Outcomes /\ outcomesAfter = Day(now)
      BY <3>1 DEF WillStart
    <3>2. ASSUME NEW k \in DispatchKeys, Asks(o.job, k) PROVE WillStart(o)
      <4>1. Call(o.job, k).job = o.job /\ k # None
        BY KeysAssumption DEF Call
      <4> QED BY <3>2, <4>1 DEF Asks, WillStart
    <3> QED BY <2>4, <3>1, <3>2 DEF StillAsked
  <2> QED BY <1>1, <1>3, <2>2, <2>3, <2>4 DEF Covered
<1> QED BY <1>2, <1>3

\* A follow-up of a close, a team-eod of a handed-off day and a job that found its
\* slot taken are not forgotten while the scheduler runs and the window is open,
\* across ticks that wait, timers, restarts and days (dispatch, tick,
\* scheduleResearchRetry, triggerComparison).
THEOREM FollowUpsRemembered == Spec => []NothingForgotten
<1>1. Init => KeysInv /\ OwedInv
  BY InitInv, KeysInit, OnceInit, ReadyInit, OwedInit DEF KeysInv
<1>2. KeysInv /\ OwedInv /\ [Next]_vars => (KeysInv /\ OwedInv)'
  BY NextInv, PlainStep, DownStep, TimelyStep, OnceStep, ReadyKeeps, OwedKeeps DEF KeysInv, OnceType
<1>3. KeysInv /\ OwedInv => NothingForgotten
  BY OwedRemembered DEF KeysInv
<1> QED BY <1>1, <1>2, <1>3, PTL DEF Spec
=============================================================================
