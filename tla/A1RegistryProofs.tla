-------------------------- MODULE A1RegistryProofs --------------------------
(***************************************************************************)
(* Safety of the A1 registry, for any set of processes and any length of   *)
(* time, in three layers:                                                  *)
(*                                                                         *)
(*   Types      every variable has its type;                               *)
(*   Lines      the generations that were ever active form one line: each  *)
(*              one was derived from another of them, no two from the same *)
(*              one, and none from the active one, so that the pointer     *)
(*              never comes back to a value it had;                        *)
(*   Days       a build is never of an earlier session than its basis, and *)
(*              a close that was told its pool is of the day finds one     *)
(*              that is not older.                                         *)
(*                                                                         *)
(* Lines gives the refinement of GenerationLineage: comparing the pointer  *)
(* first and last is enough for a study because the pointer never returns. *)
(***************************************************************************)
EXTENDS A1Registry, TLAPS

\* Every reachable state has its type (all of A1Registry).
THEOREM TypeCorrect == Spec => []TypeOK
<1>1. Init => TypeOK
  BY RegistryAssumption DEF Init, TypeOK, PCs, Processes, Builds
<1>2. TypeOK /\ [Next]_vars => TypeOK'
  <2> SUFFICES ASSUME TypeOK, [Next]_vars PROVE TypeOK'
    OBVIOUS
  <2> USE RegistryAssumption DEF TypeOK, PCs, Goto, registry, Processes, Builds
  <2>1. CASE UNCHANGED vars
    BY <2>1 DEF vars
  <2>2. CASE Tick
    BY <2>2 DEF Tick
  <2>3. ASSUME NEW w \in Weekly, StartWeekly(w) PROVE TypeOK'
    BY <2>3 DEF StartWeekly
  <2>4. ASSUME NEW w \in Weekly \cup Closes, ReadActive(w) PROVE TypeOK'
    BY <2>4 DEF ReadActive
  <2>5. ASSUME NEW u \in Updates, StartUpdate(u) PROVE TypeOK'
    BY <2>5 DEF StartUpdate
  <2>6. ASSUME NEW g \in Builds, Create(g) PROVE TypeOK'
    <3>1. PICK t \in CaptureTimes(g) : asOf' = [asOf EXCEPT ![g] = t]
      BY <2>6 DEF Create
    <3>2. t \in 0..MaxNow
      BY <3>1 DEF CaptureTimes
    <3> QED BY <2>6, <3>1, <3>2 DEF Create
  <2>7. ASSUME NEW g \in Builds,
               Seal(g) \/ Activate(g) \/ ReportPublished(g) \/ Raise(g) \/ RecordFailure(g)
        PROVE TypeOK'
    <3>1. CASE Seal(g)
      BY <3>1 DEF Seal
    <3>2. CASE Activate(g)
      BY <3>2 DEF Activate
    <3>3. CASE ReportPublished(g)
      BY <3>3 DEF ReportPublished
    <3>4. CASE Raise(g)
      BY <3>4 DEF Raise
    <3>5. CASE RecordFailure(g)
      BY <3>5 DEF RecordFailure
    <3> QED BY <2>7, <3>1, <3>2, <3>3, <3>4, <3>5
  <2>8. ASSUME NEW c \in Closes,
               StartClose(c) \/ EnsureDaily(c) \/ Refresh(c) \/ VerifyRefresh(c) \/ Consume(c)
        PROVE TypeOK'
    <3>1. CASE StartClose(c)
      BY <3>1 DEF StartClose
    <3>2. CASE EnsureDaily(c)
      BY <3>2 DEF EnsureDaily
    <3>3. CASE Refresh(c)
      BY <3>3 DEF Refresh
    <3>4. CASE VerifyRefresh(c)
      BY <3>4 DEF VerifyRefresh
    <3>5. CASE Consume(c)
      BY <3>5 DEF Consume
    <3> QED BY <2>8, <3>1, <3>2, <3>3, <3>4, <3>5
  <2>9. ASSUME NEW s \in Studies, Bind(s) \/ Report(s) \/ StudyFails(s) PROVE TypeOK'
    <3>1. CASE Bind(s)
      BY <3>1 DEF Bind
    <3>2. CASE Report(s)
      BY <3>2 DEF Report
    <3>3. CASE StudyFails(s)
      BY <3>3 DEF StudyFails
    <3> QED BY <2>9, <3>1, <3>2, <3>3
  <2> QED BY <2>1, <2>2, <2>3, <2>4, <2>5, <2>6, <2>7, <2>8, <2>9 DEF Next
<1> QED BY <1>1, <1>2, PTL DEF Spec

-----------------------------------------------------------------------------
\* Where a process is once its generation was active.
After == {"activated", "published", "failing", "failed", "refreshed", "consume", "consumed", "blocked"}

Lines ==
    /\ pointer.id = None => published = {}
    /\ pointer.id # None => pointer.id \in published
    /\ \A g \in published : pc[g] \in After /\ status[g] = "SEALED" /\ base[g] # pointer.id
    /\ \A p \in Processes : base[p] \in published \cup {None}
    /\ Unforked

\* A step that moves no pointer, no basis and no status keeps the line.
LEMMA LinesKept ==
    ASSUME TypeOK, Lines, UNCHANGED <<status, pointer, published, base>>,
           \A g \in published : pc'[g] \in After
    PROVE  Lines'
  BY DEF Lines, Unforked, TypeOK

LEMMA LinesStep == TypeOK /\ Lines /\ [Next]_vars => Lines'
<1> SUFFICES ASSUME TypeOK, Lines, [Next]_vars PROVE Lines'
  OBVIOUS
<1> USE RegistryAssumption DEF TypeOK, Goto, registry, Processes, Builds
<1>1. CASE UNCHANGED vars
  BY <1>1, LinesKept DEF vars, Lines
<1>2. CASE Tick
  BY <1>2, LinesKept DEF Tick, Lines
<1>3. ASSUME NEW w \in Weekly, StartWeekly(w) PROVE Lines'
  BY <1>3, LinesKept DEF StartWeekly, Lines, After
\* Whoever reads the pointer takes a member of the line, and was not active.
<1>4. ASSUME NEW p \in Processes, pc[p] \in {"start", "idle"}, base' = [base EXCEPT ![p] = pointer.id],
             UNCHANGED <<status, pointer, published>>, \A q \in Processes \ {p} : pc'[q] = pc[q]
      PROVE  Lines'
  <2>1. p \notin published
    BY <1>4 DEF Lines, After
  <2> QED BY <1>4, <2>1 DEF Lines, Unforked
<1>5. ASSUME NEW w \in Weekly \cup Closes, ReadActive(w) PROVE Lines'
  BY <1>5, <1>4 DEF ReadActive
<1>6. ASSUME NEW u \in Updates, StartUpdate(u) PROVE Lines'
  BY <1>6, <1>4 DEF StartUpdate
<1>7. ASSUME NEW g \in Builds, Create(g) \/ Seal(g) PROVE Lines'
  <2>1. g \notin published
    BY <1>7 DEF Create, Seal, Lines, After
  <2> QED BY <1>7, <2>1 DEF Create, Seal, Lines, Unforked
<1>8. ASSUME NEW g \in Builds, Activate(g) PROVE Lines'
  <2>1. g \notin published /\ g # None /\ base[g] = pointer.id
    BY <1>8 DEF Activate, SwapExpected, Lines, After
  <2>2. published' = published \cup {g} /\ pointer'.id = g /\ base' = base /\ status' = status
    BY <1>8 DEF Activate
  <2>3. \A h \in published' : pc'[h] \in After /\ status'[h] = "SEALED" /\ base'[h] # pointer'.id
    BY <1>8, <2>1, <2>2 DEF Activate, Lines, After
  <2>4. Unforked'
    BY <2>1, <2>2 DEF Lines, Unforked
  <2> QED BY <2>1, <2>2, <2>3, <2>4 DEF Lines
<1>9. ASSUME NEW g \in Builds, ReportPublished(g) \/ Raise(g) PROVE Lines'
  BY <1>9, LinesKept DEF ReportPublished, Raise, Lines, After
\* The failure that is recorded after the swap does not touch the sealed row.
<1>10. ASSUME NEW g \in Builds, RecordFailure(g) PROVE Lines'
  BY <1>10 DEF RecordFailure, Lines, Unforked, After
<1>11. ASSUME NEW c \in Closes,
              StartClose(c) \/ EnsureDaily(c) \/ Refresh(c) \/ VerifyRefresh(c) \/ Consume(c)
       PROVE Lines'
  <2>1. \A g \in published : pc'[g] \in After
    <3>1. CASE StartClose(c)
      BY <3>1 DEF StartClose, Lines, After
    <3>2. CASE EnsureDaily(c)
      BY <3>2 DEF EnsureDaily, Lines, After
    <3>3. CASE Refresh(c)
      BY <3>3 DEF Refresh, Lines, After
    <3>4. CASE VerifyRefresh(c)
      BY <3>4 DEF VerifyRefresh, Lines, After
    <3>5. CASE Consume(c)
      <4>1. pc' = [pc EXCEPT ![c] = "consumed"] \/ pc' = [pc EXCEPT ![c] = "blocked"]
        BY <3>5 DEF Consume
      <4>2. UNCHANGED published
        BY <3>5 DEF Consume
      <4> QED BY <4>1, <4>2 DEF Lines, After
    <3> QED BY <1>11, <3>1, <3>2, <3>3, <3>4, <3>5
  <2> QED BY <1>11, <2>1, LinesKept DEF StartClose, EnsureDaily, Refresh, VerifyRefresh, Consume
<1>12. ASSUME NEW s \in Studies, Bind(s) PROVE Lines'
  BY <1>12, <1>4 DEF Bind
<1>13. ASSUME NEW s \in Studies, Report(s) \/ StudyFails(s) PROVE Lines'
  BY <1>13, LinesKept DEF Report, StudyFails, Lines, After
<1> QED BY <1>1, <1>2, <1>3, <1>5, <1>6, <1>7, <1>8, <1>9, <1>10, <1>11, <1>12, <1>13 DEF Next

LEMMA InitLines == Init => Lines
  BY DEF Init, Lines, Unforked, Processes, Builds

\* Every generation that was ever active stays sealed (fail_generation).
THEOREM SealedForever == Spec => []ActiveSealed
<1>1. TypeOK /\ Lines => ActiveSealed
  BY DEF Lines, ActiveSealed
<1> QED BY <1>1, InitLines, LinesStep, TypeCorrect, PTL DEF Spec

\* No two active generations had the same basis (activate_generation).
THEOREM OneLine == Spec => []Unforked
<1>1. Lines => Unforked
  BY DEF Lines
<1> QED BY <1>1, InitLines, LinesStep, TypeCorrect, PTL DEF Spec

\* The generations that were ever active form one line of sealed generations.
THEOREM LineOfSealed == Spec => []ActiveLine
BY SealedForever, OneLine, PTL DEF ActiveLine

-----------------------------------------------------------------------------
Later(g, h) == SourceDay(asOf[g]) <= SourceDay(asOf[h])

Days ==
    /\ \A g \in Builds : current[g] <= now /\ asOf[g] <= now
    /\ \A u \in Builds \ Closes : (pc[u] = "prepare" /\ base[u] # None) =>
           SourceDay(asOf[base[u]]) <= SourceDay(current[u])
    /\ \A g \in Builds : (pc[g] \in {"build", "sealed"} /\ base[g] # None) => Later(base[g], g)
    /\ \A c \in Closes : pc[c] \notin {"idle", "ensure"} => runAt[c] <= ensured[c]
    /\ \A c \in Closes : runAt[c] <= now /\ ensured[c] <= now
    /\ \A c \in Closes : pc[c] = "consume" =>
           pointer.id # None /\ SourceDay(ensured[c]) <= SourceDay(asOf[pointer.id])
    /\ \A c \in Closes : used[c] # None => pc[c] = "consumed" /\ used[c] \in published

\* The sessions of two instants are in the order of the instants.
LEMMA SessionOrder ==
    ASSUME NEW t \in 0..MaxNow, NEW u \in 0..MaxNow, t <= u
    PROVE  SourceDay(t) \in Int /\ SourceDay(u) \in Int /\ SourceDay(t) <= SourceDay(u)
  BY RegistryAssumption

\* The activated generation is not of an earlier session than the one it replaces.
LEMMA Forward ==
    ASSUME TypeOK, Days, NEW g \in Builds, Activate(g), pointer.id # None
    PROVE  Later(pointer.id, g)
  BY DEF Activate, SwapExpected, Days, TypeOK

LEMMA InitDays == Init => Days /\ CloseUsesItsDay
  BY RegistryAssumption DEF Init, Days, CloseUsesItsDay, Processes, Builds

LEMMA DaysStep == TypeOK /\ Lines /\ Days /\ [Next]_vars => Days'
<1> SUFFICES ASSUME TypeOK, Lines, Days, [Next]_vars PROVE Days'
  OBVIOUS
<1> USE RegistryAssumption DEF Goto, registry, Processes, Builds
<1>0. /\ now \in 0..MaxNow /\ pc \in [Processes -> PCs]
      /\ runAt \in [Closes -> 0..MaxNow] /\ ensured \in [Closes -> 0..MaxNow] /\ current \in [Builds -> 0..MaxNow]
      /\ base \in [Processes -> Builds \cup {None}] /\ asOf \in [Builds -> 0..MaxNow]
      /\ pointer.id \in Builds \cup {None} /\ published \subseteq Builds
      /\ used \in [Closes -> Builds \cup {None}]
  BY DEF TypeOK
<1>1. CASE UNCHANGED vars
  BY <1>0, <1>1 DEF vars, Days, Later
<1>2. CASE Tick
  BY <1>0, <1>2 DEF Tick, Days, Later
<1>3. ASSUME NEW w \in Weekly, StartWeekly(w) PROVE Days'
  BY <1>0, <1>3 DEF StartWeekly, Days, Later
<1>4. ASSUME NEW w \in Weekly \cup Closes, ReadActive(w) PROVE Days'
  <2>1. pointer.id # None => SourceDay(asOf[pointer.id]) <= SourceDay(now)
    BY <1>0, SessionOrder DEF Days
  <2> QED BY <1>0, <1>4, <2>1 DEF ReadActive, Days, Later
<1>5. ASSUME NEW u \in Updates, StartUpdate(u) PROVE Days'
  <2>1. PICK seed \in {t \in 0..now : SourceDay(t) = SourceDay(now)} : current' = [current EXCEPT ![u] = seed]
    BY <1>5 DEF StartUpdate
  <2>2. SourceDay(asOf[pointer.id]) <= SourceDay(seed)
    BY <1>0, <1>5, <2>1, SessionOrder DEF StartUpdate, Days
  <2> QED BY <1>0, <1>5, <2>1, <2>2 DEF StartUpdate, Days, Later
<1>6. ASSUME NEW g \in Builds, Create(g) PROVE Days'
  <2>1. PICK t \in CaptureTimes(g) : asOf' = [asOf EXCEPT ![g] = t]
    BY <1>6 DEF Create
  <2>2. t \in 0..MaxNow /\ t <= now
    BY <1>0, <2>1 DEF CaptureTimes, Days
  <2>3. g \notin published /\ base[g] \in published \cup {None} /\ pointer.id \in published \cup {None}
    BY <1>0, <1>6 DEF Create, Lines, After
  <2>4. base[g] # None => SourceDay(asOf[base[g]]) <= SourceDay(t)
    <3>1. CASE g \in Closes
      <4>1. SourceDay(now) = SourceDay(current[g]) /\ current[g] <= t
        BY <1>0, <2>1, <3>1 DEF CaptureTimes
      <4>2. SourceDay(current[g]) <= SourceDay(t) /\ SourceDay(t) <= SourceDay(now)
        BY <1>0, <2>2, <4>1, SessionOrder
      <4>3. base[g] # None => SourceDay(asOf[base[g]]) <= SourceDay(now)
        BY <1>0, <2>3, SessionOrder DEF Days
      <4> QED BY <1>0, <2>2, <2>3, <4>1, <4>2, <4>3, SessionOrder
    <3>2. CASE g \notin Closes
      BY <1>0, <1>6, <2>1, <3>2 DEF CaptureTimes, Create, Days
    <3> QED BY <3>1, <3>2
  <2>5. \A h \in published : asOf'[h] = asOf[h]
    BY <1>0, <2>1, <2>3
  <2>6. pc' = [pc EXCEPT ![g] = "build"] /\ UNCHANGED <<now, runAt, ensured, current, base, pointer, used, published>>
    BY <1>6 DEF Create
  <2>7. \A h \in Builds : (pc'[h] \in {"build", "sealed"} /\ base'[h] # None) => Later(base[h], h)'
    <3>1. \A h \in Builds : base[h] # None => asOf'[base[h]] = asOf[base[h]]
      BY <1>0, <2>5 DEF Lines
    <3> QED BY <1>0, <2>1, <2>4, <2>6, <3>1 DEF Days, Later
  <2>8. \A u \in Builds \ Closes : (pc'[u] = "prepare" /\ base'[u] # None) =>
          SourceDay(asOf'[base'[u]]) <= SourceDay(current'[u])
    <3>1. \A h \in Builds : base[h] # None => asOf'[base[h]] = asOf[base[h]]
      BY <1>0, <2>5 DEF Lines
    <3> QED BY <1>0, <2>6, <3>1 DEF Days
  <2>9. \A h \in Builds : current'[h] <= now' /\ asOf'[h] <= now'
    BY <1>0, <2>1, <2>2, <2>6 DEF Days
  <2>10. \A c \in Closes : pc'[c] = "consume" =>
           pointer'.id # None /\ SourceDay(ensured'[c]) <= SourceDay(asOf'[pointer'.id])
    BY <1>0, <2>3, <2>5, <2>6 DEF Days
  <2>11. pc[g] = "prepare"
    BY <1>6 DEF Create
  <2>12. \A c \in Closes : pc'[c] \notin {"idle", "ensure"} => runAt'[c] <= ensured'[c]
    BY <1>0, <2>6, <2>11 DEF Days
  <2>13. \A c \in Closes : used'[c] # None => pc'[c] = "consumed" /\ used'[c] \in published'
    BY <1>0, <2>6, <2>11 DEF Days
  <2>14. \A c \in Closes : runAt'[c] <= now' /\ ensured'[c] <= now'
    BY <1>0, <2>6 DEF Days
  <2> QED BY <2>7, <2>8, <2>9, <2>10, <2>12, <2>13, <2>14 DEF Days
<1>7. ASSUME NEW g \in Builds, Seal(g) PROVE Days'
  BY <1>0, <1>7 DEF Seal, Days, Later
<1>8. ASSUME NEW g \in Builds, Activate(g) PROVE Days'
  <2>1. pointer.id # None => SourceDay(asOf[pointer.id]) <= SourceDay(asOf[g])
    BY <1>8, Forward DEF Later
  <2>2. g # None /\ \A t \in 0..MaxNow : SourceDay(t) \in Int
    OBVIOUS
  <2>3. pointer'.id = g /\ published' = published \cup {g} /\ pc' = [pc EXCEPT ![g] = "activated"]
        /\ UNCHANGED <<now, runAt, ensured, current, base, asOf, used>>
    BY <1>8 DEF Activate
  <2>4. \A c \in Closes : pc'[c] = "consume" =>
           pointer'.id # None /\ SourceDay(ensured'[c]) <= SourceDay(asOf'[pointer'.id])
    BY <1>0, <2>1, <2>2, <2>3 DEF Days
  <2> QED BY <1>0, <1>8, <2>3, <2>4 DEF Activate, Days, Later
<1>9. ASSUME NEW g \in Builds, ReportPublished(g) \/ Raise(g) \/ RecordFailure(g) PROVE Days'
  <2>1. CASE ReportPublished(g)
    BY <1>0, <2>1 DEF ReportPublished, Days, Later
  <2>2. CASE Raise(g)
    BY <1>0, <2>2 DEF Raise, Days, Later
  <2>3. CASE RecordFailure(g)
    BY <1>0, <2>3 DEF RecordFailure, Days, Later
  <2> QED BY <1>9, <2>1, <2>2, <2>3
<1>10. ASSUME NEW c \in Closes, StartClose(c) PROVE Days'
  BY <1>0, <1>10 DEF StartClose, Days, Later
<1>11. ASSUME NEW c \in Closes, EnsureDaily(c) PROVE Days'
  BY <1>0, <1>11 DEF EnsureDaily, IsDaily, Days, Later
<1>12. ASSUME NEW c \in Closes, Refresh(c) PROVE Days'
  BY <1>0, <1>12 DEF Refresh, Days, Later
<1>13. ASSUME NEW c \in Closes, VerifyRefresh(c) PROVE Days'
  BY <1>0, <1>13 DEF VerifyRefresh, IsDaily, Days, Later
<1>14. ASSUME NEW c \in Closes, Consume(c) PROVE Days'
  BY <1>0, <1>14 DEF Consume, Days, Later, Lines
<1>15. ASSUME NEW s \in Studies, Bind(s) \/ Report(s) \/ StudyFails(s) PROVE Days'
  <2>1. CASE Bind(s)
    BY <1>0, <2>1 DEF Bind, Days, Later
  <2>2. CASE Report(s)
    BY <1>0, <2>2 DEF Report, Days, Later
  <2>3. CASE StudyFails(s)
    BY <1>0, <2>3 DEF StudyFails, Days, Later
  <2> QED BY <1>15, <2>1, <2>2, <2>3
<1> QED BY <1>1, <1>2, <1>3, <1>4, <1>5, <1>6, <1>7, <1>8, <1>9, <1>10, <1>11, <1>12, <1>13, <1>14, <1>15 DEF Next

\* Which parts of the state a step of whom can change.
LEMMA WhoWrites ==
    ASSUME TypeOK, [Next]_vars
    PROVE  /\ \/ UNCHANGED <<pointer, published>>
              \/ \E g \in Builds : Activate(g)
           /\ \/ asOf' = asOf
              \/ \E g \in Builds : pc[g] = "prepare" /\ \E t \in Nat : asOf' = [asOf EXCEPT ![g] = t]
           /\ \/ UNCHANGED <<runAt, used>>
              \/ \E c \in Closes : StartClose(c) \/ Consume(c)
<1> USE DEF registry
<1>1. CASE UNCHANGED vars
  BY <1>1 DEF vars
<1>2. CASE Tick
  BY <1>2 DEF Tick
<1>3. ASSUME NEW w \in Weekly \cup Closes, StartWeekly(w) \/ ReadActive(w) PROVE UNCHANGED <<runAt, used, asOf, pointer, published>>
  BY <1>3 DEF StartWeekly, ReadActive
<1>4. ASSUME NEW u \in Updates, StartUpdate(u) PROVE UNCHANGED <<runAt, used, asOf, pointer, published>>
  BY <1>4 DEF StartUpdate
<1>5. ASSUME NEW g \in Builds, Create(g)
      PROVE  /\ UNCHANGED <<runAt, used, pointer, published>>
             /\ pc[g] = "prepare" /\ \E t \in Nat : asOf' = [asOf EXCEPT ![g] = t]
  <2>1. PICK t \in CaptureTimes(g) : asOf' = [asOf EXCEPT ![g] = t]
    BY <1>5 DEF Create
  <2>2. t \in Nat
    BY <2>1, RegistryAssumption DEF CaptureTimes, TypeOK
  <2> QED BY <1>5, <2>1, <2>2 DEF Create
<1>6. ASSUME NEW g \in Builds, Activate(g) PROVE UNCHANGED <<runAt, used, asOf>>
  BY <1>6 DEF Activate
<1>7. ASSUME NEW g \in Builds, Seal(g) \/ ReportPublished(g) \/ Raise(g) \/ RecordFailure(g)
      PROVE  UNCHANGED <<runAt, used, asOf, pointer, published>>
  BY <1>7 DEF Seal, ReportPublished, Raise, RecordFailure
<1>8. ASSUME NEW c \in Closes, EnsureDaily(c) \/ Refresh(c) \/ VerifyRefresh(c)
      PROVE  UNCHANGED <<runAt, used, asOf, pointer, published>>
  BY <1>8 DEF EnsureDaily, Refresh, VerifyRefresh
<1>9. ASSUME NEW c \in Closes, StartClose(c) \/ Consume(c) PROVE UNCHANGED <<asOf, pointer, published>>
  BY <1>9 DEF StartClose, Consume
<1>10. ASSUME NEW s \in Studies, Bind(s) \/ Report(s) \/ StudyFails(s)
       PROVE  UNCHANGED <<runAt, used, asOf, pointer, published>>
  BY <1>10 DEF Bind, Report, StudyFails
<1> QED BY <1>1, <1>2, <1>3, <1>4, <1>5, <1>6, <1>7, <1>8, <1>9, <1>10 DEF Next

\* What was active keeps its time: only a generation that never was active is created.
LEMMA TimesKept ==
    ASSUME TypeOK, Lines, [Next]_vars
    PROVE  \A h \in published : asOf'[h] = asOf[h]
<1>1. CASE asOf' = asOf
  BY <1>1
<1>2. ASSUME NEW g \in Builds, pc[g] = "prepare", NEW t \in Nat, asOf' = [asOf EXCEPT ![g] = t]
      PROVE  \A h \in published : asOf'[h] = asOf[h]
  BY <1>2 DEF TypeOK, Lines, After
<1> QED BY <1>1, <1>2, WhoWrites

\* A generation of an earlier session is never activated (activate_generation).
THEOREM Monotone == Spec => DayNeverBack
<1>1. ASSUME TypeOK, Lines, Days, [Next]_vars, pointer.id # None
      PROVE  SourceDay(asOf[pointer.id]) <= SourceDay(asOf'[pointer'.id])
  <2>1. ASSUME NEW g \in Builds, Activate(g)
        PROVE  SourceDay(asOf[pointer.id]) <= SourceDay(asOf'[pointer'.id])
    BY <1>1, <2>1, Forward DEF Activate, Later
  <2>2. CASE UNCHANGED <<pointer, published>>
    <3>1. asOf'[pointer'.id] = asOf[pointer.id] /\ asOf[pointer.id] \in 0..MaxNow
      BY <1>1, <2>2, TimesKept DEF Lines, TypeOK
    <3> QED BY <3>1, SessionOrder, RegistryAssumption
  <2> QED BY <1>1, <2>1, <2>2, WhoWrites
<1>2. TypeOK /\ Lines /\ Days /\ [Next]_vars =>
        [pointer.id # None => SourceDay(asOf[pointer.id]) <= SourceDay(asOf'[pointer'.id])]_vars
  BY <1>1
<1>3. Init => Days
  BY InitDays
<1> QED BY <1>2, <1>3, InitLines, LinesStep, DaysStep, TypeCorrect, PTL DEF Spec, DayNeverBack

LEMMA CloseStep == TypeOK /\ Lines /\ Days /\ CloseUsesItsDay /\ [Next]_vars => CloseUsesItsDay'
<1> SUFFICES ASSUME TypeOK, Lines, Days, CloseUsesItsDay, [Next]_vars PROVE CloseUsesItsDay'
  OBVIOUS
<1>1. CASE UNCHANGED <<runAt, used>>
  BY <1>1, TimesKept DEF Days, CloseUsesItsDay
<1>2. ASSUME NEW c \in Closes, StartClose(c) PROVE CloseUsesItsDay'
  <2>1. used' = used /\ used[c] = None /\ \A d \in Closes \ {c} : runAt'[d] = runAt[d]
    BY <1>2 DEF StartClose, Days, TypeOK
  <2> QED BY <2>1, TimesKept DEF Days, CloseUsesItsDay
<1>3. ASSUME NEW c \in Closes, Consume(c) PROVE CloseUsesItsDay'
  <2>1. runAt' = runAt /\ asOf' = asOf
    BY <1>3 DEF Consume, registry
  <2>2. CASE asOf[pointer.id] <= runAt[c] /\ used' = [used EXCEPT ![c] = pointer.id]
    <3>1. /\ runAt[c] \in 0..MaxNow /\ ensured[c] \in 0..MaxNow /\ asOf[pointer.id] \in 0..MaxNow
          /\ runAt[c] <= ensured[c] /\ SourceDay(ensured[c]) <= SourceDay(asOf[pointer.id])
      BY <1>3 DEF Consume, Days, TypeOK
    <3>2. /\ SourceDay(asOf[pointer.id]) <= SourceDay(runAt[c])
          /\ SourceDay(runAt[c]) <= SourceDay(ensured[c])
          /\ SourceDay(runAt[c]) \in Int /\ SourceDay(ensured[c]) \in Int /\ SourceDay(asOf[pointer.id]) \in Int
      BY <2>2, <3>1, SessionOrder
    <3>3. SourceDay(asOf[pointer.id]) = SourceDay(runAt[c])
      BY <3>1, <3>2
    <3> QED BY <2>1, <2>2, <3>3 DEF CloseUsesItsDay, TypeOK
  <2>3. CASE used' = used
    BY <2>1, <2>3 DEF CloseUsesItsDay
  <2> QED BY <1>3, <2>2, <2>3 DEF Consume
<1> QED BY <1>1, <1>2, <1>3, WhoWrites

\* A close consumes a generation of its session that is not of its future
\* (_ensure_daily_a1, run_research).
THEOREM CloseOfItsDay == Spec => []CloseUsesItsDay
BY InitDays, InitLines, LinesStep, DaysStep, CloseStep, TypeCorrect, PTL DEF Spec

-----------------------------------------------------------------------------
LEMMA LineageInit == Init => Lineage!Init
  BY RegistryAssumption DEF Init, Lineage!Init, Processes

Studying == {s \in Studies : pc[s] = "study" /\ base[s] = pointer.id}

\* A step of a build or a close that moves neither the pointer nor a basis is
\* nothing to the lineage.
LEMMA LineageStutter ==
    ASSUME UNCHANGED <<pointer, published, base>>, \A s \in Studies : pc'[s] = pc[s]
    PROVE  UNCHANGED Lineage!lineageVars
  BY DEF Lineage!lineageVars

LEMMA LineageStep == TypeOK /\ Lines /\ [Next]_vars => [Lineage!Next]_(Lineage!lineageVars)
<1> SUFFICES ASSUME TypeOK, Lines, [Next]_vars PROVE Lineage!Next \/ UNCHANGED Lineage!lineageVars
  OBVIOUS
<1> USE RegistryAssumption DEF Goto, registry, Processes
<1>0. pc \in [Processes -> PCs] /\ base \in [Processes -> Builds \cup {None}] /\ pointer.id \in Builds \cup {None}
  BY DEF TypeOK
<1>1. CASE UNCHANGED vars \/ Tick
  BY <1>1, LineageStutter DEF vars, Tick
<1>2. ASSUME NEW w \in Weekly, StartWeekly(w) PROVE UNCHANGED Lineage!lineageVars
  BY <1>0, <1>2, LineageStutter DEF StartWeekly, Builds
\* A process that reads the pointer takes the active generation as its basis.
<1>3. ASSUME NEW b \in Builds, pc[b] \in {"start", "idle"}, base' = [base EXCEPT ![b] = pointer.id],
             UNCHANGED <<pointer, published>>, \A s \in Studies : pc'[s] = pc[s]
      PROVE  Lineage!Begin(b)
  <2>1. b \notin published
    BY <1>3 DEF Lines, After
  <2>2. [g \in Builds |-> base[g]]' = [[g \in Builds |-> base[g]] EXCEPT ![b] = pointer.id]
    BY <1>0, <1>3
  <2>3. \A s \in Studies : base'[s] = base[s]
    BY <1>0, <1>3
  <2> QED BY <1>3, <2>1, <2>2, <2>3 DEF Lineage!Begin
<1>4. ASSUME NEW w \in Weekly \cup Closes, ReadActive(w) PROVE Lineage!Begin(w)
  <2>1. \A s \in Studies : pc'[s] = pc[s]
    BY <1>0, <1>4 DEF ReadActive, Builds
  <2> QED BY <1>3, <1>4, <2>1 DEF ReadActive, Builds
<1>5. ASSUME NEW u \in Updates, StartUpdate(u) PROVE Lineage!Begin(u)
  <2>1. \A s \in Studies : pc'[s] = pc[s]
    BY <1>0, <1>5 DEF StartUpdate, Builds
  <2> QED BY <1>3, <1>5, <2>1 DEF StartUpdate, Builds
<1>6. ASSUME NEW g \in Builds, Create(g) \/ Seal(g) \/ ReportPublished(g) \/ Raise(g) \/ RecordFailure(g)
      PROVE  UNCHANGED Lineage!lineageVars
  BY <1>0, <1>6, LineageStutter DEF Create, Seal, ReportPublished, Raise, RecordFailure
\* The new generation was never active, so that no study is bound to it.
<1>7. ASSUME NEW g \in Builds, Activate(g) PROVE Lineage!Publish(g)
  <2>1. g \notin published /\ base[g] = pointer.id
    BY <1>7 DEF Activate, SwapExpected, Lines, After
  <2>2. pointer'.id = g /\ published' = published \cup {g} /\ base' = base /\ \A s \in Studies : pc'[s] = pc[s]
    BY <1>0, <1>7 DEF Activate
  <2>3. \A s \in Studies : base[s] # g
    BY <2>1 DEF Lines
  <2> QED BY <2>1, <2>2, <2>3 DEF Lineage!Publish
<1>8. ASSUME NEW c \in Closes,
             StartClose(c) \/ EnsureDaily(c) \/ Refresh(c) \/ VerifyRefresh(c) \/ Consume(c)
      PROVE  UNCHANGED Lineage!lineageVars
  <2>1. UNCHANGED <<pointer, published, base>> /\ \E next : pc' = [pc EXCEPT ![c] = next]
    BY <1>8 DEF StartClose, EnsureDaily, Refresh, VerifyRefresh, Consume
  <2>2. \A s \in Studies : pc'[s] = pc[s]
    BY <1>0, <2>1 DEF Builds
  <2> QED BY <2>1, <2>2, LineageStutter
<1>9. ASSUME NEW s \in Studies, Bind(s) PROVE Lineage!Open(s)
  <2>1. /\ pc[s] = "idle" /\ pc' = [pc EXCEPT ![s] = "study"] /\ base' = [base EXCEPT ![s] = pointer.id]
        /\ UNCHANGED <<pointer, published>> /\ pointer.id \in Closes \cup Updates
    BY <1>9 DEF Bind
  <2>2. \A g \in Builds : base'[g] = base[g]
    BY <1>0, <2>1
  <2>3. Studying' = Studying \cup {s} /\ s \notin Studying
    BY <1>0, <2>1 DEF Studying
  <2>4. {r \in Studies : pc'[r] = "reported"} = {r \in Studies : pc[r] = "reported"}
        /\ s \notin {r \in Studies : pc[r] = "reported"}
    BY <1>0, <2>1
  <2> QED BY <2>1, <2>2, <2>3, <2>4 DEF Lineage!Open, Studying, Builds
<1>10. ASSUME NEW s \in Studies, Report(s) PROVE Lineage!Report(s)
  <2>1. pc[s] = "study" /\ base[s] = pointer.id /\ pc' = [pc EXCEPT ![s] = "reported"]
        /\ UNCHANGED <<pointer, published, base>>
    BY <1>10 DEF Report, StillBound
  <2>2. Studying' = Studying \ {s} /\ s \in Studying
    BY <1>0, <2>1 DEF Studying
  <2>3. {r \in Studies : pc'[r] = "reported"} = {r \in Studies : pc[r] = "reported"} \cup {s}
    BY <1>0, <2>1
  <2> QED BY <2>1, <2>2, <2>3 DEF Lineage!Report, Studying
<1>11. ASSUME NEW s \in Studies, StudyFails(s) PROVE Lineage!Close(s)
  <2>1. pc[s] = "study" /\ pc' = [pc EXCEPT ![s] = "failed"] /\ UNCHANGED <<pointer, published, base>>
    BY <1>11 DEF StudyFails
  <2>2. Studying' = Studying \ {s}
    BY <1>0, <2>1 DEF Studying
  <2>3. {r \in Studies : pc'[r] = "reported"} = {r \in Studies : pc[r] = "reported"}
    BY <1>0, <2>1
  <2> QED BY <2>1, <2>2, <2>3 DEF Lineage!Close, Studying
<1> QED
  BY <1>1, <1>2, <1>4, <1>5, <1>6, <1>7, <1>8, <1>9, <1>10, <1>11 DEF Next, Lineage!Next, Builds

\* The registry and its users implement GenerationLineage: a study that compares
\* the pointer first and last had its pool in force throughout
\* (activate_generation, require_active_generation).
THEOREM Implementation == Spec => Implements
BY LineageInit, LineageStep, InitLines, LinesStep, TypeCorrect, PTL DEF Spec, Implements, Lineage!Spec
=============================================================================
