----------------------- MODULE SignalSettlementProofs -----------------------
(***************************************************************************)
(* Safety of the settlement, for any plans, monitors, sessions and prices, *)
(* in layers, each of which uses the ones before it:                       *)
(*                                                                         *)
(*   Runs      a monitor works on signals that exist, and what it is about *)
(*             to commit is a quantity that the signal allows;             *)
(*   Lives     a lifecycle whose entry was filled is not dead, and a live  *)
(*             one still has something to sell;                            *)
(*   Money     the cash covers the open reservations, each of which is in  *)
(*             the hands of a run or left behind by an uncertain attempt;  *)
(*   Clocked   no run is left over from an earlier session, and an entry   *)
(*             is filled in the session of its plan;                       *)
(*   Books     the fills of a symbol, its position, its lots and the cash  *)
(*             agree, and so does what a run has read, when it commits;    *)
(*   Counted   what is left of the lifecycles of a symbol is the sum of    *)
(*             the fills that they have counted, and an uncounted fill is  *)
(*             of a quarantined symbol or of a plan without a lifecycle.   *)
(*                                                                         *)
(* Books and Counted are about sums over finite sets, whose facts come     *)
(* before them.                                                            *)
(***************************************************************************)
EXTENDS SignalSettlement, FiniteSetTheorems, WellFoundedInduction, TLAPS

Acts == EntryActs \cup ExitActs

\* The fields of a run at its step, and what is known of them.
ListingRun(m) ==
    /\ mon[m] = [pc |-> "list", bar |-> mon[m].bar, sym |-> mon[m].sym, todo |-> mon[m].todo]
    /\ mon[m].todo \subseteq signals

NoFillRun(m) ==
    /\ mon[m] = [pc |-> "nofill", bar |-> mon[m].bar, sym |-> mon[m].sym, todo |-> mon[m].todo, ev |-> mon[m].ev]
    /\ mon[m].todo \subseteq signals /\ mon[m].ev \in signals

FillShape(m) ==
       mon[m] = [pc |-> mon[m].pc, bar |-> mon[m].bar, sym |-> mon[m].sym, todo |-> mon[m].todo,
                 ev |-> mon[m].ev, qty |-> mon[m].qty, cash |-> mon[m].cash, seen |-> mon[m].seen,
                 fault |-> mon[m].fault]

FillRun(m) ==
    /\ mon[m].pc \in {"reserve", "commit", "release"} /\ FillShape(m)
    /\ mon[m].todo \subseteq signals /\ mon[m].ev \in signals
    /\ mon[m].qty \in Nat \ {0}
    /\ IsEntry(m) => mon[m].qty <= Qty
    /\ mon[m].pc # "commit" => IsEntry(m)

Run(m) == mon[m] = Idle \/ ListingRun(m) \/ NoFillRun(m) \/ FillRun(m)

Runs ==
    /\ mon = [m \in Monitors |-> mon[m]]
    /\ \A m \in Monitors : Run(m)
    /\ \A e \in signals : /\ e.plan \in Plans /\ e.act \in Acts
                          /\ e.act \in EntryActs => e.lim \in 1 .. Qty

\* The other runs are left alone.
LEMMA OtherRuns ==
  ASSUME Runs, NEW m \in Monitors, NEW x, mon' = [mon EXCEPT ![m] = x], signals' = signals, Run(m)'
  PROVE  Runs'
<1>1. \A n \in Monitors : n # m => mon'[n] = mon[n]
  BY DEF Runs
<1>2. \A n \in Monitors : Run(n)'
  BY <1>1 DEF Runs, Run, ListingRun, NoFillRun, FillRun, FillShape, IsEntry
<1>3. mon' = [n \in Monitors |-> mon'[n]]
  BY DEF Runs
<1> QED
  BY <1>2, <1>3 DEF Runs

\* A run that is not idle, by its step.
LEMMA RunSteps ==
  ASSUME Runs, NEW m \in Monitors
  PROVE  /\ mon[m].pc = "list" => ListingRun(m)
         /\ mon[m].pc = "nofill" => NoFillRun(m)
         /\ mon[m].pc \in {"reserve", "commit", "release"} => FillRun(m)
         /\ mon[m].pc \in Steps
         /\ mon[m] # Idle => mon[m].todo \subseteq signals
         /\ mon[m].pc \in {"nofill", "reserve", "commit", "release"} => mon[m].ev \in signals
<1>1. Run(m)
  BY DEF Runs
<1>2. mon[m] = Idle => mon[m].pc = "idle"
  BY DEF Idle
<1>3. ListingRun(m) => mon[m].pc = "list"
  BY DEF ListingRun
<1>4. NoFillRun(m) => mon[m].pc = "nofill"
  BY DEF NoFillRun
<1>5. FillRun(m) => mon[m].pc \in {"reserve", "commit", "release"}
  BY DEF FillRun
<1> QED
  BY <1>1, <1>2, <1>3, <1>4, <1>5 DEF Run, Steps, ListingRun, NoFillRun, FillRun

\* The run is done with a signal, or ends with a fault or a crash.
LEMMA DoneRuns ==
  ASSUME Runs, NEW m \in Monitors, mon[m] # Idle, NEW e, Done(m, e), signals' = signals
  PROVE  Runs' /\ mon'[m].pc \in {"idle", "list"} /\ \A n \in Monitors : n # m => mon'[n] = mon[n]
<1>1. mon[m].todo \subseteq signals
  BY RunSteps
<1>2. mon' = [mon EXCEPT ![m] = Listing(mon[m].bar, mon[m].sym, mon[m].todo \ {e})]
  BY DEF Done
<1>3. mon'[m] = Listing(mon[m].bar, mon[m].sym, mon[m].todo \ {e}) /\ \A n \in Monitors : n # m => mon'[n] = mon[n]
  BY <1>2 DEF Runs
<1>4. mon'[m].pc \in {"idle", "list"} /\ (mon'[m] = Idle \/ ListingRun(m)')
  BY <1>1, <1>3 DEF Listing, Idle, ListingRun
<1> QED
  <2>1. Run(m)' /\ mon'[m].pc \in {"idle", "list"}
    BY <1>3, <1>4 DEF Run
  <2>2. Runs'
    BY <1>2, <2>1, OtherRuns
  <2> QED
    BY <1>3, <2>1, <2>2

LEMMA EndRuns ==
  ASSUME Runs, NEW m \in Monitors, mon' = [mon EXCEPT ![m] = Idle], signals' = signals
  PROVE  Runs' /\ mon'[m].pc = "idle" /\ \A n \in Monitors : n # m => mon'[n] = mon[n]
<1>1. mon'[m] = Idle /\ \A n \in Monitors : n # m => mon'[n] = mon[n]
  BY DEF Runs
<1> QED
  <2>1. Run(m)' /\ mon'[m].pc = "idle"
    BY <1>1 DEF Run, Idle
  <2>2. Runs'
    BY <2>1, OtherRuns
  <2> QED
    BY <1>1, <2>1, <2>2

\* A new signal.
LEMMA MoreSignals ==
  ASSUME Runs, mon' = mon, NEW e, signals' = signals \cup {e},
         e.plan \in Plans, e.act \in Acts, e.act \in EntryActs => e.lim \in 1 .. Qty
  PROVE  Runs'
BY DEF Runs, Run, ListingRun, NoFillRun, FillRun, FillShape, IsEntry

\* What a signal does to the runs.
LEMMA SignalRuns ==
  ASSUME Runs, NEW p \in Plans,
         BuySignal(p) \/ AddSignal(p) \/ PlanInvalidated(p) \/ EntryWindowMissing(p)
         \/ \E a \in ExitActs : ExitSignal(p, a)
  PROVE  Runs' /\ mon' = mon /\ signals \subseteq signals'
<1>1. CASE BuySignal(p)
  <2>1. PICK w \in Windows, n \in 1 .. Qty :
           signals' = signals \cup {[act |-> "BUY", plan |-> p, at |-> clock, win |-> w, lim |-> n]}
    BY <1>1 DEF BuySignal
  <2> DEFINE e == [act |-> "BUY", plan |-> p, at |-> clock, win |-> w, lim |-> n]
  <2>2. e.plan \in Plans /\ e.act \in Acts /\ e.lim \in 1 .. Qty /\ signals' = signals \cup {e} /\ mon' = mon
    BY <1>1, <2>1 DEF BuySignal, Acts, EntryActs
  <2> HIDE DEF e
  <2> QED
    BY <2>2, MoreSignals
<1>2. CASE AddSignal(p)
  <2>1. PICK w \in Windows :
           signals' = signals \cup {[act |-> "ADD", plan |-> p, at |-> clock, win |-> w, lim |-> Qty]}
    BY <1>2 DEF AddSignal
  <2>2. Qty \in 1 .. Qty
    BY SettlementAssumption
  <2> DEFINE e == [act |-> "ADD", plan |-> p, at |-> clock, win |-> w, lim |-> Qty]
  <2>3. e.plan \in Plans /\ e.act \in Acts /\ e.lim \in 1 .. Qty /\ signals' = signals \cup {e} /\ mon' = mon
    BY <1>2, <2>1, <2>2 DEF AddSignal, Acts, EntryActs
  <2> HIDE DEF e
  <2> QED
    BY <2>3, MoreSignals
<1>3. CASE PlanInvalidated(p) \/ EntryWindowMissing(p)
  BY <1>3 DEF PlanInvalidated, EntryWindowMissing, Runs, Run, ListingRun, NoFillRun, FillRun, FillShape, IsEntry
<1>4. ASSUME NEW a \in ExitActs, ExitSignal(p, a) PROVE Runs' /\ mon' = mon /\ signals \subseteq signals'
  <2> DEFINE e == [act |-> a, plan |-> p, at |-> clock]
  <2>1. signals' = signals \cup {e} /\ mon' = mon
    BY <1>4 DEF ExitSignal
  <2>2. e.plan \in Plans /\ e.act \in Acts /\ e.act \notin EntryActs
    BY DEF Acts, EntryActs, ExitActs
  <2> HIDE DEF e
  <2> QED
    BY <2>1, <2>2, MoreSignals
<1> QED
  BY <1>1, <1>2, <1>3, <1>4

\* What a reading does: the run holds a signal of its list.
LEMMA ReadRuns ==
  ASSUME Runs, NEW m \in Monitors, NEW e, Working(m, e), signals' = signals, NEW l, NEW q,
         q \in Nat \ {0}, l \in {"reserve", "commit"},
         e.act \in EntryActs => q <= Qty, l # "commit" => e.act \in EntryActs,
         Snapshot(m, e, l, q)
  PROVE  Runs' /\ mon'[m].pc = l /\ \A n \in Monitors : n # m => mon'[n] = mon[n]
<1>1. e \in signals /\ mon[m].todo \subseteq signals
  BY RunSteps DEF Working, ListingRun
<1>2. mon' = [mon EXCEPT ![m] = [pc |-> l, bar |-> mon[m].bar, sym |-> mon[m].sym, todo |-> mon[m].todo, ev |-> e,
                                 qty |-> q, cash |-> cash, seen |-> pos[mon[m].sym], fault |-> FALSE]]
  BY DEF Snapshot
<1>3. mon'[m] = [pc |-> l, bar |-> mon[m].bar, sym |-> mon[m].sym, todo |-> mon[m].todo, ev |-> e,
                 qty |-> q, cash |-> cash, seen |-> pos[mon[m].sym], fault |-> FALSE]
      /\ \A n \in Monitors : n # m => mon'[n] = mon[n]
  BY <1>2 DEF Runs
<1>4. FillRun(m)'
  BY <1>1, <1>3 DEF FillRun, FillShape, IsEntry
<1> QED
  <2>1. Run(m)' /\ mon'[m].pc = l
    BY <1>3, <1>4 DEF Run
  <2>2. Runs'
    BY <1>2, <2>1, OtherRuns
  <2> QED
    BY <1>3, <2>1, <2>2

\* A refused entry gives its reservation back next.
Releasing(m, b) ==
    [pc |-> "release", bar |-> mon[m].bar, sym |-> mon[m].sym, todo |-> mon[m].todo,
     ev |-> mon[m].ev, qty |-> mon[m].qty, cash |-> mon[m].cash, seen |-> mon[m].seen,
     fault |-> b]

LEMMA ReleaseRecord ==
  ASSUME Runs, NEW m \in Monitors, FillRun(m), NEW b
  PROVE  [mon EXCEPT ![m].pc = "release", ![m].fault = b] = [mon EXCEPT ![m] = Releasing(m, b)]
<1>1. [mon[m] EXCEPT !.pc = "release", !.fault = b] = Releasing(m, b)
  <2>1. FillShape(m)
    BY DEF FillRun
  <2> DEFINE y == [pc |-> "release", bar |-> mon[m].bar, sym |-> mon[m].sym, todo |-> mon[m].todo,
                   ev |-> mon[m].ev, qty |-> mon[m].qty, cash |-> mon[m].cash, seen |-> mon[m].seen,
                   fault |-> mon[m].fault]
  <2>2. [mon[m] EXCEPT !.pc = "release"] = y
    BY <2>1 DEF FillShape
  <2>3. [y EXCEPT !.fault = b] = Releasing(m, b)
    BY DEF Releasing
  <2>4. [mon[m] EXCEPT !.pc = "release", !.fault = b] = [[mon[m] EXCEPT !.pc = "release"] EXCEPT !.fault = b]
    OBVIOUS
  <2> HIDE DEF y
  <2> QED
    BY <2>2, <2>3, <2>4
<1> QED
  BY <1>1 DEF Runs

LEMMA ReleaseRuns ==
  ASSUME Runs, NEW m \in Monitors, FillRun(m), IsEntry(m), signals' = signals, NEW b,
         mon' = [mon EXCEPT ![m] = Releasing(m, b)]
  PROVE  /\ Runs' /\ mon'[m].pc = "release" /\ mon'[m].ev = mon[m].ev
         /\ \A n \in Monitors : n # m => mon'[n] = mon[n]
<1>1. mon'[m] = Releasing(m, b) /\ \A n \in Monitors : n # m => mon'[n] = mon[n]
  BY DEF Runs
<1>2. mon'[m].pc = "release" /\ mon'[m].ev = mon[m].ev /\ mon'[m].todo = mon[m].todo /\ mon'[m].qty = mon[m].qty
  BY <1>1 DEF Releasing
<1>3. FillShape(m)'
  BY <1>1 DEF FillShape, Releasing
<1>4. /\ mon[m].todo \subseteq signals /\ mon[m].ev \in signals
      /\ mon[m].qty \in Nat \ {0} /\ mon[m].qty <= Qty
  BY DEF FillRun
<1>5. IsEntry(m)'
  BY <1>2 DEF IsEntry
<1>6. FillRun(m)'
  BY <1>2, <1>3, <1>4, <1>5 DEF FillRun
<1>7. Runs'
  BY <1>6, OtherRuns DEF Run
<1> QED
  BY <1>1, <1>2, <1>7

\* A monitor's step keeps what is known of the runs.
LEMMA SettleRuns ==
  ASSUME Runs, NEW m \in Monitors, Settle(m)
  PROVE  Runs'
<1>1. ASSUME NEW s \in Symbols, Begin(m, s) PROVE Runs'
  <2> DEFINE T == {e \in signals : SymOf(e) = s}
  <2>1. mon' = [mon EXCEPT ![m] = Listing(clock, s, T)] /\ signals' = signals
    BY <1>1 DEF Begin
  <2>2. mon'[m] = Listing(clock, s, T)
    BY <2>1 DEF Runs
  <2>3. Run(m)'
    BY <2>1, <2>2 DEF Listing, Run, ListingRun
  <2> HIDE DEF T
  <2> QED
    BY <2>1, <2>3, OtherRuns
<1>2. ASSUME NEW e \in signals, Replay(m, e) PROVE Runs'
  <2>1. mon[m] # Idle /\ signals' = signals
    BY <1>2 DEF Replay, Working, Idle
  <2>2. Done(m, e) \/ mon' = [mon EXCEPT ![m] = Idle]
    BY <1>2 DEF Replay, Fault
  <2> QED
    BY <2>1, <2>2, DoneRuns, EndRuns
<1>3. ASSUME NEW e \in signals, Pass(m, e) \/ ReadRefused(m, e) PROVE Runs'
  <2>1. mon[m] # Idle /\ signals' = signals /\ Done(m, e)
    BY <1>3 DEF Pass, ReadRefused, Attempting, Trying, Working, Idle
  <2> QED
    BY <2>1, DoneRuns
<1>4. ASSUME NEW e \in signals, MarkRegression(m, e) PROVE Runs'
  BY <1>4, EndRuns DEF MarkRegression, Fault
<1>5. ASSUME NEW e \in signals, SeeNoFill(m, e) PROVE Runs'
  <2> DEFINE x == [pc |-> "nofill", bar |-> mon[m].bar, sym |-> mon[m].sym, todo |-> mon[m].todo, ev |-> e]
  <2>1. mon' = [mon EXCEPT ![m] = x] /\ signals' = signals /\ mon[m].todo \subseteq signals
    BY <1>5, RunSteps DEF SeeNoFill, Attempting, Trying, Working, ListingRun
  <2>2. mon'[m] = x
    BY <2>1 DEF Runs
  <2>3. Run(m)'
    BY <2>1, <2>2 DEF Run, NoFillRun
  <2> HIDE DEF x
  <2> QED
    BY <2>1, <2>3, OtherRuns
<1>6. ASSUME NEW e \in signals, ReadEntry(m, e) PROVE Runs'
  <2>1. Working(m, e) /\ signals' = signals /\ e.act \in EntryActs /\ Snapshot(m, e, "reserve", e.lim)
    BY <1>6 DEF ReadEntry, Attempting, Trying
  <2>2. e.lim \in Nat \ {0} /\ e.lim <= Qty
    BY <2>1, SettlementAssumption DEF Runs
  <2> QED
    BY <2>1, <2>2, ReadRuns
<1>7. ASSUME NEW e \in signals, ReadExit(m, e) PROVE Runs'
  <2>1. PICK q \in 1 .. Asked(e) : Snapshot(m, e, "commit", q)
    BY <1>7 DEF ReadExit
  <2>2. Working(m, e) /\ signals' = signals /\ e.act \notin EntryActs
    BY <1>7 DEF ReadExit, Attempting, Trying, EntryActs, ExitActs
  <2>3. q \in Nat \ {0}
    OBVIOUS
  <2> QED
    BY <2>1, <2>2, <2>3, ReadRuns
<1>8. CASE NoFill(m)
  <2>1. mon[m] # Idle /\ signals' = signals /\ (Done(m, mon[m].ev) \/ mon' = [mon EXCEPT ![m] = Idle])
    BY <1>8 DEF NoFill, Idle, Fault
  <2> QED
    BY <2>1, DoneRuns, EndRuns
<1>9. CASE Reserve(m)
  <2>1. mon[m].pc = "reserve" /\ mon[m] # Idle /\ signals' = signals /\ FillRun(m)
    BY <1>9, RunSteps DEF Reserve, Idle
  <2>2. CASE Done(m, mon[m].ev)
    BY <2>1, <2>2, DoneRuns
  <2>3. CASE mon' = [mon EXCEPT ![m].pc = "commit"]
    <3>1. mon' = [mon EXCEPT ![m] = [mon[m] EXCEPT !.pc = "commit"]] /\ mon'[m] = [mon[m] EXCEPT !.pc = "commit"]
      BY <2>3 DEF Runs
    <3>2. Run(m)'
      BY <2>1, <3>1 DEF Run, FillRun, FillShape, IsEntry
    <3> QED
      BY <2>1, <3>1, <3>2, OtherRuns
  <2> QED
    BY <1>9, <2>2, <2>3 DEF Reserve
<1>10. CASE ReserveLost(m) \/ Commit(m) \/ Duplicate(m) \/ CommitLost(m)
  <2>1. mon[m] # Idle /\ signals' = signals /\ Done(m, mon[m].ev)
    BY <1>10 DEF ReserveLost, Commit, Duplicate, CommitLost, Idle
  <2> QED
    BY <2>1, DoneRuns
<1>11. CASE CommitRefused(m)
  <2>1. mon[m].pc = "commit" /\ mon[m] # Idle /\ signals' = signals /\ FillRun(m) /\ Refuse(m, EndedLifecycle(m))
    BY <1>11, RunSteps DEF CommitRefused, Idle
  <2>2. CASE IsEntry(m)
    BY <2>1, <2>2, ReleaseRecord, ReleaseRuns DEF Refuse
  <2>3. CASE ~IsEntry(m)
    <3>1. Done(m, mon[m].ev) \/ mon' = [mon EXCEPT ![m] = Idle]
      BY <2>1, <2>3 DEF Refuse, Fault
    <3> QED
      BY <2>1, <3>1, DoneRuns, EndRuns
  <2> QED
    BY <2>2, <2>3
<1>12. CASE Release(m)
  <2>1. mon[m] # Idle /\ signals' = signals /\ (Done(m, mon[m].ev) \/ mon' = [mon EXCEPT ![m] = Idle])
    BY <1>12 DEF Release, Idle, Fault
  <2> QED
    BY <2>1, DoneRuns, EndRuns
<1>13. CASE Crash(m)
  BY <1>13, EndRuns DEF Crash
<1> QED
  BY <1>1, <1>2, <1>3, <1>4, <1>5, <1>6, <1>7, <1>8, <1>9, <1>10, <1>11, <1>12, <1>13 DEF Settle

LEMMA RunsAlways == Spec => []Runs
<1>1. Init => Runs
  BY DEF Init, Runs, Run
<1>2. Runs /\ [Next]_vars => Runs'
  <2> SUFFICES ASSUME Runs, [Next]_vars PROVE Runs'
    OBVIOUS
  <2>1. CASE UNCHANGED vars \/ Tick
    <3>1. mon' = mon /\ signals' = signals
      BY <2>1 DEF vars, Tick
    <3> QED
      BY <3>1 DEF Runs, Run, ListingRun, NoFillRun, FillRun, FillShape, IsEntry
  <2>2. CASE Signal
    BY <2>2, SignalRuns DEF Signal
  <2> QED
    BY <2>1, <2>2, SettleRuns DEF Next
<1> QED
  BY <1>1, <1>2, PTL DEF Spec

-----------------------------------------------------------------------------
Entered(p) == \E f \in fills : f.sig.act = "BUY" /\ f.sig.plan = p

Lives ==
    /\ life \in [Plans -> [status : Statuses, entry : Nat, exit : Nat]]
    /\ \A f \in fills : f.sig \in signals /\ f.qty \in Nat \ {0}
    /\ \A p \in Plans : Entered(p) => life[p].entry > 0 /\ life[p].status \notin Dead
    /\ \A p \in Plans : /\ life[p].exit <= life[p].entry
                        /\ life[p].status \in Live /\ life[p].entry > 0 => life[p].exit < life[p].entry
    /\ \A e \in signals : e.act = "BUY" => life[e.plan].status # "NONE"

\* Only one lifecycle changes, and no fill is added.
LEMMA LivesOne ==
  ASSUME Runs, Lives, NEW p \in Plans, NEW s \in Statuses \ {"NONE"},
         life' = [life EXCEPT ![p].status = s],
         fills' = fills, signals \subseteq signals',
         \A e \in signals' \ signals : e.act # "BUY",
         Entered(p) => s \notin Dead,
         s \in Live => life[p].status \in Live \/ life[p].entry = 0
  PROVE  Lives'
<1>1. life[p] \in [status : Statuses, entry : Nat, exit : Nat]
  BY DEF Lives
<1>2. life'[p] = [life[p] EXCEPT !.status = s] /\ \A q \in Plans : q # p => life'[q] = life[q]
  BY DEF Lives
<1>3. life'[p].status = s /\ life'[p].entry = life[p].entry /\ life'[p].exit = life[p].exit
  BY <1>1, <1>2
<1>4. life' \in [Plans -> [status : Statuses, entry : Nat, exit : Nat]]
  BY <1>1 DEF Lives
<1>5. \A q \in Plans : Entered(q)' => Entered(q)
  BY DEF Entered
<1>6. \A e \in signals' : e.act = "BUY" => e \in signals /\ e.plan \in Plans
  BY DEF Runs
<1> QED
  BY <1>2, <1>3, <1>4, <1>5, <1>6 DEF Lives

\* Nothing of a lifecycle or a fill changes.
LEMMA LivesSame ==
  ASSUME Lives, life' = life, fills' = fills, signals \subseteq signals',
         \A e \in signals' \ signals : e.act # "BUY"
  PROVE  Lives'
BY DEF Lives, Entered

\* A fill is counted by its lifecycle.
LEMMA LivesApply ==
  ASSUME Runs, Lives, NEW e \in signals, NEW q \in Nat \ {0}, CanApply(e, q),
         life' = [life EXCEPT ![e.plan] = AfterFill(e, q)], signals' = signals,
         fills' = fills \/ fills' = fills \cup {[sig |-> e, qty |-> q, day |-> Today]}
  PROVE  Lives'
<1> DEFINE p == e.plan
<1>1. p \in Plans /\ e.act \in Acts /\ life[p] \in [status : Statuses, entry : Nat, exit : Nat]
  BY DEF Runs, Lives
<1>2. life'[p] = AfterFill(e, q) /\ \A r \in Plans : r # p => life'[r] = life[r]
  BY <1>1 DEF Lives
<1>3. /\ life[p].exit <= life[p].entry
      /\ life[p].status \in Live /\ life[p].entry > 0 => life[p].exit < life[p].entry
  BY <1>1 DEF Lives
<1>4. /\ life'[p] \in [status : Statuses \ (Dead \cup {"NONE"}), entry : Nat, exit : Nat]
      /\ life'[p].entry > 0 /\ life'[p].exit <= life'[p].entry
      /\ life'[p].status \in Live => life'[p].exit < life'[p].entry
  <2>1. CASE e.act \in EntryActs
    <3>1. life[p].exit < life[p].entry + q
      BY <1>1, <1>3
    <3>2. life'[p] = [life[p] EXCEPT !.status = "OPEN", !.entry = @ + q]
      BY <1>2, <2>1 DEF AfterFill
    <3>3. life'[p] = [status |-> "OPEN", entry |-> life[p].entry + q, exit |-> life[p].exit]
      BY <1>1, <3>2
    <3> QED
      BY <1>1, <1>3, <3>1, <3>3 DEF Statuses, Live, Terminal, Dead
  <2>2. CASE e.act \notin EntryActs
    <3>1. life[p].entry > 0 /\ q <= life[p].entry - life[p].exit
      BY <2>2 DEF CanApply, Remaining
    <3> DEFINE s == IF q = life[p].entry - life[p].exit THEN "CLOSED" ELSE "PARTIALLY_CLOSED"
    <3>2. life'[p] = [life[p] EXCEPT !.status = s, !.exit = @ + q]
      BY <1>2, <2>2 DEF AfterFill, Remaining
    <3>3. life'[p] = [status |-> s, entry |-> life[p].entry, exit |-> life[p].exit + q]
      BY <1>1, <3>2
    <3> QED
      BY <1>1, <1>3, <3>1, <3>3 DEF Statuses, Live, Terminal, Dead
  <2> QED
    BY <2>1, <2>2
<1>5. life' \in [Plans -> [status : Statuses, entry : Nat, exit : Nat]]
  BY <1>1, <1>2, <1>4 DEF Lives
<1>6. \A r \in Plans : r # p => (Entered(r)' => Entered(r))
  BY DEF Entered
<1>7. \A f \in fills' : f.sig \in signals' /\ f.qty \in Nat \ {0}
  BY DEF Lives
<1>8. \A d \in signals : d.plan \in Plans
  BY DEF Runs
<1> HIDE DEF p
<1> QED
  BY <1>1, <1>2, <1>4, <1>5, <1>6, <1>7, <1>8 DEF Lives

\* A fill that no lifecycle counts is not the entry of one.
LEMMA LivesUncounted ==
  ASSUME Lives, NEW e \in signals, e.act # "BUY", NEW q \in Nat \ {0}, life' = life, signals' = signals,
         fills' = fills \cup {[sig |-> e, qty |-> q, day |-> Today]}
  PROVE  Lives'
BY DEF Lives, Entered

\* commit_fill keeps the lifecycles.
LEMMA LivesFilling ==
  ASSUME Runs, Lives, NEW m \in Monitors, mon[m].pc = "commit", Admissible(m), Filling(m), signals' = signals
  PROVE  Lives'
<1> DEFINE e == mon[m].ev
           q == mon[m].qty
<1>1. e \in signals /\ q \in Nat \ {0} /\ FillRun(m)
  BY RunSteps DEF FillRun
<1>2. fills' = fills \cup {[sig |-> e, qty |-> q, day |-> Today]}
  BY DEF Filling
<1>3. CASE Counts(m)
  <2>1. CanApply(e, q) /\ life' = [life EXCEPT ![e.plan] = AfterFill(e, q)]
    BY <1>3 DEF Admissible, Filling, Apply
  <2> HIDE DEF e, q
  <2> QED
    BY <1>1, <1>2, <2>1, LivesApply
<1>4. CASE ~Counts(m)
  <2>1. e.act # "BUY"
    BY <1>1, <1>4 DEF Counts, Tracked, Lives, IsEntry, EntryActs
  <2>2. life' = life
    BY <1>4 DEF Filling
  <2> HIDE DEF e, q
  <2> QED
    BY <1>1, <1>2, <2>1, <2>2, LivesUncounted
<1> QED
  BY <1>3, <1>4

\* A new entry signal starts a lifecycle of its own.
LEMMA LivesBuy ==
  ASSUME Runs, Lives, NEW p \in Plans, BuySignal(p)
  PROVE  Lives'
<1>1. PICK e \in signals' : signals' = signals \cup {e} /\ e.act = "BUY" /\ e.plan = p
  <2>1. PICK w \in Windows, n \in 1 .. Qty :
           signals' = signals \cup {[act |-> "BUY", plan |-> p, at |-> clock, win |-> w, lim |-> n]}
    BY DEF BuySignal
  <2> DEFINE e == [act |-> "BUY", plan |-> p, at |-> clock, win |-> w, lim |-> n]
  <2>2. signals' = signals \cup {e} /\ e.act = "BUY" /\ e.plan = p
    BY <2>1
  <2> HIDE DEF e
  <2> QED
    BY <2>2
<1>2. ~Entered(p) /\ fills' = fills
  <2>1. fills' = fills /\ ~SignalledBefore("BUY", p)
    BY DEF BuySignal, account
  <2> QED
    BY <2>1 DEF SignalledBefore, Entered, Lives
<1>3. life' = [life EXCEPT ![p] = [status |-> "SIGNALLED", entry |-> 0, exit |-> 0]]
  <2>1. life' = [life EXCEPT ![p] = [NoLife EXCEPT !.status = "SIGNALLED"]]
    BY DEF BuySignal
  <2>2. [NoLife EXCEPT !.status = "SIGNALLED"] = [status |-> "SIGNALLED", entry |-> 0, exit |-> 0]
    BY DEF NoLife
  <2> QED
    BY <2>1, <2>2
<1>4. /\ life'[p] = [status |-> "SIGNALLED", entry |-> 0, exit |-> 0]
      /\ \A q \in Plans : q # p => life'[q] = life[q]
  BY <1>3 DEF Lives
<1>5. life' \in [Plans -> [status : Statuses, entry : Nat, exit : Nat]]
  BY <1>3, <1>4 DEF Lives, Statuses, Live
<1>6. \A q \in Plans : Entered(q)' => Entered(q) /\ q # p
  BY <1>2 DEF Entered
<1>7. \A d \in signals : d.plan \in Plans
  BY DEF Runs
<1> QED
  BY <1>1, <1>2, <1>4, <1>5, <1>6, <1>7 DEF Lives

\* What a signal does to the lifecycles.
LEMMA LivesSignal ==
  ASSUME Runs, Lives, NEW p \in Plans,
         BuySignal(p) \/ AddSignal(p) \/ PlanInvalidated(p) \/ EntryWindowMissing(p)
         \/ \E a \in ExitActs : ExitSignal(p, a)
  PROVE  Lives'
<1>1. life[p] \in [status : Statuses, entry : Nat, exit : Nat]
  BY DEF Lives
<1>2. CASE AddSignal(p)
  <2>1. \A e \in signals' \ signals : e.act # "BUY"
    BY <1>2 DEF AddSignal
  <2> QED
    BY <1>2, <2>1, LivesSame DEF AddSignal, a4, account
<1>3. CASE PlanInvalidated(p)
  <2>1. fills' = fills /\ signals' = signals /\ ended' = ended \cup {p}
    BY <1>3 DEF PlanInvalidated, account
  <2>2. CASE life[p].status \notin Live
    BY <1>3, <2>1, <2>2, LivesSame DEF PlanInvalidated
  <2>3. CASE life[p].status \in Live
    <3>1. life' = [life EXCEPT ![p].status = Invalidated(p)]
      BY <1>3, <2>3 DEF PlanInvalidated
    <3>2. Entered(p) => life[p].exit < life[p].entry
      BY <2>3 DEF Lives
    <3>3. Entered(p) => Invalidated(p) = "EXIT_PENDING"
      BY <1>1, <3>2 DEF Invalidated, Remaining
    <3>4. Invalidated(p) \in Statuses \ {"NONE"} /\ (Entered(p) => Invalidated(p) \notin Dead)
      BY <3>3 DEF Invalidated, Statuses, Live, Terminal, Dead
    <3> DEFINE s == Invalidated(p)
    <3>5. s \in Statuses \ {"NONE"} /\ (Entered(p) => s \notin Dead) /\ life' = [life EXCEPT ![p].status = s]
      BY <3>1, <3>4
    <3> HIDE DEF s
    <3> QED
      BY <2>1, <2>3, <3>5, LivesOne
  <2> QED
    BY <2>2, <2>3
<1>4. CASE EntryWindowMissing(p)
  <2>1. life' = [life EXCEPT ![p].status = "DATA_ERROR"] /\ fills' = fills /\ signals' = signals
        /\ life[p].entry = 0
    BY <1>4 DEF EntryWindowMissing, account
  <2>2. ~Entered(p)
    BY <1>1, <2>1 DEF Lives
  <2>3. "DATA_ERROR" \in Statuses \ {"NONE"} /\ "DATA_ERROR" \notin Live
    BY DEF Statuses, Terminal, Live
  <2> QED
    BY <2>1, <2>2, <2>3, LivesOne
<1>5. ASSUME NEW a \in ExitActs, ExitSignal(p, a) PROVE Lives'
  <2> DEFINE e == [act |-> a, plan |-> p, at |-> clock]
  <2>1. signals' = signals \cup {e} /\ e.act # "BUY" /\ fills' = fills
    BY <1>5 DEF ExitSignal, ExitActs, account
  <2> HIDE DEF e
  <2>2. CASE life[p].status \notin Live
    BY <1>5, <2>1, <2>2, LivesSame DEF ExitSignal
  <2>3. CASE life[p].status \in Live
    <3>1. life' = [life EXCEPT ![p].status = "EXIT_PENDING"]
      BY <1>5, <2>3 DEF ExitSignal
    <3>2. "EXIT_PENDING" \in Statuses \ {"NONE"} /\ "EXIT_PENDING" \notin Dead
      BY DEF Statuses, Live, Dead, Terminal
    <3> QED
      BY <2>1, <2>3, <3>1, <3>2, LivesOne
  <2> QED
    BY <2>2, <2>3
<1> QED
  BY <1>2, <1>3, <1>4, <1>5, LivesBuy

\* What a monitor's step does to the lifecycles.
LEMMA LivesSettle ==
  ASSUME Runs, Lives, NEW m \in Monitors, Settle(m)
  PROVE  Lives'
<1>1. ASSUME life' = life, fills' = fills, signals' = signals PROVE Lives'
  BY <1>1, LivesSame
<1>2. ASSUME NEW e \in signals, Replay(m, e) PROVE Lives'
  <2>1. fills' = fills /\ signals' = signals
    BY <1>2 DEF Replay, account
  <2>2. CASE life' = life
    BY <1>1, <2>1, <2>2
  <2>3. CASE life' # life
    <3>1. PICK f \in fills : CanApply(e, f.qty) /\ Apply(e, f.qty)
      BY <1>2, <2>3 DEF Replay, a4
    <3>2. f.qty \in Nat \ {0} /\ life' = [life EXCEPT ![e.plan] = AfterFill(e, f.qty)]
      BY <3>1 DEF Lives, Apply
    <3> QED
      BY <2>1, <3>1, <3>2, LivesApply
  <2> QED
    BY <2>2, <2>3
<1>3. CASE NoFill(m)
  <2> DEFINE p == mon[m].ev.plan
  <2>1. p \in Plans /\ fills' = fills /\ signals' = signals
    BY <1>3, RunSteps DEF NoFill, Runs, account
  <2>2. CASE life' = life
    BY <1>1, <2>1, <2>2
  <2>3. CASE life' # life
    <3>1. life' = [life EXCEPT ![p].status = "UNFILLED"] /\ life[p].entry = 0
      BY <1>3, <2>3 DEF NoFill
    <3>2. ~Entered(p)
      BY <2>1, <3>1 DEF Lives
    <3>3. "UNFILLED" \in Statuses \ {"NONE"} /\ "UNFILLED" \notin Live
      BY DEF Statuses, Terminal, Live
    <3> HIDE DEF p
    <3> QED
      BY <2>1, <3>1, <3>2, <3>3, LivesOne
  <2> QED
    BY <2>2, <2>3
<1>4. CASE Commit(m) \/ CommitLost(m)
  <2>1. mon[m].pc = "commit" /\ signals' = signals
    BY <1>4 DEF Commit, CommitLost
  <2>2. CASE Admissible(m) /\ Filling(m)
    BY <2>1, <2>2, LivesFilling
  <2>3. CASE ~(Admissible(m) /\ Filling(m))
    <3>1. life' = life /\ fills' = fills
      BY <1>4, <2>3 DEF Commit, CommitLost, account
    <3> QED
      BY <1>1, <2>1, <3>1
  <2> QED
    BY <2>2, <2>3
<1>5. ASSUME NEW s \in Symbols, Begin(m, s) PROVE Lives'
  BY <1>1, <1>5 DEF Begin
<1>6. ASSUME NEW e \in signals,
             Pass(m, e) \/ MarkRegression(m, e) \/ SeeNoFill(m, e) \/ ReadEntry(m, e) \/ ReadExit(m, e) \/ ReadRefused(m, e)
      PROVE Lives'
  BY <1>1, <1>6 DEF Pass, MarkRegression, SeeNoFill, ReadEntry, ReadExit, ReadRefused, a4, account
<1>7. CASE Reserve(m) \/ ReserveLost(m) \/ Duplicate(m) \/ CommitRefused(m) \/ Release(m) \/ Crash(m)
  BY <1>1, <1>7 DEF Reserve, ReserveLost, Duplicate, CommitRefused, Release, Crash, a4, account
<1> QED
  BY <1>2, <1>3, <1>4, <1>5, <1>6, <1>7 DEF Settle

LEMMA LivesAlways == Spec => []Lives
<1>1. Init => Lives
  BY DEF Init, Lives, Entered, NoLife, Statuses, Live
<1>2. Runs /\ Lives /\ [Next]_vars => Lives'
  <2> SUFFICES ASSUME Runs, Lives, [Next]_vars PROVE Lives'
    OBVIOUS
  <2>1. CASE UNCHANGED vars \/ Tick
    BY <2>1, LivesSame DEF vars, Tick, a4, account
  <2> QED
    BY <2>1, LivesSignal, LivesSettle DEF Next, Signal
<1> QED
  BY <1>1, <1>2, RunsAlways, PTL DEF Spec

\* Whatever the sessions, monitors and prices, a signal that ended unfilled,
\* invalidated or without data never has a fill: the commit of a run that
\* still held it is refused (apply_a4_fill inside commit_fill).
THEOREM DeadUnfilled == Spec => []DeadSignalsUnfilled
<1>1. Lives => DeadSignalsUnfilled
  BY DEF Lives, DeadSignalsUnfilled, Entered
<1> QED
  BY <1>1, LivesAlways, PTL

-----------------------------------------------------------------------------
Reserved == {o \in Orders : resv[o] = "RESERVED"}

Money ==
    /\ resv \in [Orders -> {"NONE", "RESERVED", "RELEASED", "CONSUMED"}]
    /\ cash \in Int
    /\ ReservationsCovered
    /\ ClearFailureReleases

Holding(m, o) == mon[m].pc \in {"commit", "release"} /\ o \in Pending(m)

LEMMA OrdersFinite == IsFiniteSet(Orders)
<1>1. IsFiniteSet(EntryActs)
  <2>1. IsFiniteSet({"BUY"})
    BY FS_Singleton
  <2>2. IsFiniteSet({"BUY"} \cup {"ADD"}) /\ {"BUY"} \cup {"ADD"} = EntryActs
    BY <2>1, FS_AddElement DEF EntryActs
  <2> QED
    BY <2>2
<1> QED
  BY <1>1, FS_Product, SettlementAssumption DEF Orders

\* Multiplication by a natural number is monotonic.
LEMMA Times ==
  ASSUME NEW c \in Nat, NEW a \in Nat, NEW b \in Nat, a <= b
  PROVE  c * a <= c * b /\ c * a \in Nat /\ c * (a + 1) = c * a + c
OBVIOUS

\* The cash that the open reservations hold, before and after a step.
LEMMA ReservedSizes ==
  /\ Reservation \in Nat
  /\ Reserved' \in SUBSET Orders => Cardinality(Reserved') \in Nat
  /\ Cardinality(Reserved) \in Nat
  /\ ReservedCash = Reservation * Cardinality(Reserved)
  /\ ReservedCash' = Reservation * Cardinality(Reserved')
  /\ ReservedCash \in Nat
<1>1. Reservation \in Nat
  BY SettlementAssumption DEF Reservation
<1>2. Cardinality(Reserved) \in Nat
  BY OrdersFinite, FS_Subset, FS_CardinalityType DEF Reserved
<1>3. Reserved' \in SUBSET Orders => Cardinality(Reserved') \in Nat
  BY OrdersFinite, FS_Subset, FS_CardinalityType
<1>4. ReservedCash = Reservation * Cardinality(Reserved) /\ ReservedCash' = Reservation * Cardinality(Reserved')
  BY DEF ReservedCash, Reserved, Reservation
<1> QED
  BY <1>1, <1>2, <1>3, <1>4

\* Nothing is reserved anew and no cash is spent.
LEMMA CoveredFewer ==
  ASSUME ReservationsCovered, cash \in Int, cash' \in Int, cash <= cash', Reserved' \subseteq Reserved
  PROVE  ReservationsCovered'
<1>1. Cardinality(Reserved') <= Cardinality(Reserved) /\ Cardinality(Reserved') \in Nat
  <2>1. IsFiniteSet(Reserved) /\ Reserved' \in SUBSET Orders
    BY OrdersFinite, FS_Subset DEF Reserved
  <2> QED
    BY <2>1, FS_Subset, ReservedSizes
<1>2. Reservation * Cardinality(Reserved') <= Reservation * Cardinality(Reserved)
  BY <1>1, ReservedSizes, Times
<1>3. Reservation * Cardinality(Reserved') \in Nat
  BY <1>1, ReservedSizes, Times
<1> QED
  BY <1>2, <1>3, ReservedSizes DEF ReservationsCovered

\* One more reservation that fits in the cash.
LEMMA CoveredMore ==
  ASSUME Fits, cash \in Int, cash' = cash, NEW o \in Orders, Reserved' = Reserved \cup {o}
  PROVE  ReservationsCovered'
<1>1. IsFiniteSet(Reserved) /\ Reserved' \in SUBSET Orders
  BY OrdersFinite, FS_Subset DEF Reserved
<1>2. Cardinality(Reserved') <= Cardinality(Reserved) + 1 /\ Cardinality(Reserved') \in Nat
  BY <1>1, FS_AddElement, ReservedSizes
<1>3. Reservation * Cardinality(Reserved') <= Reservation * (Cardinality(Reserved) + 1)
  BY <1>2, ReservedSizes, Times
<1>4. Reservation * (Cardinality(Reserved) + 1) = Reservation * Cardinality(Reserved) + Reservation
  BY ReservedSizes, Times
<1>5. Reservation * Cardinality(Reserved') \in Nat /\ Reservation * Cardinality(Reserved) \in Nat
  BY <1>2, ReservedSizes, Times
<1> QED
  BY <1>3, <1>4, <1>5, ReservedSizes DEF ReservationsCovered, Fits

\* A purchase spends no more than its reservation.
LEMMA CoveredSpent ==
  ASSUME ReservationsCovered, cash \in Int, NEW o \in Reserved, Reserved' = Reserved \ {o},
         NEW q \in Nat, q <= Qty, cash' = cash - FillPrice * q
  PROVE  ReservationsCovered' /\ cash' \in Int
<1>1. IsFiniteSet(Reserved) /\ Reserved' \in SUBSET Orders
  BY OrdersFinite, FS_Subset DEF Reserved
<1>2. Cardinality(Reserved') + 1 = Cardinality(Reserved) /\ Cardinality(Reserved') \in Nat
  BY <1>1, FS_RemoveElement, ReservedSizes
<1>3. Reservation * Cardinality(Reserved) = Reservation * Cardinality(Reserved') + Reservation
  BY <1>2, ReservedSizes, Times
<1>4. FillPrice * q \in Nat /\ FillPrice * q <= FillPrice * Qty
  BY SettlementAssumption, Times
<1>5. Qty * FillPrice <= Qty * LimitPrice /\ Qty * FillPrice = FillPrice * Qty /\ Qty * LimitPrice = Reservation
  BY SettlementAssumption, Times DEF Reservation
<1>6. Reservation * Cardinality(Reserved') \in Nat /\ Reservation * Cardinality(Reserved) \in Nat /\ FillPrice * Qty \in Nat
  BY <1>2, ReservedSizes, Times, SettlementAssumption
<1>7. Reservation * Cardinality(Reserved) <= cash
  BY ReservedSizes DEF ReservationsCovered
<1>8. FillPrice * q <= Reservation /\ Reservation \in Nat
  BY <1>4, <1>5, <1>6, ReservedSizes
<1>9. Reservation * Cardinality(Reserved') <= cash - FillPrice * q
  BY <1>3, <1>4, <1>6, <1>7, <1>8
<1> QED
  BY <1>4, <1>9, ReservedSizes DEF ReservationsCovered

\* A step of one run answers for the reservations: those that are open after
\* it are in its hands or unsure, or were open and not in its hands before.
LEMMA HoldersKept ==
  ASSUME ClearFailureReleases, NEW m \in Monitors, \A n \in Monitors : n # m => mon'[n] = mon[n],
         unsure \subseteq unsure',
         \A o \in Orders : resv'[o] = "RESERVED" =>
            \/ o \in unsure'
            \/ Holding(m, o)'
            \/ resv[o] = "RESERVED" /\ ~Holding(m, o)
  PROVE  ClearFailureReleases'
<1> SUFFICES ASSUME NEW o \in Orders, resv'[o] = "RESERVED", o \notin unsure'
             PROVE  \E n \in Monitors : Holding(n, o)'
  BY DEF ClearFailureReleases, Holding
<1>1. CASE Holding(m, o)'
  BY <1>1
<1>2. CASE resv[o] = "RESERVED" /\ ~Holding(m, o)
  <2>1. PICK n \in Monitors : Holding(n, o)
    BY <1>2 DEF ClearFailureReleases, Holding
  <2>2. mon'[n] = mon[n]
    BY <1>2, <2>1
  <2> QED
    BY <2>1, <2>2 DEF Holding, Pending, IsEntry
<1> QED
  BY <1>1, <1>2

\* A run that does not hold a reservation and touches none.
LEMMA MoneySame ==
  ASSUME Money, NEW m \in Monitors, \A n \in Monitors : n # m => mon'[n] = mon[n],
         resv' = resv, cash' = cash, unsure' = unsure,
         mon[m].pc \notin {"commit", "release"} \/ ~IsEntry(m)
  PROVE  Money'
<1>1. ClearFailureReleases'
  <2>1. \A o \in Orders : ~Holding(m, o)
    BY DEF Holding, Pending
  <2> QED
    BY <2>1, HoldersKept DEF Money
<1>2. ReservationsCovered'
  BY CoveredFewer DEF Money, Reserved
<1> QED
  BY <1>1, <1>2 DEF Money

\* The reservation of an entry in the hands of a run is closed, and the others
\* stay as they are.
LEMMA MoneyClosed ==
  ASSUME Money, NEW m \in Monitors, \A n \in Monitors : n # m => mon'[n] = mon[n], IsEntry(m),
         NEW x \in {"RELEASED", "CONSUMED"}, unsure \subseteq unsure',
         resv' = [resv EXCEPT ![Order(mon[m].ev)] = x]
  PROVE  ClearFailureReleases'
<1>1. \A o \in Orders : resv'[o] = "RESERVED" => resv[o] = "RESERVED" /\ o # Order(mon[m].ev)
  BY DEF Money
<1>2. \A o \in Orders : Holding(m, o) => o = Order(mon[m].ev)
  BY DEF Holding, Pending
<1> QED
  BY <1>1, <1>2, HoldersKept DEF Money

\* commit_fill keeps the cash above the open reservations.
LEMMA MoneyFilling ==
  ASSUME Runs, Lives, Money, NEW m \in Monitors, mon[m].pc = "commit", Admissible(m), Filling(m),
         \A n \in Monitors : n # m => mon'[n] = mon[n], unsure \subseteq unsure'
  PROVE  Money'
<1> DEFINE o == Order(mon[m].ev)
           q == mon[m].qty
<1>1. FillRun(m) /\ mon[m].ev \in signals /\ q \in Nat
  BY RunSteps DEF FillRun
<1>2. mon[m].cash = cash
  BY DEF Admissible, StillAsRead
<1>3. FillPrice * q \in Nat
  BY <1>1, SettlementAssumption
<1>4. CASE IsEntry(m)
  <2>1. o \in Orders /\ resv[o] = "RESERVED" /\ q <= Qty
    BY <1>1, <1>4 DEF Admissible, Order, Orders, Runs, IsEntry, FillRun
  <2>2. resv' = [resv EXCEPT ![o] = "CONSUMED"] /\ cash' = cash - FillPrice * q
    BY <1>2, <1>4 DEF Filling
  <2>3. o \in Reserved /\ Reserved' = Reserved \ {o}
    BY <2>1, <2>2 DEF Money, Reserved
  <2>4. resv' \in [Orders -> {"NONE", "RESERVED", "RELEASED", "CONSUMED"}]
    BY <2>2 DEF Money
  <2>5. ClearFailureReleases'
    BY <1>4, <2>2, MoneyClosed
  <2>6. ReservationsCovered' /\ cash' \in Int
    <3>1. ReservationsCovered /\ cash \in Int
      BY DEF Money
    <3> HIDE DEF o, q
    <3> QED
      BY <1>1, <2>1, <2>2, <2>3, <3>1, CoveredSpent
  <2> QED
    BY <2>4, <2>5, <2>6 DEF Money
<1>5. CASE ~IsEntry(m)
  <2>1. resv' = resv /\ cash' = cash + FillPrice * q
    BY <1>2, <1>5 DEF Filling
  <2>2. cash' \in Int /\ cash <= cash' /\ cash \in Int
    BY <1>3, <2>1 DEF Money
  <2>3. ReservationsCovered'
    BY <2>1, <2>2, CoveredFewer DEF Money, Reserved
  <2>4. ClearFailureReleases'
    <3>1. \A x \in Orders : ~Holding(m, x)
      BY <1>5 DEF Holding, Pending
    <3> QED
      BY <2>1, <3>1, HoldersKept DEF Money
  <2> QED
    BY <2>1, <2>2, <2>3, <2>4 DEF Money
<1> QED
  BY <1>4, <1>5

\* A run's step keeps the reservations covered and answered for.
LEMMA MoneySettle ==
  ASSUME Runs, Lives, Money, NEW m \in Monitors, Settle(m)
  PROVE  Money'
<1>1. ASSUME NEW s \in Symbols, Begin(m, s) PROVE Money'
  <2>1. \A n \in Monitors : n # m => mon'[n] = mon[n]
    BY <1>1 DEF Begin, Runs
  <2> QED
    BY <1>1, <2>1, MoneySame DEF Begin, Idle
<1>2. ASSUME NEW e \in signals,
             Replay(m, e) \/ Pass(m, e) \/ MarkRegression(m, e) \/ SeeNoFill(m, e)
             \/ ReadEntry(m, e) \/ ReadExit(m, e) \/ ReadRefused(m, e)
      PROVE Money'
  <2>1. mon[m].pc = "list" /\ resv' = resv /\ cash' = cash /\ unsure' = unsure
    BY <1>2 DEF Replay, Pass, MarkRegression, SeeNoFill, ReadEntry, ReadExit, ReadRefused,
                Attempting, Trying, Working, account
  <2>2. \E x : mon' = [mon EXCEPT ![m] = x]
    BY <1>2 DEF Replay, Pass, MarkRegression, SeeNoFill, ReadEntry, ReadExit, ReadRefused, Done, Fault, Snapshot
  <2>3. \A n \in Monitors : n # m => mon'[n] = mon[n]
    BY <2>2 DEF Runs
  <2> QED
    BY <2>1, <2>3, MoneySame
<1>3. CASE NoFill(m)
  <2>1. mon[m].pc = "nofill" /\ resv' = resv /\ cash' = cash /\ unsure' = unsure
    BY <1>3 DEF NoFill, account
  <2>2. \E x : mon' = [mon EXCEPT ![m] = x]
    BY <1>3 DEF NoFill, Done, Fault
  <2>3. \A n \in Monitors : n # m => mon'[n] = mon[n]
    BY <2>2 DEF Runs
  <2> QED
    BY <2>1, <2>3, MoneySame
<1>4. ASSUME mon[m].pc = "reserve" PROVE Order(mon[m].ev) \in Orders /\ IsEntry(m)
  BY <1>4, RunSteps DEF FillRun, Runs, Order, Orders, IsEntry
<1>5. CASE Reserve(m)
  <2> DEFINE o == Order(mon[m].ev)
  <2>1. mon[m].pc = "reserve" /\ cash' = cash /\ unsure' = unsure
    BY <1>5 DEF Reserve
  <2>2. CASE Done(m, mon[m].ev) /\ resv' = resv
    <3>1. \A n \in Monitors : n # m => mon'[n] = mon[n]
      BY <2>2 DEF Done, Runs
    <3> QED
      BY <2>1, <2>2, <3>1, MoneySame
  <2>3. CASE /\ resv[o] # "NONE" \/ Fits
             /\ resv' = IF resv[o] = "NONE" THEN [resv EXCEPT ![o] = "RESERVED"] ELSE resv
             /\ mon' = [mon EXCEPT ![m].pc = "commit"]
    <3>1. mon'[m] = [mon[m] EXCEPT !.pc = "commit"] /\ \A n \in Monitors : n # m => mon'[n] = mon[n]
      BY <2>3 DEF Runs
    <3>2. mon'[m].pc = "commit" /\ mon'[m].ev = mon[m].ev
      <4>1. FillShape(m)
        BY <2>1, RunSteps DEF FillRun
      <4> QED
        BY <3>1, <4>1 DEF FillShape
    <3>3. o \in Orders /\ IsEntry(m)
      BY <1>4, <2>1
    <3>4. \A x \in Orders : x = o => Holding(m, x)'
      BY <3>2, <3>3 DEF Holding, Pending, IsEntry
    <3>5. \A x \in Orders : ~Holding(m, x)
      BY <2>1 DEF Holding
    <3>6. \A x \in Orders : resv'[x] = "RESERVED" => x = o \/ resv[x] = "RESERVED"
      BY <2>3, <3>3 DEF Money
    <3>7. \A x \in Orders : resv'[x] = "RESERVED" => Holding(m, x)' \/ resv[x] = "RESERVED"
      BY <3>4, <3>6
    <3>8. ClearFailureReleases'
      BY <2>1, <3>1, <3>5, <3>7, HoldersKept DEF Money
    <3>9. resv' \in [Orders -> {"NONE", "RESERVED", "RELEASED", "CONSUMED"}] /\ cash' \in Int
      BY <2>1, <2>3 DEF Money
    <3>10. CASE resv[o] # "NONE"
      <4>1. resv' = resv
        BY <2>3, <3>10
      <4>2. ReservationsCovered'
        BY <2>1, <4>1, CoveredFewer DEF Money, Reserved
      <4> QED
        BY <3>8, <3>9, <4>2 DEF Money
    <3>11. CASE resv[o] = "NONE"
      <4>1. resv' = [resv EXCEPT ![o] = "RESERVED"] /\ Fits
        BY <2>3, <3>11
      <4>2. Reserved' = Reserved \cup {o}
        BY <3>3, <4>1 DEF Money, Reserved
      <4>3. ReservationsCovered'
        <5>1. cash \in Int
          BY DEF Money
        <5> HIDE DEF o
        <5> QED
          BY <2>1, <3>3, <4>1, <4>2, <5>1, CoveredMore
      <4> QED
        BY <3>8, <3>9, <4>3 DEF Money
    <3> QED
      BY <3>10, <3>11
  <2> QED
    BY <1>5, <2>2, <2>3 DEF Reserve
<1>6. CASE ReserveLost(m)
  <2> DEFINE o == Order(mon[m].ev)
  <2>1. mon[m].pc = "reserve" /\ cash' = cash /\ unsure' = unsure \cup {o} /\ o \in Orders
    BY <1>4, <1>6 DEF ReserveLost
  <2>2. resv' = resv \/ (Fits /\ resv' = [resv EXCEPT ![o] = "RESERVED"])
    BY <1>6 DEF ReserveLost
  <2>3. \A n \in Monitors : n # m => mon'[n] = mon[n]
    BY <1>6 DEF ReserveLost, Done, Runs
  <2>4. \A x \in Orders : ~Holding(m, x)
    BY <2>1 DEF Holding
  <2>5. \A x \in Orders : resv'[x] = "RESERVED" => x = o \/ resv[x] = "RESERVED"
    BY <2>1, <2>2 DEF Money
  <2>6. ClearFailureReleases'
    <3>1. \A x \in Orders : resv'[x] = "RESERVED" => x \in unsure' \/ resv[x] = "RESERVED"
      BY <2>1, <2>5
    <3>2. unsure \subseteq unsure'
      BY <2>1
    <3> HIDE DEF o
    <3> QED
      BY <2>3, <2>4, <3>1, <3>2, HoldersKept DEF Money
  <2>7. resv' \in [Orders -> {"NONE", "RESERVED", "RELEASED", "CONSUMED"}] /\ cash' \in Int
    BY <2>1, <2>2 DEF Money
  <2>8. ReservationsCovered'
    <3>1. CASE resv' = resv
      BY <2>1, <3>1, CoveredFewer DEF Money, Reserved
    <3>2. CASE Fits /\ resv' = [resv EXCEPT ![o] = "RESERVED"]
      <4>1. Reserved' = Reserved \cup {o} /\ cash \in Int
        BY <2>1, <3>2 DEF Money, Reserved
      <4> HIDE DEF o
      <4> QED
        BY <2>1, <3>2, <4>1, CoveredMore
    <3> QED
      BY <2>2, <3>1, <3>2
  <2> QED
    BY <2>6, <2>7, <2>8 DEF Money
<1>7. CASE Commit(m)
  <2>1. mon[m].pc = "commit" /\ Admissible(m) /\ Filling(m) /\ unsure' = unsure
    BY <1>7 DEF Commit
  <2>2. \A n \in Monitors : n # m => mon'[n] = mon[n]
    BY <1>7 DEF Commit, Done, Runs
  <2> QED
    BY <2>1, <2>2, MoneyFilling
<1>8. CASE Duplicate(m)
  <2>1. ~IsEntry(m) /\ resv' = resv /\ cash' = cash /\ unsure' = unsure
    BY <1>8 DEF Duplicate, account
  <2>2. \A n \in Monitors : n # m => mon'[n] = mon[n]
    BY <1>8 DEF Duplicate, Done, Runs
  <2> QED
    BY <2>1, <2>2, MoneySame
<1>9. CASE CommitRefused(m)
  <2>1. /\ mon[m].pc = "commit" /\ resv' = resv /\ cash' = cash /\ unsure' = unsure /\ signals' = signals
        /\ Refuse(m, EndedLifecycle(m))
    BY <1>9 DEF CommitRefused, account
  <2>2. CASE IsEntry(m)
    <3>1. FillRun(m)
      BY <2>1, RunSteps
    <3>2. mon' = [mon EXCEPT ![m] = Releasing(m, EndedLifecycle(m))]
      BY <2>1, <2>2, <3>1, ReleaseRecord DEF Refuse
    <3>3. mon'[m].pc = "release" /\ mon'[m].ev = mon[m].ev /\ \A n \in Monitors : n # m => mon'[n] = mon[n]
      BY <2>1, <2>2, <3>1, <3>2, ReleaseRuns
    <3>4. \A o \in Orders : Holding(m, o) => Holding(m, o)'
      BY <3>3 DEF Holding, Pending, IsEntry
    <3>5. ClearFailureReleases'
      BY <2>1, <3>3, <3>4, HoldersKept DEF Money
    <3>6. ReservationsCovered'
      BY <2>1, CoveredFewer DEF Money, Reserved
    <3> QED
      BY <2>1, <3>5, <3>6 DEF Money
  <2>3. CASE ~IsEntry(m)
    <3>1. \E x : mon' = [mon EXCEPT ![m] = x]
      BY <2>1, <2>3 DEF Refuse, Done, Fault
    <3>2. \A n \in Monitors : n # m => mon'[n] = mon[n]
      BY <3>1 DEF Runs
    <3> QED
      BY <2>1, <2>3, <3>2, MoneySame
  <2> QED
    BY <2>2, <2>3
<1>10. CASE CommitLost(m)
  <2>1. mon[m].pc = "commit" /\ unsure' = unsure \cup Pending(m)
    BY <1>10 DEF CommitLost
  <2>2. \A n \in Monitors : n # m => mon'[n] = mon[n]
    BY <1>10 DEF CommitLost, Done, Runs
  <2>3. CASE Admissible(m) /\ Filling(m)
    BY <2>1, <2>2, <2>3, MoneyFilling
  <2>4. CASE ~(Admissible(m) /\ Filling(m))
    <3>1. resv' = resv /\ cash' = cash
      BY <1>10, <2>4 DEF CommitLost, account
    <3>2. \A o \in Orders : Holding(m, o) => o \in unsure'
      BY <2>1 DEF Holding
    <3>3. ClearFailureReleases'
      BY <2>1, <2>2, <3>1, <3>2, HoldersKept DEF Money
    <3>4. ReservationsCovered'
      BY <3>1, CoveredFewer DEF Money, Reserved
    <3> QED
      BY <3>1, <3>3, <3>4 DEF Money
  <2> QED
    BY <2>3, <2>4
<1>11. CASE Release(m)
  <2> DEFINE o == Order(mon[m].ev)
  <2>1. mon[m].pc = "release" /\ cash' = cash /\ unsure' = unsure /\ IsEntry(m) /\ o \in Orders
    BY <1>11, RunSteps DEF Release, FillRun, Runs, Order, Orders, IsEntry
  <2>2. resv' = IF resv[o] = "RESERVED" THEN [resv EXCEPT ![o] = "RELEASED"] ELSE resv
    BY <1>11 DEF Release
  <2>3. \E x : mon' = [mon EXCEPT ![m] = x]
    BY <1>11 DEF Release, Done, Fault
  <2>4. \A n \in Monitors : n # m => mon'[n] = mon[n]
    BY <2>3 DEF Runs
  <2>5. \A x \in Orders : resv'[x] = "RESERVED" => resv[x] = "RESERVED" /\ x # o
    BY <2>1, <2>2 DEF Money
  <2>6. \A x \in Orders : Holding(m, x) => x = o
    BY DEF Holding, Pending
  <2>7. ClearFailureReleases'
    BY <2>1, <2>4, <2>5, <2>6, HoldersKept DEF Money
  <2>8. ReservationsCovered'
    <3>1. Reserved' \subseteq Reserved
      BY <2>5 DEF Reserved
    <3> QED
      BY <2>1, <3>1, CoveredFewer DEF Money
  <2>9. resv' \in [Orders -> {"NONE", "RESERVED", "RELEASED", "CONSUMED"}] /\ cash' \in Int
    BY <2>1, <2>2 DEF Money
  <2> QED
    BY <2>7, <2>8, <2>9 DEF Money
<1>12. CASE Crash(m)
  <2>1. resv' = resv /\ cash' = cash
        /\ unsure' = IF mon[m].pc \in {"commit", "release"} THEN unsure \cup Pending(m) ELSE unsure
    BY <1>12 DEF Crash, account
  <2>2. \A n \in Monitors : n # m => mon'[n] = mon[n]
    BY <1>12 DEF Crash, Runs
  <2>3. \A o \in Orders : Holding(m, o) => o \in unsure'
    BY <2>1 DEF Holding
  <2>4. ClearFailureReleases'
    BY <2>1, <2>2, <2>3, HoldersKept DEF Money
  <2>5. ReservationsCovered'
    BY <2>1, CoveredFewer DEF Money, Reserved
  <2> QED
    BY <2>1, <2>4, <2>5 DEF Money
<1> QED
  BY <1>1, <1>2, <1>3, <1>5, <1>6, <1>7, <1>8, <1>9, <1>10, <1>11, <1>12 DEF Settle

LEMMA MoneyAlways == Spec => []Money
<1>1. Init => Money
  <2> SUFFICES ASSUME Init PROVE Money
    OBVIOUS
  <2>1. resv \in [Orders -> {"NONE", "RESERVED", "RELEASED", "CONSUMED"}] /\ cash \in Nat
        /\ \A o \in Orders : resv[o] # "RESERVED"
    BY SettlementAssumption DEF Init
  <2>2. Reserved = {} /\ Cardinality(Reserved) = 0
    BY <2>1, FS_EmptySet DEF Reserved
  <2>3. ReservedCash = 0
    BY <2>2, ReservedSizes
  <2> QED
    BY <2>1, <2>3 DEF Money, ReservationsCovered, ClearFailureReleases
<1>2. Runs /\ Lives /\ Money /\ [Next]_vars => Money'
  <2> SUFFICES ASSUME Runs, Lives, Money, [Next]_vars PROVE Money'
    OBVIOUS
  <2>1. ASSUME resv' = resv, cash' = cash, unsure' = unsure, mon' = mon PROVE Money'
    <3>1. ReservationsCovered'
      BY <2>1, CoveredFewer DEF Money, Reserved
    <3>2. ClearFailureReleases'
      BY <2>1 DEF Money, ClearFailureReleases, Pending, IsEntry
    <3> QED
      BY <2>1, <3>1, <3>2 DEF Money
  <2>2. CASE UNCHANGED vars \/ Tick
    BY <2>1, <2>2 DEF vars, Tick, account
  <2>3. CASE Signal
    BY <2>1, <2>3 DEF Signal, BuySignal, AddSignal, PlanInvalidated, EntryWindowMissing, ExitSignal, account
  <2> QED
    BY <2>2, <2>3, MoneySettle DEF Next
<1> QED
  BY <1>1, <1>2, RunsAlways, LivesAlways, PTL DEF Spec

\* Whatever the plans and prices, the cash covers every open reservation:
\* money is never promised twice (reserve_simulation_order, commit_fill).
THEOREM NeverPromisedTwice == Spec => []ReservationsCovered
<1>1. Money => ReservationsCovered
  BY DEF Money
<1> QED
  BY <1>1, MoneyAlways, PTL

\* Whatever the monitors do, an open reservation is in the hands of a run or
\* belongs to an attempt of unknown outcome: a clear failure gives it back.
THEOREM FailureReleases == Spec => []ClearFailureReleases
<1>1. Money => ClearFailureReleases
  BY DEF Money
<1> QED
  BY <1>1, MoneyAlways, PTL

-----------------------------------------------------------------------------
(* Sums over finite sets.  The folds of the community modules are a        *)
(* recursive function that CHOOSE picks; these facts are what follows      *)
(* from the induction over the subsets of a finite set.                    *)
Pick(T) == CHOOSE x \in T : TRUE
Rest(T) == T \ {Pick(T)}
Sums(h, f, S) == h = [T \in SUBSET S |-> IF T = {} THEN 0 ELSE f[Pick(T)] + h[Rest(T)]]
TheSums(f, S) == CHOOSE h : Sums(h, f, S)

\* The sum is the value of the recursive function at the whole set.
LEMMA SumDef ==
  ASSUME NEW f, NEW S
  PROVE  Sum(f, S) = TheSums(f, S)[S]
BY Zenon DEF Sum, MapThenSumSet, MapThenFoldSet, Sums, TheSums, Pick, Rest

\* A nonempty set of subsets of a finite set has a minimal element.
LEMMA Smallest ==
  ASSUME NEW S, IsFiniteSet(S), NEW B \in SUBSET SUBSET S, B # {}
  PROVE  \E T \in B : \A U \in B : U \subseteq T => U = T
<1>1. B \subseteq FiniteSubsetsOf(S)
  BY FS_Subset DEF FiniteSubsetsOf
<1>2. \E T \in B : \A U \in B : <<U, T>> \notin StrictSubsetOrdering(S)
  BY <1>1, FS_StrictSubsetOrderingWellFounded, WFMin, Zenon
<1> QED
  BY <1>2 DEF StrictSubsetOrdering

\* Induction over the subsets of a finite set, with a set for the predicate.
LEMMA SubsetInduction ==
  ASSUME NEW S, IsFiniteSet(S), NEW G,
         \A T \in SUBSET S : (\A U \in SUBSET T : U # T => U \in G) => T \in G
  PROVE  \A T \in SUBSET S : T \in G
<1> DEFINE B == {T \in SUBSET S : T \notin G}
<1>1. SUFFICES ASSUME B # {} PROVE FALSE
  OBVIOUS
<1>2. PICK T \in B : \A U \in B : U \subseteq T => U = T
  <2>1. B \in SUBSET SUBSET S
    OBVIOUS
  <2> HIDE DEF B
  <2> QED BY <1>1, <2>1, Smallest
<1> QED
  BY <1>2

\* The element that the recursion takes next.
LEMMA PickIn ==
  ASSUME NEW T, T # {}
  PROVE  Pick(T) \in T /\ Rest(T) \subseteq T /\ Rest(T) # T
BY DEF Pick, Rest

\* One step of the recursion.
LEMMA SumsAt ==
  ASSUME NEW S, NEW f, NEW h, Sums(h, f, S), NEW T \in SUBSET S
  PROVE  h[T] = IF T = {} THEN 0 ELSE f[Pick(T)] + h[Rest(T)]
BY Zenon DEF Sums

\* The recursion has one value at a set, whatever set it was started for.
LEMMA SumsUnique ==
  ASSUME NEW S, IsFiniteSet(S), NEW S1, NEW S2, S \subseteq S1, S \subseteq S2,
         NEW f, NEW h, NEW k, Sums(h, f, S1), Sums(k, f, S2)
  PROVE  h[S] = k[S]
<1> DEFINE G == {T \in SUBSET S : h[T] = k[T]}
<1>1. ASSUME NEW T \in SUBSET S, \A U \in SUBSET T : U # T => U \in G
      PROVE  T \in G
  <2>1. T \in SUBSET S1 /\ T \in SUBSET S2
    OBVIOUS
  <2>2. /\ h[T] = IF T = {} THEN 0 ELSE f[Pick(T)] + h[Rest(T)]
        /\ k[T] = IF T = {} THEN 0 ELSE f[Pick(T)] + k[Rest(T)]
    BY <2>1, SumsAt
  <2>3. T # {} => h[Rest(T)] = k[Rest(T)]
    BY <1>1, PickIn
  <2> QED
    BY <2>2, <2>3
<1> HIDE DEF G
<1>2. \A T \in SUBSET S : T \in G
  BY <1>1, SubsetInduction
<1> QED
  BY <1>2 DEF G

\* The recursion has a solution on every finite set.
LEMMA SumsExists ==
  ASSUME NEW S, IsFiniteSet(S), NEW f
  PROVE  Sums(TheSums(f, S), f, S)
<1> DEFINE G == {T \in SUBSET S : Sums(TheSums(f, T), f, T)}
           V(W) == TheSums(f, W)[W]
<1>1. ASSUME NEW T \in SUBSET S, \A U \in SUBSET T : U # T => U \in G
      PROVE  T \in G
  <2> DEFINE k == [U \in SUBSET T |-> IF U = {} THEN 0 ELSE f[Pick(U)] + V(Rest(U))]
  <2>1. ASSUME NEW W \in SUBSET T, W # T PROVE k[W] = V(W)
    <3>1. Sums(TheSums(f, W), f, W) /\ IsFiniteSet(W)
      BY <1>1, <2>1, FS_Subset
    <3>2. V(W) = IF W = {} THEN 0 ELSE f[Pick(W)] + TheSums(f, W)[Rest(W)]
      <4>1. W \in SUBSET W
        OBVIOUS
      <4> QED
        BY <3>1, <4>1, SumsAt
    <3>3. k[W] = IF W = {} THEN 0 ELSE f[Pick(W)] + V(Rest(W))
      OBVIOUS
    <3>4. W # {} => TheSums(f, W)[Rest(W)] = V(Rest(W))
      <4> SUFFICES ASSUME W # {} PROVE TheSums(f, W)[Rest(W)] = V(Rest(W))
        OBVIOUS
      <4> DEFINE X == Rest(W)
      <4>1. X \subseteq W /\ X \in SUBSET T /\ X # T
        BY PickIn, <2>1
      <4>2. Sums(TheSums(f, X), f, X) /\ IsFiniteSet(X)
        BY <4>1, <1>1, FS_Subset
      <4> HIDE DEF X
      <4>3. TheSums(f, W)[X] = TheSums(f, X)[X]
        BY <4>1, <4>2, <3>1, SumsUnique
      <4> QED
        BY <4>3 DEF X
    <3> QED
      BY <3>2, <3>3, <3>4
  <2>2. \A U \in SUBSET T : (IF U = {} THEN 0 ELSE f[Pick(U)] + V(Rest(U)))
                          = (IF U = {} THEN 0 ELSE f[Pick(U)] + k[Rest(U)])
    <3> SUFFICES ASSUME NEW U \in SUBSET T, U # {} PROVE V(Rest(U)) = k[Rest(U)]
      OBVIOUS
    <3>1. Rest(U) \in SUBSET T /\ Rest(U) # T
      BY PickIn
    <3> HIDE DEF k, V
    <3> QED
      BY <2>1, <3>1
  <2>3. Sums(k, f, T)
    <3>1. k = [U \in SUBSET T |-> IF U = {} THEN 0 ELSE f[Pick(U)] + k[Rest(U)]]
      <4>1. k = [U \in SUBSET T |-> IF U = {} THEN 0 ELSE f[Pick(U)] + V(Rest(U))]
        OBVIOUS
      <4> HIDE DEF k, V
      <4> QED
        BY <2>2, <4>1
    <3> HIDE DEF k, V
    <3> QED
      BY <3>1 DEF Sums
  <2>4. Sums(TheSums(f, T), f, T)
    <3> HIDE DEF k, V
    <3> QED
      BY <2>3 DEF TheSums
  <2> QED
    BY <2>4
<1> HIDE DEF G
<1>2. \A T \in SUBSET S : T \in G
  BY <1>1, SubsetInduction
<1> QED
  BY <1>2 DEF G

\* The sum of nothing.
LEMMA SumEmpty ==
  ASSUME NEW f
  PROVE  Sum(f, {}) = 0
<1>1. Sums(TheSums(f, {}), f, {}) /\ {} \in SUBSET {}
  BY FS_EmptySet, SumsExists
<1>2. TheSums(f, {})[{}] = 0
  BY <1>1, SumsAt
<1> QED
  BY <1>2, SumDef

\* The recursion, in terms of the sums.
LEMMA SumPick ==
  ASSUME NEW S, IsFiniteSet(S), S # {}, NEW f
  PROVE  Sum(f, S) = f[Pick(S)] + Sum(f, Rest(S))
<1> DEFINE h == TheSums(f, S)
           R == Rest(S)
           k == TheSums(f, R)
<1>1. R \subseteq S /\ IsFiniteSet(R) /\ S \in SUBSET S
  BY PickIn, FS_Subset
<1>2. Sums(h, f, S) /\ Sums(k, f, R)
  BY <1>1, SumsExists
<1>3. Sum(f, S) = h[S] /\ Sum(f, R) = k[R]
  BY SumDef
<1> HIDE DEF h, k
<1>4. h[S] = f[Pick(S)] + h[R]
  BY <1>1, <1>2, SumsAt
<1>5. h[R] = k[R]
  <2> HIDE DEF R
  <2> QED BY <1>1, <1>2, SumsUnique
<1> QED
  BY <1>3, <1>4, <1>5

\* A sum of integers is an integer.
LEMMA SumInt ==
  ASSUME NEW S, IsFiniteSet(S), NEW f, \A x \in S : f[x] \in Int
  PROVE  Sum(f, S) \in Int
<1> DEFINE G == {T \in SUBSET S : Sum(f, T) \in Int}
<1>1. ASSUME NEW T \in SUBSET S, \A U \in SUBSET T : U # T => U \in G
      PROVE  T \in G
  <2>1. CASE T = {}
    BY <2>1, SumEmpty
  <2>2. CASE T # {}
    <3>1. IsFiniteSet(T) /\ Pick(T) \in S /\ Rest(T) \in G
      BY <1>1, <2>2, PickIn, FS_Subset
    <3> QED
      BY <2>2, <3>1, SumPick
  <2> QED
    BY <2>1, <2>2
<1> HIDE DEF G
<1>2. \A T \in SUBSET S : T \in G
  BY <1>1, SubsetInduction
<1> QED
  BY <1>2 DEF G

\* Any element can be taken out of the sum.
LEMMA SumRemove ==
  ASSUME NEW S, IsFiniteSet(S), NEW f, \A x \in S : f[x] \in Int, NEW x \in S
  PROVE  /\ Sum(f, S) = f[x] + Sum(f, S \ {x})
         /\ Sum(f, S \ {x}) \in Int /\ Sum(f, S) \in Int
<1> DEFINE G == {T \in SUBSET S : \A y \in T : Sum(f, T) = f[y] + Sum(f, T \ {y})}
<1>1. ASSUME NEW T \in SUBSET S, \A U \in SUBSET T : U # T => U \in G
      PROVE  T \in G
  <2> SUFFICES ASSUME NEW y \in T PROVE Sum(f, T) = f[y] + Sum(f, T \ {y})
    OBVIOUS
  <2>1. IsFiniteSet(T) /\ Pick(T) \in T /\ Sum(f, T) = f[Pick(T)] + Sum(f, T \ {Pick(T)})
    BY PickIn, FS_Subset, SumPick DEF Rest
  <2>2. CASE y = Pick(T)
    BY <2>1, <2>2
  <2>3. CASE y # Pick(T)
    <3> DEFINE z == Pick(T)
               A == T \ {z}
               B == T \ {y}
               C == T \ {y, z}
    <3>1. A \in G /\ B \in G /\ z \in B /\ y \in A /\ B \ {z} = C /\ A \ {y} = C
      BY <1>1, <2>1, <2>3
    <3>2. Sum(f, A) = f[y] + Sum(f, C) /\ Sum(f, B) = f[z] + Sum(f, C)
      BY <3>1
    <3>3. Sum(f, C) \in Int /\ f[y] \in Int /\ f[z] \in Int
      <4>1. IsFiniteSet(C) /\ C \in SUBSET S /\ z \in S
        BY <2>1, FS_Subset
      <4> HIDE DEF C, z
      <4> QED BY <4>1, SumInt
    <3>4. Sum(f, T) = f[z] + Sum(f, A)
      BY <2>1
    <3> HIDE DEF z, A, B, C
    <3>5. Sum(f, T) = f[y] + Sum(f, B)
      BY <3>2, <3>3, <3>4
    <3> QED
      BY <3>5 DEF B
  <2> QED
    BY <2>2, <2>3
<1> HIDE DEF G
<1>2. \A T \in SUBSET S : T \in G
  BY <1>1, SubsetInduction
<1>3. Sum(f, S) = f[x] + Sum(f, S \ {x})
  BY <1>2 DEF G
<1> QED
  BY <1>3, SumInt, FS_Subset

\* One more element.
LEMMA SumAdd ==
  ASSUME NEW S, IsFiniteSet(S), NEW x, x \notin S, NEW f, \A y \in S \cup {x} : f[y] \in Int
  PROVE  /\ Sum(f, S \cup {x}) = f[x] + Sum(f, S)
         /\ Sum(f, S) \in Int /\ Sum(f, S \cup {x}) \in Int
<1>1. IsFiniteSet(S \cup {x}) /\ (S \cup {x}) \ {x} = S /\ x \in S \cup {x}
  BY FS_AddElement
<1> QED
  BY <1>1, SumRemove

\* Only what the function is on the set counts.
LEMMA SumSame ==
  ASSUME NEW S, IsFiniteSet(S), NEW f, NEW g, \A x \in S : f[x] = g[x]
  PROVE  Sum(f, S) = Sum(g, S)
<1> DEFINE G == {T \in SUBSET S : Sum(f, T) = Sum(g, T)}
<1>1. ASSUME NEW T \in SUBSET S, \A U \in SUBSET T : U # T => U \in G
      PROVE  T \in G
  <2>1. CASE T = {}
    BY <2>1, SumEmpty
  <2>2. CASE T # {}
    <3>1. IsFiniteSet(T) /\ Pick(T) \in S /\ Rest(T) \in G
      BY <1>1, <2>2, PickIn, FS_Subset
    <3> QED
      BY <2>2, <3>1, SumPick
  <2> QED
    BY <2>1, <2>2
<1> HIDE DEF G
<1>2. \A T \in SUBSET S : T \in G
  BY <1>1, SubsetInduction
<1> QED
  BY <1>2 DEF G

\* The sum grows with the values.
LEMMA SumMonotone ==
  ASSUME NEW S, IsFiniteSet(S), NEW f, NEW g,
         \A x \in S : f[x] \in Int /\ g[x] \in Int /\ f[x] <= g[x]
  PROVE  Sum(f, S) <= Sum(g, S)
<1> DEFINE G == {T \in SUBSET S : Sum(f, T) <= Sum(g, T)}
<1>1. ASSUME NEW T \in SUBSET S, \A U \in SUBSET T : U # T => U \in G
      PROVE  T \in G
  <2>1. CASE T = {}
    BY <2>1, SumEmpty
  <2>2. CASE T # {}
    <3>1. IsFiniteSet(T) /\ Pick(T) \in S /\ Rest(T) \in G /\ Rest(T) \in SUBSET S /\ IsFiniteSet(Rest(T))
      BY <1>1, <2>2, PickIn, FS_Subset
    <3>2. Sum(f, Rest(T)) \in Int /\ Sum(g, Rest(T)) \in Int
      BY <3>1, SumInt
    <3> QED
      BY <2>2, <3>1, <3>2, SumPick
  <2> QED
    BY <2>1, <2>2
<1> HIDE DEF G
<1>2. \A T \in SUBSET S : T \in G
  BY <1>1, SubsetInduction
<1> QED
  BY <1>2 DEF G

\* The sum of a part and of the rest.
LEMMA SumSplit ==
  ASSUME NEW S, IsFiniteSet(S), NEW f, \A x \in S : f[x] \in Int, NEW A \in SUBSET S
  PROVE  /\ Sum(f, S) = Sum(f, A) + Sum(f, S \ A)
         /\ Sum(f, A) \in Int /\ Sum(f, S \ A) \in Int /\ Sum(f, S) \in Int
<1> DEFINE G == {T \in SUBSET S : Sum(f, T) = Sum(f, T \cap A) + Sum(f, T \ A)}
<1>1. ASSUME NEW T \in SUBSET S, \A U \in SUBSET T : U # T => U \in G
      PROVE  T \in G
  <2>1. CASE T = {}
    <3>1. T \cap A = {} /\ T \ A = {}
      BY <2>1
    <3> QED
      BY <2>1, <3>1, SumEmpty
  <2>2. ASSUME NEW x \in T PROVE T \in G
    <3>1. Sum(f, T \ {x}) = Sum(f, (T \ {x}) \cap A) + Sum(f, (T \ {x}) \ A)
      BY <1>1
    <3>2. IsFiniteSet(T) /\ IsFiniteSet(T \cap A) /\ IsFiniteSet(T \ A)
      BY FS_Subset
    <3>3. Sum(f, T) = f[x] + Sum(f, T \ {x}) /\ f[x] \in Int
      BY <3>2, SumRemove
    <3>4. Sum(f, T \cap A) \in Int /\ Sum(f, T \ A) \in Int
      BY <3>2, SumInt
    <3>5. CASE x \in A
      <4>1. (T \ {x}) \cap A = (T \cap A) \ {x} /\ (T \ {x}) \ A = T \ A /\ x \in T \cap A
        BY <3>5
      <4>2. Sum(f, T \cap A) = f[x] + Sum(f, (T \cap A) \ {x}) /\ Sum(f, (T \cap A) \ {x}) \in Int
        BY <3>2, <4>1, SumRemove
      <4>3. Sum(f, T \ {x}) = Sum(f, (T \cap A) \ {x}) + Sum(f, T \ A)
        BY <3>1, <4>1
      <4>4. Sum(f, T) = Sum(f, T \cap A) + Sum(f, T \ A)
        BY <3>3, <3>4, <4>2, <4>3
      <4> QED
        BY <4>4
    <3>6. CASE x \notin A
      <4>1. (T \ {x}) \ A = (T \ A) \ {x} /\ (T \ {x}) \cap A = T \cap A /\ x \in T \ A
        BY <3>6
      <4>2. Sum(f, T \ A) = f[x] + Sum(f, (T \ A) \ {x}) /\ Sum(f, (T \ A) \ {x}) \in Int
        BY <3>2, <4>1, SumRemove
      <4>3. Sum(f, T \ {x}) = Sum(f, T \cap A) + Sum(f, (T \ A) \ {x})
        BY <3>1, <4>1
      <4>4. Sum(f, T) = Sum(f, T \cap A) + Sum(f, T \ A)
        BY <3>3, <3>4, <4>2, <4>3
      <4> QED
        BY <4>4
    <3> QED
      BY <3>5, <3>6
  <2> QED
    BY <2>1, <2>2
<1> HIDE DEF G
<1>2. S \in G
  BY <1>1, SubsetInduction
<1>3. S \cap A = A /\ IsFiniteSet(A) /\ IsFiniteSet(S \ A)
  BY FS_Subset
<1> QED
  BY <1>2, <1>3, SumInt DEF G

\* A sum of zeros.
LEMMA SumZero ==
  ASSUME NEW S, IsFiniteSet(S), NEW f, \A x \in S : f[x] = 0
  PROVE  Sum(f, S) = 0
<1> DEFINE G == {T \in SUBSET S : Sum(f, T) = 0}
<1>1. ASSUME NEW T \in SUBSET S, \A U \in SUBSET T : U # T => U \in G
      PROVE  T \in G
  <2>1. CASE T = {}
    BY <2>1, SumEmpty
  <2>2. CASE T # {}
    <3>1. IsFiniteSet(T) /\ Pick(T) \in S /\ Rest(T) \in G
      BY <1>1, <2>2, PickIn, FS_Subset
    <3> QED
      BY <2>2, <3>1, SumPick
  <2> QED
    BY <2>1, <2>2
<1> HIDE DEF G
<1>2. \A T \in SUBSET S : T \in G
  BY <1>1, SubsetInduction
<1> QED
  BY <1>2 DEF G

\* A sum of natural numbers is one.
LEMMA SumNat ==
  ASSUME NEW S, IsFiniteSet(S), NEW f, \A x \in S : f[x] \in Nat
  PROVE  Sum(f, S) \in Nat
<1> DEFINE z == [x \in S |-> 0]
<1>1. Sum(z, S) = 0
  <2>1. \A x \in S : z[x] = 0
    OBVIOUS
  <2> HIDE DEF z
  <2> QED BY <2>1, SumZero
<1>2. \A x \in S : z[x] \in Int /\ f[x] \in Int /\ z[x] <= f[x]
  OBVIOUS
<1> HIDE DEF z
<1> QED
  BY <1>1, <1>2, SumMonotone, SumInt

\* The function changes at one place.
LEMMA SumChange ==
  ASSUME NEW S, IsFiniteSet(S), NEW f, NEW g, NEW x \in S,
         \A y \in S : f[y] \in Int, g[x] \in Int, \A y \in S \ {x} : g[y] = f[y]
  PROVE  Sum(g, S) = Sum(f, S) - f[x] + g[x] /\ Sum(f, S) \in Int /\ Sum(g, S) \in Int
<1>1. IsFiniteSet(S \ {x}) /\ \A y \in S : g[y] \in Int
  BY FS_Subset
<1>2. Sum(g, S \ {x}) = Sum(f, S \ {x})
  BY <1>1, SumSame
<1>3. Sum(f, S) = f[x] + Sum(f, S \ {x}) /\ Sum(f, S \ {x}) \in Int
  BY SumRemove
<1>4. Sum(g, S) = g[x] + Sum(g, S \ {x})
  BY <1>1, SumRemove
<1> QED
  BY <1>1, <1>2, <1>3, <1>4, SumInt

\* Fewer of what is not negative is not more.
LEMMA SumFewer ==
  ASSUME NEW S, IsFiniteSet(S), NEW f, \A x \in S : f[x] \in Nat, NEW A \in SUBSET S
  PROVE  Sum(f, A) <= Sum(f, S) /\ Sum(f, A) \in Nat /\ Sum(f, S) \in Nat
<1>1. Sum(f, S) = Sum(f, A) + Sum(f, S \ A)
  BY SumSplit
<1>2. Sum(f, A) \in Nat /\ Sum(f, S \ A) \in Nat /\ Sum(f, S) \in Nat
  BY SumNat, FS_Subset
<1> QED
  BY <1>1, <1>2

-----------------------------------------------------------------------------
(* What a step of a monitor does to its run.                               *)

FillStep(m) == mon[m].pc \in {"reserve", "commit", "release"}

Same(m) == /\ mon[m] # Idle
           /\ mon'[m].bar = mon[m].bar /\ mon'[m].sym = mon[m].sym /\ mon'[m].todo \subseteq mon[m].todo

Starts(m) == \E s \in Symbols : mon'[m] = [pc |-> "list", bar |-> clock, sym |-> s, todo |-> {e \in signals : SymOf(e) = s}]

Lists(m) == Same(m) /\ mon'[m].pc = "list"

Takes(m) ==
    /\ Same(m) /\ mon[m].pc = "list" /\ mon'[m].pc \in {"nofill", "reserve", "commit"}
    /\ mon'[m].ev \in mon[m].todo /\ Tries(mon'[m].ev, m)

Reads(m) ==
    /\ Takes(m) /\ mon'[m].pc \in {"reserve", "commit"}
    /\ mon'[m].seen = pos[mon[m].sym]
    /\ mon'[m].ev.act = "BUY" => ~Held(SymOf(mon'[m].ev))
    /\ mon'[m].ev.act = "ADD" => Held(SymOf(mon'[m].ev))
    /\ mon'[m].ev.act \in ExitActs => Held(mon[m].sym) /\ pos[mon[m].sym].plan = mon'[m].ev.plan

Goes(m) ==
    /\ Same(m) /\ FillStep(m) /\ mon'[m].pc \in {"commit", "release"}
    /\ mon'[m].ev = mon[m].ev /\ mon'[m].seen = mon[m].seen

Moves(m) == \/ mon'[m] = Idle \/ Starts(m) \/ Lists(m) \/ Goes(m) \/ Reads(m)
            \/ Takes(m) /\ mon'[m].pc = "nofill"

\* The monitor is done with a signal, or its run ends.
LEMMA DoneMoves ==
  ASSUME Runs, NEW m \in Monitors, mon[m] # Idle, NEW e, Done(m, e) \/ mon' = [mon EXCEPT ![m] = Idle]
  PROVE  Moves(m) /\ \A n \in Monitors : n # m => mon'[n] = mon[n]
<1>1. CASE Done(m, e)
  <2>1. mon' = [mon EXCEPT ![m] = Listing(mon[m].bar, mon[m].sym, mon[m].todo \ {e})]
    BY <1>1 DEF Done
  <2>2. mon'[m] = Listing(mon[m].bar, mon[m].sym, mon[m].todo \ {e}) /\ \A n \in Monitors : n # m => mon'[n] = mon[n]
    BY <2>1 DEF Runs
  <2>3. mon'[m] = Idle \/ mon'[m] = [pc |-> "list", bar |-> mon[m].bar, sym |-> mon[m].sym, todo |-> mon[m].todo \ {e}]
    BY <2>2 DEF Listing
  <2> QED
    BY <2>2, <2>3 DEF Moves, Lists, Same
<1>2. CASE mon' = [mon EXCEPT ![m] = Idle]
  BY <1>2 DEF Runs, Moves
<1> QED
  BY <1>1, <1>2

\* Every step of a monitor is one of these moves of its own run.
LEMMA SettleMoves ==
  ASSUME Runs, NEW m \in Monitors, Settle(m)
  PROVE  /\ Moves(m) /\ \A n \in Monitors : n # m => mon'[n] = mon[n]
         /\ signals' = signals /\ clock' = clock /\ ended' = ended
<1>1. signals' = signals /\ clock' = clock /\ ended' = ended
  BY DEF Settle, Begin, Replay, Pass, MarkRegression, SeeNoFill, ReadEntry, ReadExit, ReadRefused, NoFill,
         Reserve, ReserveLost, Commit, Duplicate, CommitRefused, CommitLost, Release, Crash
<1> DEFINE Goal == Moves(m) /\ \A n \in Monitors : n # m => mon'[n] = mon[n]
<1>2. ASSUME NEW s \in Symbols, Begin(m, s) PROVE Goal
  <2> DEFINE T == {e \in signals : SymOf(e) = s}
  <2>1. mon' = [mon EXCEPT ![m] = Listing(clock, s, T)]
    BY <1>2 DEF Begin
  <2>2. mon'[m] = Listing(clock, s, T) /\ \A n \in Monitors : n # m => mon'[n] = mon[n]
    BY <2>1 DEF Runs
  <2>3. mon'[m] = Idle \/ mon'[m] = [pc |-> "list", bar |-> clock, sym |-> s, todo |-> T]
    BY <2>2 DEF Listing
  <2> QED
    BY <2>2, <2>3 DEF Moves, Starts
<1>3. ASSUME NEW e \in signals, Replay(m, e) \/ Pass(m, e) \/ MarkRegression(m, e) \/ ReadRefused(m, e) PROVE Goal
  <2>1. mon[m] # Idle /\ (Done(m, e) \/ mon' = [mon EXCEPT ![m] = Idle])
    BY <1>3 DEF Replay, Pass, MarkRegression, ReadRefused, Attempting, Trying, Working, Fault, Idle
  <2> QED
    BY <2>1, DoneMoves
<1>4. ASSUME NEW e \in signals, SeeNoFill(m, e) PROVE Goal
  <2> DEFINE x == [pc |-> "nofill", bar |-> mon[m].bar, sym |-> mon[m].sym, todo |-> mon[m].todo, ev |-> e]
  <2>1. mon' = [mon EXCEPT ![m] = x] /\ mon[m].pc = "list" /\ e \in mon[m].todo /\ Tries(e, m) /\ mon[m] # Idle
    BY <1>4 DEF SeeNoFill, Attempting, Trying, Working, Idle
  <2>2. mon'[m] = x /\ \A n \in Monitors : n # m => mon'[n] = mon[n]
    BY <2>1 DEF Runs
  <2> QED
    BY <2>1, <2>2 DEF Moves, Takes, Same
<1>5. ASSUME NEW e \in signals, NEW l, NEW q, Snapshot(m, e, l, q), l \in {"reserve", "commit"},
             Working(m, e), Tries(e, m), e.act = "BUY" => ~Held(SymOf(e)), e.act = "ADD" => Held(SymOf(e)),
             e.act \in ExitActs => Held(mon[m].sym) /\ pos[mon[m].sym].plan = e.plan
      PROVE Goal
  <2> DEFINE x == [pc |-> l, bar |-> mon[m].bar, sym |-> mon[m].sym, todo |-> mon[m].todo, ev |-> e,
                   qty |-> q, cash |-> cash, seen |-> pos[mon[m].sym], fault |-> FALSE]
  <2>1. mon' = [mon EXCEPT ![m] = x] /\ mon[m].pc = "list" /\ e \in mon[m].todo /\ mon[m] # Idle
    BY <1>5 DEF Snapshot, Working, Idle
  <2>2. mon'[m] = x /\ \A n \in Monitors : n # m => mon'[n] = mon[n]
    BY <2>1 DEF Runs
  <2> QED
    BY <1>5, <2>1, <2>2 DEF Moves, Reads, Takes, Same
<1>6. ASSUME NEW e \in signals, ReadEntry(m, e) PROVE Goal
  <2>1. Snapshot(m, e, "reserve", e.lim) /\ Working(m, e) /\ Tries(e, m) /\ e.act \notin ExitActs
    BY <1>6 DEF ReadEntry, Attempting, Trying, EntryActs, ExitActs
  <2>2. (e.act = "BUY" => ~Held(SymOf(e))) /\ (e.act = "ADD" => Held(SymOf(e)))
    BY <1>6 DEF ReadEntry
  <2> QED
    BY <1>5, <2>1, <2>2
<1>7. ASSUME NEW e \in signals, ReadExit(m, e) PROVE Goal
  <2>1. PICK q \in 1 .. Asked(e) : Snapshot(m, e, "commit", q)
    BY <1>7 DEF ReadExit
  <2>2. Working(m, e) /\ Tries(e, m) /\ e.act \in ExitActs /\ e.act \notin EntryActs /\ e.act # "BUY" /\ e.act # "ADD"
    BY <1>7 DEF ReadExit, Attempting, Trying, EntryActs, ExitActs
  <2>3. Held(mon[m].sym) /\ pos[mon[m].sym].plan = e.plan
    BY <2>2 DEF Tries, Ripe
  <2> QED
    BY <1>5, <2>1, <2>2, <2>3
<1>8. ASSUME NoFill(m) \/ ReserveLost(m) \/ Commit(m) \/ Duplicate(m) \/ CommitLost(m) \/ Release(m) \/ Crash(m) PROVE Goal
  <2>1. mon[m] # Idle /\ (Done(m, mon[m].ev) \/ mon' = [mon EXCEPT ![m] = Idle])
    BY <1>8 DEF NoFill, ReserveLost, Commit, Duplicate, CommitLost, Release, Crash, Fault, Idle
  <2> QED
    BY <2>1, DoneMoves
<1>9. ASSUME Reserve(m) PROVE Goal
  <2>1. mon[m].pc = "reserve" /\ mon[m] # Idle /\ FillRun(m)
    BY <1>9, RunSteps DEF Reserve, Idle
  <2>2. CASE Done(m, mon[m].ev)
    BY <2>1, <2>2, DoneMoves
  <2>3. CASE mon' = [mon EXCEPT ![m].pc = "commit"]
    <3>1. mon'[m] = [mon[m] EXCEPT !.pc = "commit"] /\ \A n \in Monitors : n # m => mon'[n] = mon[n]
      BY <2>3 DEF Runs
    <3>2. FillShape(m)
      BY <2>1 DEF FillRun
    <3>3. /\ mon'[m].pc = "commit" /\ mon'[m].bar = mon[m].bar /\ mon'[m].sym = mon[m].sym
          /\ mon'[m].todo = mon[m].todo /\ mon'[m].ev = mon[m].ev /\ mon'[m].seen = mon[m].seen
      BY <3>1, <3>2 DEF FillShape
    <3> QED
      BY <2>1, <3>1, <3>3 DEF Moves, Goes, Same, FillStep
  <2> QED
    BY <1>9, <2>2, <2>3 DEF Reserve
<1>10. ASSUME CommitRefused(m) PROVE Goal
  <2>1. mon[m].pc = "commit" /\ mon[m] # Idle /\ FillRun(m) /\ Refuse(m, EndedLifecycle(m))
    BY <1>10, RunSteps DEF CommitRefused, Idle
  <2>2. CASE IsEntry(m)
    <3>1. mon' = [mon EXCEPT ![m] = Releasing(m, EndedLifecycle(m))]
      BY <2>1, <2>2, ReleaseRecord DEF Refuse
    <3>2. mon'[m] = Releasing(m, EndedLifecycle(m)) /\ \A n \in Monitors : n # m => mon'[n] = mon[n]
      BY <3>1 DEF Runs
    <3> QED
      BY <2>1, <3>2 DEF Moves, Goes, Same, FillStep, Releasing
  <2>3. CASE ~IsEntry(m)
    <3>1. Done(m, mon[m].ev) \/ mon' = [mon EXCEPT ![m] = Idle]
      BY <2>1, <2>3 DEF Refuse, Fault
    <3> QED
      BY <2>1, <3>1, DoneMoves
  <2> QED
    BY <2>2, <2>3
<1> QED
  BY <1>1, <1>2, <1>3, <1>4, <1>6, <1>7, <1>8, <1>9, <1>10 DEF Settle

-----------------------------------------------------------------------------
(* Times: no run is left over from an earlier session, and an entry is     *)
(* filled in the session of its plan.                                      *)

Timed(m) ==
    mon[m] # Idle =>
        /\ mon[m].bar \in Minutes /\ Day(mon[m].bar) = Today
        /\ \A e \in mon[m].todo : SymOf(e) = mon[m].sym
        /\ mon[m].pc # "list" => SymOf(mon[m].ev) = mon[m].sym
        /\ FillStep(m) /\ IsEntry(m) => DayOf[mon[m].ev.plan] = Today

Clocked ==
    /\ clock \in Minutes /\ ended \subseteq Plans
    /\ signals \subseteq Signals
    /\ \A e \in signals : e.act \in EntryActs => Day(e.at) = DayOf[e.plan]
    /\ \A m \in Monitors : Timed(m)

\* A minute belongs to a session.
LEMMA DayType ==
  ASSUME NEW t \in Minutes
  PROVE  Day(t) \in Days
<1>1. t \in Nat /\ NDays \in Nat /\ MinutesPerDay \in Nat \ {0} /\ NDays * MinutesPerDay \in Nat /\ t < NDays * MinutesPerDay
  BY SettlementAssumption DEF Minutes
<1>2. t \div MinutesPerDay \in Nat /\ MinutesPerDay * (t \div MinutesPerDay) <= t
  BY <1>1
<1>3. ASSUME NDays <= t \div MinutesPerDay PROVE FALSE
  <2>1. MinutesPerDay * NDays <= MinutesPerDay * (t \div MinutesPerDay) /\ MinutesPerDay * NDays = NDays * MinutesPerDay
    BY <1>1, <1>2, <1>3, Times
  <2> QED
    BY <1>1, <1>2, <2>1
<1> QED
  BY <1>1, <1>2, <1>3 DEF Day, Days

\* The session of the next minute is not an earlier one.
LEMMA DayGrows ==
  ASSUME NEW t \in Minutes, t + 1 \in Minutes
  PROVE  Day(t) <= Day(t + 1) /\ Day(t) \in Nat /\ Day(t + 1) \in Nat
<1>1. t \in Nat /\ MinutesPerDay \in Nat \ {0}
  BY SettlementAssumption DEF Minutes
<1> DEFINE M == MinutesPerDay
           a == t \div M
           b == (t + 1) \div M
<1>2. a \in Nat /\ b \in Nat /\ M * a <= t /\ t + 1 < M * (b + 1)
  BY <1>1
<1>3. ASSUME b + 1 <= a PROVE FALSE
  <2>1. M * (b + 1) <= M * a /\ M * (b + 1) \in Nat /\ M * a \in Nat
    BY <1>1, <1>2, <1>3, Times
  <2> QED
    BY <1>1, <1>2, <2>1
<1> QED
  BY <1>2, <1>3 DEF Day

\* The runs of a step of one monitor.
LEMMA ClockedSettle ==
  ASSUME Runs, Clocked, NEW m \in Monitors, Settle(m)
  PROVE  Clocked'
<1>1. /\ Moves(m) /\ \A n \in Monitors : n # m => mon'[n] = mon[n]
      /\ signals' = signals /\ clock' = clock /\ ended' = ended
  BY SettleMoves
<1>2. Timed(m)
  BY DEF Clocked
<1>3. Timed(m)'
  <2>1. CASE mon'[m] = Idle
    BY <2>1 DEF Timed
  <2>2. CASE Starts(m)
    <3>1. PICK s \in Symbols : mon'[m] = [pc |-> "list", bar |-> clock, sym |-> s, todo |-> {e \in signals : SymOf(e) = s}]
      BY <2>2 DEF Starts
    <3>2. mon'[m].pc = "list" /\ mon'[m].bar = clock /\ mon'[m].sym = s /\ mon'[m].todo = {e \in signals : SymOf(e) = s}
      BY <3>1
    <3> QED
      BY <1>1, <3>2 DEF Timed, FillStep, Clocked, Today, SymOf
  <2>3. CASE Lists(m)
    BY <1>1, <1>2, <2>3 DEF Lists, Same, Timed, FillStep, Today, SymOf
  <2>4. CASE Goes(m)
    <3>1. mon[m].pc # "list"
      BY <2>4 DEF Goes, FillStep
    <3> QED
      BY <1>1, <1>2, <2>4, <3>1 DEF Goes, Same, Timed, FillStep, Today, SymOf, IsEntry
  <2>5. CASE Takes(m)
    <3> DEFINE e == mon'[m].ev
    <3>1. e \in signals /\ SymOf(e) = mon[m].sym
      BY <1>2, <2>5, RunSteps DEF Takes, Same, Timed
    <3>2. e.act \in EntryActs => DayOf[e.plan] = Today
      BY <1>2, <2>5, <3>1 DEF Takes, Same, Tries, Due, Timed, Clocked
    <3> QED
      BY <1>1, <1>2, <2>5, <3>1, <3>2 DEF Takes, Same, Timed, FillStep, Today, SymOf, IsEntry
  <2> QED
    BY <1>1, <2>1, <2>2, <2>3, <2>4, <2>5 DEF Moves, Reads
<1>4. \A n \in Monitors : n # m => Timed(n)'
  BY <1>1 DEF Clocked, Timed, FillStep, Today, SymOf, IsEntry
<1> QED
  BY <1>1, <1>3, <1>4 DEF Clocked

\* What a signal is, and that the runs do not see it.
LEMMA ClockedSignal ==
  ASSUME Runs, Clocked, NEW p \in Plans,
         BuySignal(p) \/ AddSignal(p) \/ PlanInvalidated(p) \/ EntryWindowMissing(p)
         \/ \E a \in ExitActs : ExitSignal(p, a)
  PROVE  Clocked'
<1>1. mon' = mon /\ clock' = clock /\ ended' \subseteq Plans
  BY DEF BuySignal, AddSignal, PlanInvalidated, EntryWindowMissing, ExitSignal, Clocked
<1>2. \A m \in Monitors : Timed(m)'
  BY <1>1 DEF Clocked, Timed, FillStep, Today, SymOf, IsEntry
<1>3. clock \in Minutes
  BY DEF Clocked
<1>4. \A e \in signals' \ signals : e \in Signals /\ (e.act \in EntryActs => Day(e.at) = DayOf[e.plan])
  <2>1. CASE BuySignal(p)
    <3>1. PICK w \in Windows, n \in 1 .. Qty :
             signals' = signals \cup {[act |-> "BUY", plan |-> p, at |-> clock, win |-> w, lim |-> n]}
      BY <2>1 DEF BuySignal
    <3>2. DayOf[p] = Day(clock)
      BY <2>1 DEF BuySignal, Active, Today
    <3> QED
      BY <1>3, <3>1, <3>2 DEF Signals, EntryActs
  <2>2. CASE AddSignal(p)
    <3>1. PICK w \in Windows :
             signals' = signals \cup {[act |-> "ADD", plan |-> p, at |-> clock, win |-> w, lim |-> Qty]}
      BY <2>2 DEF AddSignal
    <3>2. DayOf[p] = Day(clock) /\ Qty \in 1 .. Qty
      BY <2>2, SettlementAssumption DEF AddSignal, Active, Today
    <3> QED
      BY <1>3, <3>1, <3>2 DEF Signals, EntryActs
  <2>3. CASE PlanInvalidated(p) \/ EntryWindowMissing(p)
    BY <2>3 DEF PlanInvalidated, EntryWindowMissing
  <2>4. ASSUME NEW a \in ExitActs, ExitSignal(p, a)
        PROVE  \A e \in signals' \ signals : e \in Signals /\ (e.act \in EntryActs => Day(e.at) = DayOf[e.plan])
    <3>1. signals' = signals \cup {[act |-> a, plan |-> p, at |-> clock]}
      BY <2>4 DEF ExitSignal
    <3>2. a \notin EntryActs
      BY DEF EntryActs, ExitActs
    <3> QED
      BY <1>3, <3>1, <3>2 DEF Signals
  <2> QED
    BY <2>1, <2>2, <2>3, <2>4
<1> QED
  BY <1>1, <1>2, <1>3, <1>4 DEF Clocked

\* The times hold in every state.
LEMMA ClockedAlways == Spec => []Clocked
<1>1. Init => Clocked
  <2>1. 0 \in Minutes
    <3>1. NDays >= 1 /\ MinutesPerDay >= 1 /\ NDays \in Nat /\ MinutesPerDay \in Nat
      BY SettlementAssumption
    <3>2. NDays * 1 <= NDays * MinutesPerDay /\ NDays * MinutesPerDay \in Nat /\ NDays * 1 = NDays
      BY <3>1, Times
    <3> QED
      BY <3>1, <3>2 DEF Minutes
  <2> QED
    BY <2>1 DEF Init, Clocked, Timed
<1>2. Runs /\ Clocked /\ [Next]_vars => Clocked'
  <2> SUFFICES ASSUME Runs, Clocked, [Next]_vars PROVE Clocked'
    OBVIOUS
  <2>1. CASE UNCHANGED vars
    BY <2>1 DEF vars, Clocked, Timed, FillStep, Today, SymOf, IsEntry
  <2>2. CASE Tick
    <3>1. clock' \in Minutes /\ mon' = mon /\ signals' = signals /\ ended' = ended
      BY <2>2 DEF Tick
    <3>2. Day(clock') # Today => \A m \in Monitors : mon[m] = Idle
      BY <2>2 DEF Tick
    <3>3. \A m \in Monitors : Timed(m)'
      BY <3>1, <3>2 DEF Clocked, Timed, FillStep, Today, SymOf, IsEntry
    <3> QED
      BY <3>1, <3>3 DEF Clocked
  <2> QED
    BY <2>1, <2>2, ClockedSignal, ClockedSettle DEF Next, Signal
<1> QED
  BY <1>1, <1>2, RunsAlways, PTL DEF Spec

-----------------------------------------------------------------------------
(* The books: the fills of a symbol, its lots, its position and the cash.  *)

\* Induction over the numbers up to n, with a set for the predicate.
LEMMA UpTo ==
  ASSUME NEW n \in Nat, NEW G, 0 \in G, \A k \in 0 .. n - 1 : k \in G => k + 1 \in G
  PROVE  n \in G
<1> DEFINE B == {0 .. k : k \in {k \in 0 .. n : k \notin G}}
<1>1. SUFFICES ASSUME n \notin G PROVE FALSE
  OBVIOUS
<1>2. B \in SUBSET SUBSET (0 .. n) /\ B # {}
  BY <1>1
<1>3. IsFiniteSet(0 .. n)
  BY FS_Interval
<1>4. PICK T \in B : \A U \in B : U \subseteq T => U = T
  <2> DEFINE S == 0 .. n
  <2>1. IsFiniteSet(S) /\ B \in SUBSET SUBSET S /\ B # {}
    BY <1>2, <1>3
  <2> HIDE DEF B, S
  <2> QED BY <2>1, Smallest
<1>5. PICK k \in 0 .. n : k \notin G /\ T = 0 .. k
  BY <1>4
<1>6. k # 0 /\ k - 1 \in 0 .. n - 1
  BY <1>5
<1>7. k - 1 \notin G
  BY <1>5, <1>6
<1>8. 0 .. (k - 1) \in B /\ 0 .. (k - 1) \subseteq T
  BY <1>5, <1>6, <1>7
<1>9. k \in T /\ k \notin 0 .. (k - 1)
  BY <1>5
<1> QED
  BY <1>4, <1>8, <1>9

Before(d) == {x \in Days : x < d}

\* What is settled, as a sum over the sessions before.
LEMMA SellableIs == \A s, d : Sellable(s, d) = Sum(lots[s], Before(d))
BY DEF Sellable, Before

\* The sessions are an initial part of the natural numbers.
LEMMA DaysNat == \A d \in Days : d \in Nat /\ \A n \in Nat : n <= d => n \in Days
BY SettlementAssumption DEF Days

\* One more session before.
LEMMA BeforeNext == \A d \in Days : Before(d + 1) = Before(d) \cup {d} /\ d \notin Before(d)
BY DaysNat DEF Before

\* The sessions are finite.
LEMMA DaysFinite == IsFiniteSet(Days) /\ \A d : IsFiniteSet(Before(d)) /\ Before(d) \subseteq Days
<1>1. IsFiniteSet(Days)
  BY FS_Interval, SettlementAssumption DEF Days
<1> QED
  BY <1>1, FS_Subset DEF Before

\* What is settled at the start of a day, one day later.
LEMMA SettledNext ==
  ASSUME NEW s, lots[s] \in [Days -> Nat], NEW d \in Days
  PROVE  /\ Sellable(s, 0) = 0 /\ Sellable(s, d) \in Nat
         /\ Sellable(s, d + 1) = Sellable(s, d) + lots[s][d]
<1>1. Before(0) = {} /\ Before(d + 1) = Before(d) \cup {d} /\ d \notin Before(d) /\ d \in Nat
  BY DaysNat, BeforeNext DEF Before
<1>2. Sum(lots[s], Before(0)) = 0
  BY <1>1, SumEmpty
<1>3. Sum(lots[s], Before(d) \cup {d}) = lots[s][d] + Sum(lots[s], Before(d))
  <2>1. \A y \in Before(d) \cup {d} : lots[s][y] \in Int
    BY DaysFinite
  <2> QED
    BY <1>1, <2>1, DaysFinite, SumAdd
<1>4. Sum(lots[s], Before(d)) \in Nat
  BY DaysFinite, SumNat
<1> QED
  BY <1>1, <1>2, <1>3, <1>4, SellableIs

\* Settled is not more than held, and grows with the days.
LEMMA SettledGrows ==
  ASSUME NEW s, lots[s] \in [Days -> Nat], NEW d \in Nat, NEW e \in Nat, d <= e
  PROVE  /\ Sellable(s, d) <= Sellable(s, e) /\ Sellable(s, e) <= Sum(lots[s], Days)
         /\ Sellable(s, d) \in Nat /\ Sellable(s, e) \in Nat /\ Sum(lots[s], Days) \in Nat
<1>1. Before(d) \subseteq Before(e) /\ Before(e) \subseteq Days /\ \A x \in Days : lots[s][x] \in Nat
  BY DaysNat DEF Before
<1>2. Sum(lots[s], Before(d)) <= Sum(lots[s], Before(e)) /\ Sum(lots[s], Before(d)) \in Nat
  <2>1. \A x \in Before(e) : lots[s][x] \in Nat
    BY <1>1
  <2> QED
    BY <1>1, <2>1, DaysFinite, SumFewer
<1>3. Sum(lots[s], Before(e)) <= Sum(lots[s], Days) /\ Sum(lots[s], Before(e)) \in Nat /\ Sum(lots[s], Days) \in Nat
  BY <1>1, DaysFinite, SumFewer
<1> QED
  BY <1>2, <1>3, SellableIs

\* First in, first out: a sale of q takes q of the settled shares and nothing
\* else, and leaves no lot negative.
LEMMA SoldTakes ==
  ASSUME NEW s \in Symbols, lots[s] \in [Days -> Nat], Today \in Days,
         NEW q \in Nat, q <= Sellable(s, Today),
         lots' = [lots EXCEPT ![s] = Sold(s, q)], lots \in [Symbols -> [Days -> Nat]]
  PROVE  /\ lots'[s] \in [Days -> Nat]
         /\ Sum(lots'[s], Before(Today)) = Sum(lots[s], Before(Today)) - q
         /\ Sum(lots'[s], Days) = Sum(lots[s], Days) - q
         /\ lots'[s][Today] = lots[s][Today]
<1> DEFINE E(n) == Sum(lots[s], Before(n))
           H(n) == Sum(lots'[s], Before(n))
           G == {n \in Nat : n <= Today => H(n) = IF q <= E(n) THEN E(n) - q ELSE 0}
<1>1. \A n \in Nat : E(n) = Sellable(s, n)
  BY SellableIs
<1>2. /\ lots'[s] = Sold(s, q)
      /\ \A d \in Days : d >= Today => lots'[s][d] = lots[s][d]
      /\ \A d \in Days : d < Today =>
           lots'[s][d] = IF q <= E(d) THEN lots[s][d]
                         ELSE IF lots[s][d] < q - E(d) THEN 0 ELSE lots[s][d] - (q - E(d))
  <2>1. lots'[s] = Sold(s, q)
    OBVIOUS
  <2>2. \A d \in Days : d \in Int /\ Today \in Int /\ lots[s][d] \in Nat /\ Sellable(s, d) \in Nat /\ E(d) = Sellable(s, d)
    BY <1>1, SettledNext, DaysNat
  <2>3. \A d \in Days : lots'[s][d] = lots[s][d] - (IF d >= Today \/ q <= Sellable(s, d) THEN 0
                    ELSE IF lots[s][d] < q - Sellable(s, d) THEN lots[s][d] ELSE q - Sellable(s, d))
    BY <2>1 DEF Sold
  <2> HIDE DEF E
  <2> QED
    BY <2>1, <2>2, <2>3
<1>3. \A d \in Days : E(d) \in Nat /\ lots[s][d] \in Nat
  BY <1>1, SettledNext, DaysNat
<1>4. lots'[s] \in [Days -> Nat]
  <2>1. \A d \in Days : lots'[s][d] \in Nat
    <3> HIDE DEF E
    <3> QED BY <1>2, <1>3, DaysNat
  <2>2. lots'[s] = [d \in Days |-> lots'[s][d]]
    BY <1>2 DEF Sold
  <2> QED
    BY <2>1, <2>2
<1>5. 0 \in G
  <2>1. H(0) = 0 /\ E(0) = 0
    <3>1. Before(0) = {}
      BY DaysNat DEF Before
    <3> QED
      BY <3>1, SumEmpty
  <2> QED
    BY <2>1
<1>6. ASSUME NEW n \in 0 .. Today - 1, n \in G PROVE n + 1 \in G
  <2>1. n \in Days /\ n \in Nat /\ Today \in Nat /\ n < Today
    BY DaysNat
  <2>2. /\ Before(n + 1) = Before(n) \cup {n} /\ n \notin Before(n)
        /\ IsFiniteSet(Before(n)) /\ \A y \in Before(n) \cup {n} : y \in Days
    <3>1. Before(n + 1) = Before(n) \cup {n} /\ n \notin Before(n)
      BY <2>1, BeforeNext
    <3> QED
      BY <2>1, <3>1, DaysFinite
  <2>3. E(n + 1) = lots[s][n] + E(n)
    <3>1. \A y \in Before(n) \cup {n} : lots[s][y] \in Int
      BY <2>2
    <3> QED
      BY <2>2, <3>1, SumAdd
  <2>4. H(n + 1) = lots'[s][n] + H(n)
    <3>1. \A y \in Before(n) \cup {n} : lots'[s][y] \in Int
      BY <1>4, <2>2
    <3> QED
      BY <2>2, <3>1, SumAdd
  <2>5. H(n) = IF q <= E(n) THEN E(n) - q ELSE 0
    BY <1>6, <2>1
  <2>6. E(n) \in Nat /\ lots[s][n] \in Nat
        /\ lots'[s][n] = IF q <= E(n) THEN lots[s][n]
                         ELSE IF lots[s][n] < q - E(n) THEN 0 ELSE lots[s][n] - (q - E(n))
    BY <1>2, <1>3, <2>1
  <2>7. H(n + 1) = IF q <= E(n + 1) THEN E(n + 1) - q ELSE 0
    <3> HIDE DEF E, H
    <3> QED BY <2>3, <2>4, <2>5, <2>6
  <2> QED
    BY <2>1, <2>7
<1>7. H(Today) = E(Today) - q
  <2>1. Today \in Nat
    BY DaysNat
  <2>2. Today \in G
    <3> HIDE DEF G
    <3> QED BY <1>5, <1>6, <2>1, UpTo
  <2> QED
    BY <1>1, <2>1, <2>2
<1>8. Sum(lots'[s], Days \ Before(Today)) = Sum(lots[s], Days \ Before(Today))
  <2>1. \A d \in Days \ Before(Today) : lots'[s][d] = lots[s][d]
    BY <1>2, DaysNat DEF Before
  <2> QED
    BY <2>1, DaysFinite, FS_Subset, SumSame
<1>9. /\ Sum(lots[s], Days) = E(Today) + Sum(lots[s], Days \ Before(Today))
      /\ E(Today) \in Int /\ Sum(lots[s], Days \ Before(Today)) \in Int
  <2>1. \A d \in Days : lots[s][d] \in Int
    OBVIOUS
  <2> QED
    BY <2>1, DaysFinite, SumSplit
<1>10. Sum(lots'[s], Days) = H(Today) + Sum(lots'[s], Days \ Before(Today))
  <2>1. \A d \in Days : lots'[s][d] \in Int
    BY <1>4
  <2> QED
    BY <2>1, DaysFinite, SumSplit
<1> QED
  <2>1. lots'[s][Today] = lots[s][Today]
    BY <1>2, DaysNat
  <2>2. Sum(lots'[s], Days) = Sum(lots[s], Days) - q
    <3> HIDE DEF E, H
    <3> QED BY <1>7, <1>8, <1>9, <1>10
  <2> QED
    BY <1>4, <1>7, <2>1, <2>2

\* What the fills of a symbol add up to.
Amounts(F) == [f \in F |-> f.qty]
FillsOf(s, A) == {f \in fills : SymOf(f.sig) = s /\ f.sig.act \in A}

\* One more fill in the table, counted or not.
LEMMA AmountSums ==
  ASSUME NEW F, IsFiniteSet(F), \A f \in F : f.qty \in Nat, NEW g, g.qty \in Nat, g \notin F, NEW T \in SUBSET F
  PROVE  /\ Sum(Amounts(F), T) \in Nat
         /\ Sum(Amounts(F \cup {g}), T) = Sum(Amounts(F), T)
         /\ Sum(Amounts(F \cup {g}), T \cup {g}) = Sum(Amounts(F), T) + g.qty
<1>1. IsFiniteSet(T) /\ g \notin T
  BY FS_Subset
<1>2. \A f \in T : Amounts(F)[f] \in Nat /\ Amounts(F \cup {g})[f] = Amounts(F)[f]
  BY DEF Amounts
<1>3. Sum(Amounts(F), T) \in Nat /\ Sum(Amounts(F \cup {g}), T) = Sum(Amounts(F), T)
  BY <1>1, <1>2, SumNat, SumSame
<1>4. \A f \in T \cup {g} : Amounts(F \cup {g})[f] \in Int
  BY DEF Amounts
<1>5. Sum(Amounts(F \cup {g}), T \cup {g}) = Amounts(F \cup {g})[g] + Sum(Amounts(F \cup {g}), T)
  BY <1>1, <1>4, SumAdd
<1> QED
  BY <1>3, <1>5 DEF Amounts

FillsSound ==
    /\ fills \subseteq [sig : signals, qty : Nat \ {0}, day : Days]
    /\ IsFiniteSet(fills)
    /\ \A f, g \in fills : f.sig = g.sig => f = g
    /\ \A f \in fills : /\ f.day <= Today
                        /\ f.sig.act \in EntryActs => f.day = DayOf[f.sig.plan]

\* What was filled, as a sum of amounts.
LEMMA FilledIs ==
  \A s, A : FilledOf(s, A) = Sum(Amounts(fills), FillsOf(s, A))
BY DEF FilledOf, FillsOf, Amounts

\* One more fill of symbol s.
LEMMA FilledMore ==
  ASSUME FillsSound, NEW g, g.qty \in Nat, g \notin fills, fills' = fills \cup {g}, NEW s, NEW A
  PROVE  /\ FilledOf(s, A) \in Nat
         /\ FilledOf(s, A)' = FilledOf(s, A) + (IF SymOf(g.sig) = s /\ g.sig.act \in A THEN g.qty ELSE 0)
<1> DEFINE T == {f \in fills : SymOf(f.sig) = s /\ f.sig.act \in A}
<1>1. T \in SUBSET fills /\ IsFiniteSet(fills) /\ \A f \in fills : f.qty \in Nat
  BY DEF FillsSound
<1>2. FilledOf(s, A) = Sum(Amounts(fills), T)
  BY DEF FilledOf, Amounts
<1>3. FilledOf(s, A)' = Sum(Amounts(fills \cup {g}), IF SymOf(g.sig) = s /\ g.sig.act \in A THEN T \cup {g} ELSE T)
  <2>1. FilledOf(s, A)' = Sum(Amounts(fills'), {f \in fills' : SymOf(f.sig) = s /\ f.sig.act \in A})
    BY DEF FilledOf, Amounts, SymOf
  <2>2. {f \in fills' : SymOf(f.sig) = s /\ f.sig.act \in A} = IF SymOf(g.sig) = s /\ g.sig.act \in A THEN T \cup {g} ELSE T
    OBVIOUS
  <2> QED
    BY <2>1, <2>2
<1> HIDE DEF T
<1>4. /\ Sum(Amounts(fills), T) \in Nat
      /\ Sum(Amounts(fills \cup {g}), T) = Sum(Amounts(fills), T)
      /\ Sum(Amounts(fills \cup {g}), T \cup {g}) = Sum(Amounts(fills), T) + g.qty
  BY <1>1, AmountSums
<1> QED
  BY <1>2, <1>3, <1>4

-----------------------------------------------------------------------------
Positions == {NoPosition} \cup [total : Nat \ {0}, sellable : Nat, plan : Plans, adds : {0, 1}]

\* A plan that has bought.
Owned(F, p) == \E f \in F : f.sig.act \in EntryActs /\ f.sig.plan = p

StockOf(s) ==
    /\ pos[s] \in Positions /\ lots[s] \in [Days -> Nat]
    /\ pos[s].total = Sum(lots[s], Days)
    /\ pos[s].total = BoughtOf(s) - SoldOf(s)
    /\ Held(s) => pos[s].sellable <= Sellable(s, Today) /\ Owned(fills, pos[s].plan)
    /\ (\E f \in fills : SymOf(f.sig) = s /\ f.sig.act \in EntryActs /\ f.day = Today) => lots[s][Today] > 0

Stock ==
    /\ pos = [s \in Symbols |-> pos[s]] /\ lots = [s \in Symbols |-> lots[s]]
    /\ \A s \in Symbols : StockOf(s)

CashBooked ==
    /\ cash \in Int
    /\ cash = InitialCash + FillPrice * Sum([s \in Symbols |-> SoldOf(s) - BoughtOf(s)], Symbols)

SnapshotOf(m) ==
    FillStep(m) =>
        /\ mon[m].seen \in Positions
        /\ mon[m].ev.act = "BUY" <=> mon[m].seen = NoPosition
        /\ mon[m].ev.act \in ExitActs => Owned(fills, mon[m].ev.plan)

Snapshots == \A m \in Monitors : SnapshotOf(m)

Books == FillsSound /\ Stock /\ CashBooked /\ Snapshots

\* The commit of a fill that is not refused.
Fills(m) == mon[m].pc = "commit" /\ Admissible(m) /\ ~Filled(mon[m].ev) /\ Filling(m)

\* A step of a monitor leaves the account alone, releases it, or fills.
LEMMA SettleAccount ==
  ASSUME NEW m \in Monitors, Settle(m)
  PROVE  \/ fills' = fills /\ cash' = cash /\ pos' = pos /\ lots' = lots
         \/ fills' = fills /\ cash' = cash /\ pos' = Released /\ lots' = lots
         \/ Fills(m)
BY DEF Settle, Begin, Replay, Pass, MarkRegression, SeeNoFill, ReadEntry, ReadExit, ReadRefused, NoFill,
       Reserve, ReserveLost, Commit, Duplicate, CommitRefused, CommitLost, Release, Crash, account, Fills

\* Only the empty position holds nothing.
LEMMA PositionTotals ==
  ASSUME NEW x \in Positions
  PROVE  x.total \in Nat /\ (x = NoPosition <=> x.total = 0)
BY DEF Positions, NoPosition

\* What a run that fills is about.
LEMMA FillsAbout ==
  ASSUME Runs, Clocked, Books, NEW m \in Monitors, Fills(m)
  PROVE  /\ mon[m].ev \in signals /\ mon[m].ev.act \in Acts /\ mon[m].ev.plan \in Plans
         /\ mon[m].sym \in Symbols /\ SymOf(mon[m].ev) = mon[m].sym
         /\ mon[m].qty \in Nat \ {0} /\ Today \in Days
         /\ IsEntry(m) => DayOf[mon[m].ev.plan] = Today
         /\ mon[m].seen.total = pos[mon[m].sym].total
         /\ mon[m].seen = NoPosition <=> ~Held(mon[m].sym)
         /\ Held(mon[m].sym) => mon[m].seen.sellable = pos[mon[m].sym].sellable
         /\ mon[m].seen \in Positions
         /\ mon[m].ev.act = "BUY" <=> mon[m].seen = NoPosition
         /\ mon[m].ev.act \in ExitActs => Owned(fills, mon[m].ev.plan)
         /\ mon[m].cash = cash
<1>1. mon[m].pc = "commit" /\ FillRun(m) /\ mon[m].ev \in signals /\ mon[m] # Idle
  BY RunSteps DEF Fills, Idle
<1>2. mon[m].ev.act \in Acts /\ mon[m].ev.plan \in Plans /\ mon[m].qty \in Nat \ {0}
  BY <1>1 DEF Runs, FillRun
<1>3. SymOf(mon[m].ev) = mon[m].sym /\ (IsEntry(m) => DayOf[mon[m].ev.plan] = Today)
  BY <1>1 DEF Clocked, Timed, FillStep
<1>4. mon[m].sym \in Symbols
  BY <1>2, <1>3, SettlementAssumption DEF SymOf
<1>5. /\ mon[m].seen \in Positions /\ (mon[m].ev.act = "BUY" <=> mon[m].seen = NoPosition)
      /\ mon[m].ev.act \in ExitActs => Owned(fills, mon[m].ev.plan)
  BY <1>1 DEF Books, Snapshots, SnapshotOf, FillStep
<1>6. /\ mon[m].cash = cash /\ mon[m].seen.total = pos[mon[m].sym].total
      /\ Held(mon[m].sym) => mon[m].seen.sellable = pos[mon[m].sym].sellable
  BY DEF Fills, Admissible, StillAsRead
<1>7. mon[m].seen = NoPosition <=> ~Held(mon[m].sym)
  <2>1. pos[mon[m].sym] \in Positions
    BY <1>4 DEF Books, Stock, StockOf
  <2> QED
    BY <1>5, <1>6, <2>1, PositionTotals DEF Held
<1>8. Today \in Days
  BY DayType DEF Clocked, Today
<1> QED
  BY <1>1, <1>2, <1>3, <1>4, <1>5, <1>6, <1>7, <1>8

\* The fill that a run adds.
NewFill(m) == [sig |-> mon[m].ev, qty |-> mon[m].qty, day |-> Today]

\* A fill is one more row, of a signal that had none.
LEMMA FillsMore ==
  ASSUME Runs, Clocked, Books, NEW m \in Monitors, Fills(m), signals' = signals, clock' = clock
  PROVE  FillsSound' /\ fills' = fills \cup {NewFill(m)} /\ NewFill(m) \notin fills
<1> DEFINE e == mon[m].ev
           g == NewFill(m)
<1>1. fills' = fills \cup {g} /\ g.sig = e /\ g.qty = mon[m].qty /\ g.day = Today
  BY DEF Fills, Filling, NewFill
<1>2. e \in signals /\ g \in [sig : signals, qty : Nat \ {0}, day : Days] /\ Today \in Days
  BY FillsAbout DEF NewFill
<1>3. \A f \in fills : f.sig # e
  BY DEF Fills, Filled
<1>4. g.sig.act \in EntryActs => g.day = DayOf[g.sig.plan]
  BY <1>1, FillsAbout DEF IsEntry
<1> HIDE DEF g, e
<1>5. IsFiniteSet(fills')
  BY <1>1, FS_AddElement DEF Books, FillsSound
<1>6. fills' \subseteq [sig : signals', qty : Nat \ {0}, day : Days]
  BY <1>1, <1>2 DEF Books, FillsSound
<1>7. \A f, h \in fills' : f.sig = h.sig => f = h
  BY <1>1, <1>3 DEF Books, FillsSound
<1>8. Today' = Today /\ Today <= Today
  BY <1>2, DaysNat DEF Today
<1>9. \A f \in fills' : f.day <= Today' /\ (f.sig.act \in EntryActs => f.day = DayOf[f.sig.plan])
  BY <1>1, <1>4, <1>8 DEF Books, FillsSound
<1>10. g \notin fills
  BY <1>1, <1>3
<1> QED
  BY <1>1, <1>5, <1>6, <1>7, <1>9, <1>10 DEF FillsSound, g

\* What the fill does to the sums of a symbol.
LEMMA FillsSums ==
  ASSUME Runs, Clocked, Books, NEW m \in Monitors, Fills(m), signals' = signals, clock' = clock, NEW s
  PROVE  /\ BoughtOf(s) \in Nat /\ SoldOf(s) \in Nat
         /\ BoughtOf(s)' = BoughtOf(s) + (IF s = mon[m].sym /\ IsEntry(m) THEN mon[m].qty ELSE 0)
         /\ SoldOf(s)' = SoldOf(s) + (IF s = mon[m].sym /\ ~IsEntry(m) THEN mon[m].qty ELSE 0)
<1> DEFINE g == NewFill(m)
<1>1. /\ g.sig = mon[m].ev /\ g.qty = mon[m].qty /\ g.qty \in Nat /\ SymOf(g.sig) = mon[m].sym
      /\ IsEntry(m) <=> g.sig.act \in EntryActs
      /\ ~IsEntry(m) <=> g.sig.act \in ExitActs
  BY FillsAbout DEF NewFill, IsEntry, Acts, EntryActs, ExitActs
<1>2. FillsSound /\ fills' = fills \cup {g} /\ g \notin fills
  BY FillsMore DEF Books
<1> HIDE DEF g
<1>3. \A A : /\ FilledOf(s, A) \in Nat
             /\ FilledOf(s, A)' = FilledOf(s, A) + (IF SymOf(g.sig) = s /\ g.sig.act \in A THEN g.qty ELSE 0)
  BY <1>1, <1>2, FilledMore
<1> QED
  BY <1>1, <1>3 DEF BoughtOf, SoldOf

\* The position and the lots of the symbol that is filled.
LEMMA StockFilled ==
  ASSUME Runs, Clocked, Books, NEW m \in Monitors, Fills(m), signals' = signals, clock' = clock,
         NEW s, s = mon[m].sym, NEW e, e = mon[m].ev, NEW q, q = mon[m].qty, NEW seen, seen = mon[m].seen
  PROVE  StockOf(s)'
<1>1. /\ s \in Symbols /\ e \in signals /\ e.plan \in Plans /\ e.act \in Acts /\ q \in Nat \ {0} /\ Today \in Days
      /\ seen.total = pos[s].total /\ (seen = NoPosition <=> ~Held(s))
      /\ Held(s) => seen.sellable = pos[s].sellable
      /\ seen \in Positions /\ (e.act = "BUY" <=> seen = NoPosition)
      /\ SymOf(e) = s /\ (IsEntry(m) <=> e.act \in EntryActs)
      /\ e.act \in ExitActs => Owned(fills, e.plan)
  BY FillsAbout DEF IsEntry
<1>2. /\ StockOf(s) /\ lots \in [Symbols -> [Days -> Nat]] /\ pos = [x \in Symbols |-> pos[x]]
      /\ pos[s].total \in Nat
  <2>1. StockOf(s) /\ lots \in [Symbols -> [Days -> Nat]] /\ pos = [x \in Symbols |-> pos[x]]
    BY <1>1 DEF Books, Stock, StockOf
  <2> QED
    BY <2>1, PositionTotals DEF StockOf
<1>3. /\ pos' = [pos EXCEPT ![s] = NewPosition(m)]
      /\ lots' = [lots EXCEPT ![s] = IF IsEntry(m) THEN Bought(s, q) ELSE Sold(s, q)]
      /\ ~IsEntry(m) => Held(s) /\ q <= pos[s].sellable
  BY DEF Fills, Filling, Admissible
<1>4. pos'[s] = NewPosition(m) /\ Today' = Today
  BY <1>1, <1>2, <1>3 DEF Today
<1>5. /\ BoughtOf(s) \in Nat /\ SoldOf(s) \in Nat
      /\ BoughtOf(s)' = BoughtOf(s) + (IF IsEntry(m) THEN q ELSE 0)
      /\ SoldOf(s)' = SoldOf(s) + (IF ~IsEntry(m) THEN q ELSE 0)
  BY FillsSums
<1>6. NewFill(m) \in fills' /\ fills \subseteq fills'
  BY FillsMore
<1>7. \A p : Owned(fills, p) => Owned(fills', p)
  BY <1>6 DEF Owned
<1>8. /\ Sellable(s, Today)' = Sum(lots'[s], Before(Today))
      /\ Sellable(s, Today) = Sum(lots[s], Before(Today))
  BY <1>4 DEF Sellable, Before
<1>9. /\ Sellable(s, Today) <= Sum(lots[s], Days)
      /\ Sellable(s, Today) \in Nat /\ Sum(lots[s], Days) \in Nat
  <2>1. lots[s] \in [Days -> Nat] /\ Today \in Nat /\ Today <= Today
    BY <1>1, <1>2, DaysNat
  <2> QED
    BY <2>1, SettledGrows
<1>10. CASE IsEntry(m)
  <2>1. /\ lots'[s] = [lots[s] EXCEPT ![Today] = @ + q]
        /\ lots'[s][Today] = lots[s][Today] + q /\ lots[s][Today] \in Nat
        /\ \A d \in Days \ {Today} : lots'[s][d] = lots[s][d]
        /\ lots'[s] \in [Days -> Nat]
    <3>1. lots'[s] = [lots[s] EXCEPT ![Today] = @ + q]
      BY <1>1, <1>2, <1>3, <1>10 DEF Bought
    <3>2. lots[s] \in [Days -> Nat]
      BY <1>1, <1>2
    <3> QED
      BY <1>1, <3>1, <3>2
  <2>2. Sum(lots'[s], Days) = Sum(lots[s], Days) + q
    <3>1. Sum(lots'[s], Days) = Sum(lots[s], Days) - lots[s][Today] + lots'[s][Today]
      <4>1. (\A y \in Days : lots[s][y] \in Int) /\ lots'[s][Today] \in Int
        BY <1>1, <1>2, <2>1
      <4> QED
        BY <1>1, <2>1, <4>1, DaysFinite, SumChange
    <3> QED
      BY <1>1, <1>9, <2>1, <3>1
  <2>3. Sum(lots'[s], Before(Today)) = Sum(lots[s], Before(Today))
    <3>1. \A d \in Before(Today) : lots'[s][d] = lots[s][d]
      BY <1>1, <2>1, DaysNat DEF Before
    <3> QED
      BY <3>1, DaysFinite, SumSame
  <2>4. /\ pos'[s] \in Positions /\ pos'[s].total = pos[s].total + q /\ pos'[s].plan = e.plan
        /\ pos'[s].sellable <= Sellable(s, Today)
    <3>1. CASE e.act = "BUY"
      <4>1. pos'[s] = [total |-> q, sellable |-> 0, plan |-> e.plan, adds |-> 0]
        BY <1>4, <3>1 DEF NewPosition
      <4>2. pos[s].total = 0
        BY <1>1, <3>1, PositionTotals
      <4> QED
        BY <1>1, <1>9, <4>1, <4>2 DEF Positions
    <3>2. CASE e.act # "BUY"
      <4>1. e.act = "ADD"
        BY <1>10, <3>2 DEF IsEntry, EntryActs
      <4>2. pos'[s] = [seen EXCEPT !.total = @ + q, !.plan = e.plan, !.adds = 1]
        BY <1>4, <4>1 DEF NewPosition
      <4>3. seen \in [total : Nat \ {0}, sellable : Nat, plan : Plans, adds : {0, 1}]
        BY <1>1, <3>2 DEF Positions
      <4>4. pos'[s] = [total |-> seen.total + q, sellable |-> seen.sellable, plan |-> e.plan, adds |-> 1]
        BY <4>2, <4>3
      <4>5. seen.sellable <= Sellable(s, Today) /\ seen.sellable \in Nat /\ seen.total \in Nat \ {0}
        BY <1>1, <1>2, <3>2, <4>3 DEF StockOf
      <4> QED
        BY <1>1, <4>4, <4>5 DEF Positions
    <3> QED
      BY <3>1, <3>2
  <2>5. Owned(fills', e.plan)
    BY <1>6, <1>10 DEF Owned, NewFill, IsEntry
  <2>6. pos'[s].total = Sum(lots'[s], Days) /\ pos'[s].total = BoughtOf(s)' - SoldOf(s)'
    <3>1. pos[s].total = Sum(lots[s], Days) /\ pos[s].total = BoughtOf(s) - SoldOf(s)
      BY <1>2 DEF StockOf
    <3>2. BoughtOf(s)' = BoughtOf(s) + q /\ SoldOf(s)' = SoldOf(s) + 0 /\ q \in Nat
      BY <1>1, <1>5, <1>10
    <3>3. pos'[s].total = pos[s].total + q
      BY <2>4
    <3>4. pos'[s].total = Sum(lots'[s], Days)
      BY <2>2, <3>1, <3>3
    <3>5. pos'[s].total = BoughtOf(s)' - SoldOf(s)'
      <4>1. BoughtOf(s) \in Int /\ SoldOf(s) \in Int
        BY <1>5

      <4> QED
        BY <3>1, <3>2, <3>3, <4>1
    <3> QED
      BY <3>4, <3>5
  <2> QED
    BY <1>1, <1>4, <1>8, <2>1, <2>3, <2>4, <2>5, <2>6 DEF StockOf, Held
<1>11. CASE ~IsEntry(m)
  <2>1. q <= pos[s].sellable /\ pos[s].sellable <= Sellable(s, Today) /\ seen # NoPosition /\ Held(s)
    BY <1>1, <1>2, <1>3, <1>11 DEF StockOf
  <2>2. seen \in [total : Nat \ {0}, sellable : Nat, plan : Plans, adds : {0, 1}]
    BY <1>1, <2>1 DEF Positions
  <2>3. seen.sellable = pos[s].sellable /\ seen.total = pos[s].total /\ q <= Sellable(s, Today)
    BY <1>1, <1>9, <2>1, <2>2
  <2>4. lots' = [lots EXCEPT ![s] = Sold(s, q)]
    BY <1>3, <1>11
  <2>5. /\ lots'[s] \in [Days -> Nat]
        /\ Sum(lots'[s], Before(Today)) = Sum(lots[s], Before(Today)) - q
        /\ Sum(lots'[s], Days) = Sum(lots[s], Days) - q
        /\ lots'[s][Today] = lots[s][Today]
    <3>1. q \in Nat /\ lots[s] \in [Days -> Nat]
      BY <1>1, <1>2
    <3> QED
      BY <1>1, <1>2, <2>3, <2>4, <3>1, SoldTakes
  <2>6. e.act \in ExitActs /\ e.act # "BUY" /\ e.act # "ADD"
    BY <1>1, <1>11 DEF Acts, EntryActs, ExitActs
  <2>7. pos'[s] = IF q = seen.total THEN NoPosition
                  ELSE [total |-> seen.total - q, sellable |-> seen.sellable - q, plan |-> e.plan, adds |-> seen.adds]
    <3>1. pos'[s] = IF q = seen.total THEN NoPosition
                    ELSE [seen EXCEPT !.total = @ - q, !.sellable = @ - q, !.plan = e.plan]
      BY <1>4, <2>6 DEF NewPosition
    <3> QED
      BY <2>2, <3>1
  <2>8. pos[s].total = Sum(lots[s], Days) /\ pos[s].total = BoughtOf(s) - SoldOf(s)
    BY <1>2 DEF StockOf
  <2>9. q <= seen.total
    BY <1>1, <1>9, <2>1, <2>2, <2>3, <2>8
  <2>10. Owned(fills', e.plan)
    BY <1>1, <1>7, <2>6
  <2>11. pos'[s] \in Positions /\ pos'[s].total = pos[s].total - q
    <3>1. CASE q = seen.total
      <4>1. pos'[s] = NoPosition /\ NoPosition.total = 0
        BY <2>7, <3>1 DEF NoPosition
      <4>2. pos[s].total - q = 0
        BY <1>1, <2>2, <2>3, <3>1
      <4> QED
        BY <4>1, <4>2 DEF Positions
    <3>2. CASE q # seen.total
      <4>1. seen.total - q \in Nat \ {0} /\ seen.sellable - q \in Nat
        BY <1>1, <2>1, <2>2, <2>3, <2>9, <3>2
      <4> QED
        BY <1>1, <2>2, <2>3, <2>7, <3>2, <4>1 DEF Positions
    <3> QED
      BY <3>1, <3>2
  <2>12. pos'[s] # NoPosition => pos'[s].sellable <= Sellable(s, Today)' /\ Owned(fills', pos'[s].plan)
    <3>1. SUFFICES ASSUME pos'[s] # NoPosition
                   PROVE  pos'[s].sellable <= Sellable(s, Today)' /\ Owned(fills', pos'[s].plan)
      OBVIOUS
    <3>2. pos'[s].sellable = seen.sellable - q /\ pos'[s].plan = e.plan
      BY <2>7, <3>1
    <3> QED
      BY <1>1, <1>8, <1>9, <2>1, <2>2, <2>3, <2>5, <2>10, <3>2
  <2>13. (\E f \in fills' : SymOf(f.sig) = s /\ f.sig.act \in EntryActs /\ f.day = Today) => lots'[s][Today] > 0
    <3>1. \A f \in fills' : f.sig.act \in EntryActs => f \in fills
      <4>1. fills' = fills \cup {NewFill(m)} /\ NewFill(m).sig = e
        BY FillsMore DEF NewFill
      <4>2. e.act \notin EntryActs
        BY <1>1, <1>11
      <4> QED
        BY <4>1, <4>2
    <3> QED
      BY <1>2, <2>5, <3>1 DEF StockOf
  <2>14. pos'[s].total = Sum(lots'[s], Days) /\ pos'[s].total = BoughtOf(s)' - SoldOf(s)'
    BY <1>1, <1>5, <1>9, <1>11, <2>5, <2>8, <2>11
  <2> QED
    <3>1. (\E f \in fills' : SymOf(f.sig) = s /\ f.sig.act \in EntryActs /\ f.day = Today') => lots'[s][Today'] > 0
      BY <1>4, <2>13
    <3> QED
      BY <2>5, <2>11, <2>12, <2>14, <3>1 DEF StockOf, SymOf, Held
<1> QED
  BY <1>10, <1>11

\* The symbols that a fill is not about.
LEMMA StockOther ==
  ASSUME Runs, Clocked, Books, NEW m \in Monitors, Fills(m), signals' = signals, clock' = clock,
         NEW s \in Symbols, s # mon[m].sym
  PROVE  StockOf(s)'
<1>1. StockOf(s) /\ pos = [x \in Symbols |-> pos[x]] /\ lots = [x \in Symbols |-> lots[x]]
  BY DEF Books, Stock
<1>2. /\ pos' = [pos EXCEPT ![mon[m].sym] = NewPosition(m)]
      /\ lots' = [lots EXCEPT ![mon[m].sym] = IF IsEntry(m) THEN Bought(mon[m].sym, mon[m].qty) ELSE Sold(mon[m].sym, mon[m].qty)]
  BY DEF Fills, Filling
<1>3. pos'[s] = pos[s] /\ lots'[s] = lots[s] /\ Today' = Today
  BY <1>1, <1>2 DEF Today
<1>4. BoughtOf(s)' = BoughtOf(s) /\ SoldOf(s)' = SoldOf(s)
  BY FillsSums
<1>5. fills' = fills \cup {NewFill(m)} /\ SymOf(NewFill(m).sig) = mon[m].sym
  BY FillsMore, FillsAbout DEF NewFill
<1>6. \A f \in fills' : SymOf(f.sig) = s => f \in fills
  BY <1>5
<1>7. Sellable(s, Today)' = Sellable(s, Today)
  BY <1>3 DEF Sellable
<1>8. \A p : Owned(fills, p) => Owned(fills', p)
  BY <1>5 DEF Owned
<1> QED
  BY <1>1, <1>3, <1>4, <1>6, <1>7, <1>8 DEF StockOf, Held, SymOf

\* Multiplication distributes.
LEMMA Distribute ==
  ASSUME NEW c \in Int, NEW a \in Int, NEW b \in Int
  PROVE  c * (a + b) = c * a + c * b /\ c * (a - b) = c * a - c * b /\ c * a \in Int /\ c * b \in Int
OBVIOUS

\* The sum over the symbols when one of them changes by x.
LEMMA SymbolsChange ==
  ASSUME NEW D, NEW E, NEW s \in Symbols, NEW k \in Int,
         \A y \in Symbols : D[y] \in Int /\ E[y] = D[y] + (IF y = s THEN k ELSE 0)
  PROVE  Sum(E, Symbols) = Sum(D, Symbols) + k /\ Sum(D, Symbols) \in Int
<1>1. IsFiniteSet(Symbols) /\ IsFiniteSet(Symbols \ {s})
  BY FS_Subset, SettlementAssumption
<1>2. (\A y \in Symbols : D[y] \in Int) /\ (\A y \in Symbols : E[y] \in Int)
  OBVIOUS
<1>3. E[s] = D[s] + k /\ \A y \in Symbols \ {s} : E[y] = D[y]
  OBVIOUS
<1>4. Sum(D, Symbols) = D[s] + Sum(D, Symbols \ {s}) /\ Sum(D, Symbols \ {s}) \in Int
  BY <1>1, <1>2, SumRemove
<1>5. Sum(E, Symbols) = E[s] + Sum(E, Symbols \ {s})
  BY <1>1, <1>2, SumRemove
<1>6. Sum(E, Symbols \ {s}) = Sum(D, Symbols \ {s})
  BY <1>1, <1>3, SumSame
<1> QED
  BY <1>2, <1>3, <1>4, <1>5, <1>6

\* The cash pays for what is bought and takes in what is sold.
LEMMA CashFilled ==
  ASSUME Runs, Clocked, Books, NEW m \in Monitors, Fills(m), signals' = signals, clock' = clock
  PROVE  CashBooked'
<1> DEFINE s == mon[m].sym
           q == mon[m].qty
           D == [x \in Symbols |-> SoldOf(x) - BoughtOf(x)]
           E == [x \in Symbols |-> SoldOf(x)' - BoughtOf(x)']
<1>1. s \in Symbols /\ q \in Nat /\ mon[m].cash = cash /\ cash \in Int
      /\ cash = InitialCash + FillPrice * Sum(D, Symbols)
  BY FillsAbout DEF Books, CashBooked
<1>2. cash' = IF IsEntry(m) THEN cash - FillPrice * q ELSE cash + FillPrice * q
  BY <1>1 DEF Fills, Filling
<1>3. \A x \in Symbols : /\ D[x] \in Int /\ E[x] \in Int
                         /\ E[x] = D[x] + (IF x = s THEN IF IsEntry(m) THEN 0 - q ELSE q ELSE 0)
  <2> SUFFICES ASSUME NEW x \in Symbols
               PROVE  /\ D[x] \in Int /\ E[x] \in Int
                      /\ E[x] = D[x] + (IF x = s THEN IF IsEntry(m) THEN 0 - q ELSE q ELSE 0)
    OBVIOUS
  <2>1. /\ BoughtOf(x) \in Nat /\ SoldOf(x) \in Nat
        /\ BoughtOf(x)' = BoughtOf(x) + (IF x = s /\ IsEntry(m) THEN q ELSE 0)
        /\ SoldOf(x)' = SoldOf(x) + (IF x = s /\ ~IsEntry(m) THEN q ELSE 0)
    BY FillsSums
  <2> QED
    BY <1>1, <2>1
<1> HIDE DEF s, q, D, E
<1>4. /\ Sum(E, Symbols) = Sum(D, Symbols) + (IF IsEntry(m) THEN 0 - q ELSE q)
      /\ Sum(D, Symbols) \in Int
  <2> DEFINE x == IF IsEntry(m) THEN 0 - q ELSE q
  <2>1. x \in Int
    BY <1>1
  <2>2. \A y \in Symbols : D[y] \in Int /\ E[y] = D[y] + (IF y = s THEN x ELSE 0)
    BY <1>3
  <2> HIDE DEF x
  <2>3. Sum(E, Symbols) = Sum(D, Symbols) + x /\ Sum(D, Symbols) \in Int
    BY <1>1, <2>1, <2>2, SymbolsChange
  <2> QED
    BY <2>3 DEF x
<1>5. FillPrice \in Int /\ InitialCash \in Int
  BY SettlementAssumption
<1>6. FillPrice * Sum(E, Symbols) = IF IsEntry(m) THEN FillPrice * Sum(D, Symbols) - FillPrice * q
                                    ELSE FillPrice * Sum(D, Symbols) + FillPrice * q
  <2>1. Sum(D, Symbols) \in Int /\ q \in Int
    BY <1>1, <1>4
  <2>2. CASE IsEntry(m)
    <3>1. Sum(E, Symbols) = Sum(D, Symbols) - q
      BY <1>4, <2>1, <2>2
    <3> QED
      BY <1>5, <2>1, <2>2, <3>1, Distribute
  <2>3. CASE ~IsEntry(m)
    <3>1. Sum(E, Symbols) = Sum(D, Symbols) + q
      BY <1>4, <2>3
    <3> QED
      BY <1>5, <2>1, <2>3, <3>1, Distribute
  <2> QED
    BY <2>2, <2>3
<1>7. FillPrice * Sum(D, Symbols) \in Int /\ FillPrice * q \in Int
  BY <1>1, <1>4, <1>5, Distribute
<1>8. cash' \in Int /\ cash' = InitialCash + FillPrice * Sum(E, Symbols)
  BY <1>1, <1>2, <1>5, <1>6, <1>7
<1> QED
  BY <1>8 DEF CashBooked, E

\* What the runs read of the account stays what they read.
LEMMA SnapshotsMove ==
  ASSUME Runs, Clocked, Books, NEW m \in Monitors, Settle(m), fills \subseteq fills'
  PROVE  Snapshots'
<1>1. Moves(m) /\ \A n \in Monitors : n # m => mon'[n] = mon[n]
  BY SettleMoves
<1>2. \A p : Owned(fills, p) => Owned(fills', p)
  BY DEF Owned
<1>3. \A n \in Monitors : SnapshotOf(n)
  BY DEF Books, Snapshots
<1>4. SnapshotOf(m)'
  <2>1. CASE mon'[m] = Idle \/ Starts(m) \/ Lists(m) \/ (Takes(m) /\ mon'[m].pc = "nofill")
    <3>1. mon'[m].pc \notin {"reserve", "commit", "release"}
      <4>1. mon'[m] = Idle => mon'[m].pc = "idle"
        BY DEF Idle
      <4>2. Starts(m) \/ Lists(m) => mon'[m].pc = "list"
        <5>1. ASSUME Starts(m) PROVE mon'[m].pc = "list"
          <6>1. PICK x \in Symbols : mon'[m] = [pc |-> "list", bar |-> clock, sym |-> x, todo |-> {e \in signals : SymOf(e) = x}]
            BY <5>1 DEF Starts
          <6> QED
            BY <6>1
        <5> QED
          BY <5>1 DEF Lists
      <4> QED
        BY <2>1, <4>1, <4>2
    <3> QED
      BY <3>1 DEF SnapshotOf, FillStep
  <2>2. CASE Goes(m)
    BY <1>2, <1>3, <2>2 DEF Goes, SnapshotOf, FillStep
  <2>3. CASE Reads(m)
    <3> DEFINE e == mon'[m].ev
    <3>1. /\ e \in signals /\ SymOf(e) = mon[m].sym /\ mon'[m].seen = pos[SymOf(e)]
          /\ e.plan \in Plans /\ e.act \in Acts
      BY <2>3, RunSteps DEF Reads, Takes, Same, Clocked, Timed, Runs
    <3>2. SymOf(e) \in Symbols
      BY <3>1, SettlementAssumption DEF SymOf
    <3>3. pos[SymOf(e)] \in Positions /\ (Held(SymOf(e)) => Owned(fills, pos[SymOf(e)].plan))
      BY <3>2 DEF Books, Stock, StockOf
    <3>4. /\ e.act = "BUY" => ~Held(SymOf(e))
          /\ e.act = "ADD" => Held(SymOf(e))
          /\ e.act \in ExitActs => Held(SymOf(e)) /\ pos[SymOf(e)].plan = e.plan
      BY <2>3, <3>1 DEF Reads
    <3>5. e.act = "BUY" <=> mon'[m].seen = NoPosition
      BY <3>1, <3>4 DEF Held, Acts, EntryActs
    <3>6. e.act \in ExitActs => Owned(fills', e.plan)
      BY <1>2, <3>3, <3>4
    <3> QED
      BY <3>1, <3>3, <3>5, <3>6 DEF SnapshotOf
  <2> QED
    BY <1>1, <2>1, <2>2, <2>3 DEF Moves
<1>5. \A n \in Monitors : n # m => SnapshotOf(n)'
  BY <1>1, <1>2, <1>3 DEF SnapshotOf, FillStep
<1> QED
  BY <1>4, <1>5 DEF Snapshots

\* No fill: the time may go on, and a position may be released.
LEMMA StockKept ==
  ASSUME Books, fills' = fills, lots' = lots, Today \in Nat, Today' \in Nat, Today <= Today', NEW s \in Symbols,
         \/ pos'[s] = pos[s]
         \/ Held(s) /\ Today' = Today /\ pos'[s] = [pos[s] EXCEPT !.sellable = Sellable(s, Today)]
  PROVE  StockOf(s)'
<1>1. StockOf(s) /\ FillsSound
  BY DEF Books, Stock
<1>2. BoughtOf(s)' = BoughtOf(s) /\ SoldOf(s)' = SoldOf(s)
  BY DEF BoughtOf, SoldOf, FilledOf, SymOf
<1>3. /\ Sellable(s, Today)' = Sellable(s, Today') /\ Sellable(s, Today) <= Sellable(s, Today')
      /\ Sellable(s, Today) \in Nat /\ Sellable(s, Today') \in Nat
  <2>1. Sellable(s, Today)' = Sellable(s, Today')
    BY DEF Sellable
  <2>2. lots[s] \in [Days -> Nat]
    BY <1>1 DEF StockOf
  <2> QED
    BY <2>1, <2>2, SettledGrows
<1>4. /\ pos'[s] \in Positions /\ pos'[s].total = pos[s].total
      /\ pos'[s] = NoPosition <=> pos[s] = NoPosition
      /\ pos[s] # NoPosition => pos'[s].plan = pos[s].plan /\ pos'[s].sellable <= Sellable(s, Today')
  <2>1. CASE pos'[s] = pos[s]
    <3>1. pos[s] \in Positions /\ (pos[s] # NoPosition => pos[s].sellable \in Nat /\ pos[s].sellable <= Sellable(s, Today))
      BY <1>1 DEF StockOf, Held, Positions
    <3> QED
      BY <1>3, <2>1, <3>1
  <2>2. CASE Held(s) /\ Today' = Today /\ pos'[s] = [pos[s] EXCEPT !.sellable = Sellable(s, Today)]
    <3>1. pos[s] \in [total : Nat \ {0}, sellable : Nat, plan : Plans, adds : {0, 1}]
      BY <1>1, <2>2 DEF StockOf, Held, Positions
    <3>2. pos'[s] = [total |-> pos[s].total, sellable |-> Sellable(s, Today), plan |-> pos[s].plan, adds |-> pos[s].adds]
      BY <2>2, <3>1
    <3>3. pos'[s] \in Positions /\ pos'[s] # NoPosition
      BY <1>3, <3>1, <3>2, PositionTotals DEF Positions
    <3> QED
      BY <1>3, <2>2, <3>2, <3>3 DEF Held
  <2> QED
    BY <2>1, <2>2
<1>5. (\E f \in fills : SymOf(f.sig) = s /\ f.sig.act \in EntryActs /\ f.day = Today') => lots[s][Today'] > 0
  <2>1. \A f \in fills : f.day <= Today /\ f.day \in Nat
    BY <1>1, DaysNat DEF FillsSound
  <2>2. (\E f \in fills : f.day = Today') => Today' = Today
    BY <2>1
  <2> QED
    BY <1>1, <2>2 DEF StockOf
<1> QED
  BY <1>1, <1>2, <1>3, <1>4, <1>5 DEF StockOf, Held, SymOf

\* Nothing is filled, signalled or read.
LEMMA BooksKept ==
  ASSUME Books, fills' = fills, lots' = lots, cash' = cash, signals \subseteq signals',
         Today \in Nat, Today' \in Nat, Today <= Today', Snapshots',
         \/ pos' = pos
         \/ Today' = Today /\ pos' = Released
  PROVE  Books'
<1>1. FillsSound'
  <2>1. \A f \in fills : f.day \in Nat
    BY DaysNat DEF Books, FillsSound
  <2> QED
    BY <2>1 DEF Books, FillsSound
<1>2. CashBooked'
  BY DEF Books, CashBooked, BoughtOf, SoldOf, FilledOf, SymOf
<1>3. Stock'
  <2>1. pos' = [s \in Symbols |-> pos'[s]] /\ lots' = [s \in Symbols |-> lots'[s]]
    BY DEF Books, Stock, Released
  <2>2. ASSUME NEW s \in Symbols
        PROVE  \/ pos'[s] = pos[s]
               \/ Held(s) /\ Today' = Today /\ pos'[s] = [pos[s] EXCEPT !.sellable = Sellable(s, Today)]
    BY DEF Released
  <2>3. \A s \in Symbols : StockOf(s)'
    BY <2>2, StockKept
  <2> QED
    BY <2>1, <2>3 DEF Stock
<1> QED
  BY <1>1, <1>2, <1>3 DEF Books

\* Every step of a monitor keeps the books.
LEMMA BooksSettle ==
  ASSUME Runs, Clocked, Books, NEW m \in Monitors, Settle(m)
  PROVE  Books'
<1>1. signals' = signals /\ clock' = clock
  BY SettleMoves
<1>2. Today' = Today /\ Today \in Nat /\ Today <= Today
  BY <1>1, DayType, DaysNat DEF Today, Clocked
<1>3. CASE fills' = fills /\ cash' = cash /\ lots' = lots /\ (pos' = pos \/ pos' = Released)
  <2>1. Snapshots'
    BY <1>3, SnapshotsMove
  <2> QED
    BY <1>1, <1>2, <1>3, <2>1, BooksKept
<1>4. CASE Fills(m)
  <2>1. FillsSound' /\ fills \subseteq fills'
    BY <1>1, <1>4, FillsMore
  <2>2. Snapshots'
    BY <2>1, SnapshotsMove
  <2>3. CashBooked'
    BY <1>1, <1>4, CashFilled
  <2>4. \A s \in Symbols : StockOf(s)'
    <3>1. mon[m].sym \in Symbols
      BY <1>4, FillsAbout
    <3>2. ASSUME NEW s \in Symbols, s = mon[m].sym PROVE StockOf(s)'
      <4>1. PICK e, q, seen : e = mon[m].ev /\ q = mon[m].qty /\ seen = mon[m].seen
        OBVIOUS
      <4> QED
        BY <1>1, <1>4, <3>2, <4>1, StockFilled
    <3> QED
      BY <1>1, <1>4, <3>2, StockOther
  <2>5. pos' = [s \in Symbols |-> pos'[s]] /\ lots' = [s \in Symbols |-> lots'[s]]
    <3>1. /\ pos' = [pos EXCEPT ![mon[m].sym] = NewPosition(m)]
          /\ lots' = [lots EXCEPT ![mon[m].sym] = IF IsEntry(m) THEN Bought(mon[m].sym, mon[m].qty) ELSE Sold(mon[m].sym, mon[m].qty)]
          /\ pos = [s \in Symbols |-> pos[s]] /\ lots = [s \in Symbols |-> lots[s]]
      BY <1>4 DEF Fills, Filling, Books, Stock
    <3> QED
      BY <3>1
  <2> QED
    BY <2>1, <2>2, <2>3, <2>4, <2>5 DEF Books, Stock
<1> QED
  BY <1>3, <1>4, SettleAccount

\* The books hold in every state.
LEMMA BooksAlways == Spec => []Books
<1>1. Init => Books
  <2> SUFFICES ASSUME Init PROVE Books
    OBVIOUS
  <2>1. FillsSound
    BY FS_EmptySet DEF Init, FillsSound
  <2>2. \A s : BoughtOf(s) = 0 /\ SoldOf(s) = 0
    <3>1. \A s, A : FillsOf(s, A) = {}
      BY DEF Init, FillsOf
    <3> QED
      BY <3>1, FilledIs, SumEmpty DEF BoughtOf, SoldOf
  <2>3. CashBooked
    <3>1. \A s \in Symbols : [x \in Symbols |-> SoldOf(x) - BoughtOf(x)][s] = 0
      BY <2>2
    <3>2. Sum([x \in Symbols |-> SoldOf(x) - BoughtOf(x)], Symbols) = 0
      BY <3>1, SumZero, SettlementAssumption
    <3>3. FillPrice * 0 = 0 /\ InitialCash \in Int
      BY SettlementAssumption
    <3> QED
      BY <3>2, <3>3 DEF CashBooked, Init
  <2>4. Stock
    <3>1. \A s \in Symbols : StockOf(s)
      <4> SUFFICES ASSUME NEW s \in Symbols PROVE StockOf(s)
        OBVIOUS
      <4>1. pos[s] = NoPosition /\ lots[s] = [d \in Days |-> 0] /\ fills = {}
        BY DEF Init
      <4>2. Sum(lots[s], Days) = 0
        BY <4>1, SumZero, DaysFinite
      <4> QED
        BY <2>2, <4>1, <4>2, PositionTotals DEF StockOf, Held, Positions
    <3> QED
      BY <3>1 DEF Init, Stock
  <2>5. Snapshots
    BY DEF Init, Snapshots, SnapshotOf, FillStep, Idle
  <2> QED
    BY <2>1, <2>3, <2>4, <2>5 DEF Books
<1>2. Runs /\ Clocked /\ Clocked' /\ Books /\ [Next]_vars => Books'
  <2> SUFFICES ASSUME Runs, Clocked, Clocked', Books, [Next]_vars PROVE Books'
    OBVIOUS
  <2>1. CASE UNCHANGED vars \/ Tick \/ Signal
    <3>1. /\ fills' = fills /\ lots' = lots /\ cash' = cash /\ pos' = pos /\ mon' = mon /\ signals \subseteq signals'
          /\ clock' = clock \/ clock' = clock + 1
      BY <2>1 DEF vars, Tick, Signal, BuySignal, AddSignal, PlanInvalidated, EntryWindowMissing, ExitSignal, account
    <3>2. Today \in Nat /\ Today' \in Nat /\ Today <= Today'
      <4>1. clock \in Minutes /\ clock' \in Minutes
        BY DEF Clocked
      <4>2. Day(clock) \in Nat /\ Day(clock') \in Nat /\ Day(clock) <= Day(clock')
        BY <3>1, <4>1, DayGrows, DayType, DaysNat
      <4> QED
        BY <4>2 DEF Today
    <3>3. Snapshots'
      BY <3>1 DEF Books, Snapshots, SnapshotOf, FillStep
    <3> QED
      BY <3>1, <3>2, <3>3, BooksKept
  <2> QED
    BY <2>1, BooksSettle DEF Next
<1> QED
  BY <1>1, <1>2, RunsAlways, ClockedAlways, PTL DEF Spec

\* Whatever overlapping runs, prices and sessions, no update of the cash, of a
\* position or of its lots is lost: each is what the fills add up to, because
\* commit_fill refuses amounts computed from rows that have changed since.
THEOREM AccountIsItsFills == Spec => []LedgerIsItsFills
<1>1. Books => LedgerIsItsFills
  BY DEF Books, Stock, StockOf, CashBooked, LedgerIsItsFills
<1> QED
  BY <1>1, BooksAlways, PTL

\* T+1 for any number of sessions: what a position offers for sale was bought
\* in earlier sessions, however commits, additions and a late release of the
\* new session (start_account_trading_day) follow each other.
THEOREM SettledOnly == Spec => []OffersSettledOnly
<1>1. Books => OffersSettledOnly
  BY DEF Books, Stock, StockOf, OffersSettledOnly
<1> QED
  BY <1>1, BooksAlways, PTL

-----------------------------------------------------------------------------
(* The types of what is left.                                              *)
Kinds ==
    /\ applied \subseteq Signals /\ quar \subseteq Plans /\ unsure \subseteq Orders
    /\ mark \in [Symbols -> Minutes]

\* The order that a run is about is one.
LEMMA OrderType ==
  ASSUME Runs, NEW m \in Monitors, mon[m].pc \in {"reserve", "commit", "release"}
  PROVE  /\ Pending(m) \subseteq Orders
         /\ mon[m].pc = "reserve" => Order(mon[m].ev) \in Orders
<1>1. FillRun(m) /\ mon[m].ev \in signals
  BY RunSteps
<1>2. mon[m].ev.plan \in Plans
  BY <1>1 DEF Runs
<1> QED
  BY <1>1, <1>2 DEF FillRun, Pending, IsEntry, Order, Orders

\* The bar that a signal is tried on is a minute of the sessions.
LEMMA MarkType ==
  ASSUME Runs, Clocked, Kinds, NEW m \in Monitors, NEW e \in signals, Attempting(m, e)
  PROVE  mark' \in [Symbols -> Minutes]
<1>1. Working(m, e) /\ Tries(e, m) /\ mark' = [mark EXCEPT ![mon[m].sym] = BarOf(e, m)]
  BY DEF Attempting, Trying
<1>2. mon[m] # Idle /\ Timed(m)
  BY <1>1 DEF Working, Idle, Clocked
<1>3. mon[m].bar \in Minutes
  BY <1>2 DEF Timed
<1>4. BarOf(e, m) \in Minutes
  <2>1. CASE e.act \in EntryActs
    <3>1. e.at + 1 <= mon[m].bar /\ e.at \in Minutes
      <4>1. e \in Signals
        BY DEF Clocked
      <4> QED
        BY <1>1, <2>1, <4>1 DEF Tries, Due, Signals
    <3>2. NDays * MinutesPerDay \in Nat
      BY SettlementAssumption
    <3> QED
      BY <1>3, <2>1, <3>1, <3>2 DEF BarOf, Minutes
  <2>2. CASE e.act \notin EntryActs
    BY <1>3, <2>2 DEF BarOf
  <2> QED
    BY <2>1, <2>2
<1> QED
  BY <1>1, <1>4 DEF Kinds

\* Every step of a monitor keeps these types.
LEMMA KindsSettle ==
  ASSUME Runs, Clocked, Kinds, NEW m \in Monitors, Settle(m)
  PROVE  Kinds'
<1>1. \A e \in signals : e \in Signals /\ e.plan \in Plans
  BY DEF Clocked, Runs
<1>2. mon[m].pc \in {"nofill", "reserve", "commit", "release"} => mon[m].ev \in signals
  BY RunSteps
<1>3. Faulted(m) \subseteq Plans
  BY DEF Faulted
<1>4. ASSUME NEW s \in Symbols, Begin(m, s) PROVE Kinds'
  BY <1>4 DEF Begin, Contradicted, Kinds
<1>5. ASSUME NEW e \in signals, Replay(m, e) PROVE Kinds'
  BY <1>1, <1>3, <1>5 DEF Replay, Apply, Fault, Kinds, a4
<1>6. ASSUME NEW e \in signals, Pass(m, e) \/ MarkRegression(m, e) PROVE Kinds'
  BY <1>3, <1>6 DEF Pass, MarkRegression, Fault, Kinds, a4
<1>7. ASSUME NEW e \in signals, SeeNoFill(m, e) \/ ReadEntry(m, e) \/ ReadExit(m, e) \/ ReadRefused(m, e) PROVE Kinds'
  <2>1. Attempting(m, e) /\ UNCHANGED <<a4, unsure>>
    BY <1>7 DEF SeeNoFill, ReadEntry, ReadExit, ReadRefused
  <2>2. mark' \in [Symbols -> Minutes]
    BY <2>1, MarkType
  <2> QED
    BY <2>1, <2>2 DEF Kinds, a4
<1>8. CASE NoFill(m)
  BY <1>3, <1>8 DEF NoFill, Fault, Kinds
<1>9. CASE Reserve(m) \/ Duplicate(m)
  BY <1>9 DEF Reserve, Duplicate, Kinds, a4
<1>10. CASE ReserveLost(m)
  BY <1>10, OrderType DEF ReserveLost, Kinds, a4
<1>11. CASE Commit(m)
  BY <1>1, <1>2, <1>11 DEF Commit, Filling, Apply, Kinds
<1>12. CASE CommitLost(m)
  <2>1. applied' = applied \/ applied' = applied \cup {mon[m].ev}
    BY <1>12 DEF CommitLost, Filling, Apply
  <2> QED
    BY <1>1, <1>2, <1>12, <2>1, OrderType DEF CommitLost, Kinds
<1>13. CASE CommitRefused(m)
  BY <1>3, <1>13 DEF CommitRefused, Refuse, Fault, Kinds
<1>14. CASE Release(m)
  BY <1>3, <1>14 DEF Release, Fault, Kinds
<1>15. CASE Crash(m)
  BY <1>15, OrderType DEF Crash, Kinds, a4
<1> QED
  BY <1>4, <1>5, <1>6, <1>7, <1>8, <1>9, <1>10, <1>11, <1>12, <1>13, <1>14, <1>15 DEF Settle

\* These types hold in every state.
LEMMA KindsAlways == Spec => []Kinds
<1>1. Init /\ Clocked => Kinds
  BY DEF Init, Kinds, Clocked
<1>2. Runs /\ Clocked /\ Kinds /\ [Next]_vars => Kinds'
  <2> SUFFICES ASSUME Runs, Clocked, Kinds, [Next]_vars PROVE Kinds'
    OBVIOUS
  <2>1. CASE UNCHANGED vars \/ Tick \/ Signal
    BY <2>1 DEF vars, Tick, Signal, BuySignal, AddSignal, PlanInvalidated, EntryWindowMissing, ExitSignal, a4, Kinds
  <2> QED
    BY <2>1, KindsSettle DEF Next
<1> QED
  BY <1>1, <1>2, RunsAlways, ClockedAlways, PTL DEF Spec

\* Every variable of the settlement keeps its type.
THEOREM SettlementTypes == Spec => []TypeOK
<1>1. Runs /\ Lives /\ Money /\ Clocked /\ Books /\ Kinds => TypeOK
  <2> SUFFICES ASSUME Runs, Lives, Money, Clocked, Books, Kinds PROVE TypeOK
    OBVIOUS
  <2>1. fills \subseteq [sig : Signals, qty : Nat \ {0}, day : Days]
    BY DEF Books, FillsSound, Clocked
  <2>2. pos \in [Symbols -> {NoPosition} \cup [total : Nat, sellable : Nat, plan : Plans, adds : {0, 1}]]
    BY DEF Books, Stock, StockOf, Positions
  <2>3. lots \in [Symbols -> [Days -> Nat]]
    BY DEF Books, Stock, StockOf
  <2>4. \A m \in Monitors : mon[m].pc \in Steps
    BY RunSteps
  <2> QED
    BY <2>1, <2>2, <2>3, <2>4 DEF TypeOK, Lives, Money, Clocked, Kinds
<1> QED
  BY <1>1, RunsAlways, LivesAlways, MoneyAlways, ClockedAlways, BooksAlways, KindsAlways, PTL

-----------------------------------------------------------------------------
(* Counting: a lifecycle has counted its fills, or its symbol is           *)
(* quarantined, or the plan never had a lifecycle.                         *)
CountedFills(s, A) == {f \in fills : SymOf(f.sig) = s /\ f.sig.act \in A /\ f.sig \in applied}
CountedOf(s, A)    == Sum(Amounts(fills), CountedFills(s, A))
PlansOf(s)         == {p \in Plans : SymbolOf[p] = s}
LeftOf(s)          == Sum([p \in Plans |-> Remaining(p)], PlansOf(s))

Balanced(s) == LeftOf(s) = CountedOf(s, EntryActs) - CountedOf(s, ExitActs)

Counted ==
    /\ \A e \in applied : Filled(e)
    /\ \A p \in Plans : life[p].status = "NONE" => life[p] = NoLife
    /\ \A p \in Plans : life[p].status # "NONE" => SignalledBefore("BUY", p)
    /\ \A f \in fills : f.sig \notin applied => ~Tracked(f.sig) \/ Quarantined(f.sig.plan)
    /\ \A f \in fills : f.sig.act \in ExitActs => Owned(fills, f.sig.plan)
    /\ \A s \in Symbols : Balanced(s)

\* The plans of a symbol are finite.
LEMMA PlansFinite == \A s : IsFiniteSet(PlansOf(s)) /\ PlansOf(s) \subseteq Plans
BY FS_Subset, SettlementAssumption DEF PlansOf

\* What is left of a plan is an integer.
LEMMA LeftType ==
  ASSUME Lives, NEW p \in Plans
  PROVE  Remaining(p) \in Int /\ life[p].entry \in Nat /\ life[p].exit \in Nat
BY DEF Lives, Remaining

\* What is left of the plans of a symbol, when nothing is counted.
LEMMA LeftSame ==
  ASSUME \A p \in Plans : Remaining(p)' = Remaining(p), NEW s
  PROVE  LeftOf(s)' = LeftOf(s)
<1>1. [p \in Plans |-> Remaining(p)'] = [p \in Plans |-> Remaining(p)]
  OBVIOUS
<1> QED
  BY <1>1 DEF LeftOf, PlansOf

\* A fill of q is counted.
LEMMA LeftMore ==
  ASSUME Runs, Lives, NEW e \in signals, NEW q \in Nat, life' = [life EXCEPT ![e.plan] = AfterFill(e, q)], NEW s
  PROVE  /\ LeftOf(s) \in Int
         /\ LeftOf(s)' = LeftOf(s) + (IF SymOf(e) = s THEN IF e.act \in EntryActs THEN q ELSE 0 - q ELSE 0)
<1> DEFINE p == e.plan
           x == IF e.act \in EntryActs THEN q ELSE 0 - q
           R == [r \in Plans |-> Remaining(r)]
           H == [r \in Plans |-> Remaining(r)']
<1>1. p \in Plans /\ life[p] \in [status : Statuses, entry : Nat, exit : Nat]
  BY DEF Runs, Lives
<1>2. life'[p] = AfterFill(e, q) /\ \A r \in Plans : r # p => life'[r] = life[r]
  BY <1>1 DEF Lives
<1>3. life'[p].entry - life'[p].exit = life[p].entry - life[p].exit + x
  <2>1. CASE e.act \in EntryActs
    <3>1. life'[p] = [life[p] EXCEPT !.status = "OPEN", !.entry = @ + q]
      BY <1>2, <2>1 DEF AfterFill
    <3>2. life'[p].entry = life[p].entry + q /\ life'[p].exit = life[p].exit
      BY <1>1, <3>1
    <3> QED
      BY <1>1, <2>1, <3>2
  <2>2. CASE e.act \notin EntryActs
    <3>1. life'[p] = [life[p] EXCEPT !.status = IF q = Remaining(e.plan) THEN "CLOSED" ELSE "PARTIALLY_CLOSED", !.exit = @ + q]
      BY <1>2, <2>2 DEF AfterFill
    <3>2. life'[p].exit = life[p].exit + q /\ life'[p].entry = life[p].entry
      BY <1>1, <3>1
    <3> QED
      BY <1>1, <2>2, <3>2
  <2> QED
    BY <2>1, <2>2
<1>4. \A r \in Plans : /\ R[r] \in Int /\ H[r] \in Int
                       /\ r # p => H[r] = R[r]
                       /\ H[p] = R[p] + x
  <2>1. \A r \in Plans : life[r].entry \in Nat /\ life[r].exit \in Nat
    BY LeftType
  <2>2. x \in Int
    OBVIOUS
  <2> QED
    BY <1>1, <1>2, <1>3, <2>1, <2>2 DEF Remaining
<1>5. LeftOf(s) = Sum(R, PlansOf(s)) /\ LeftOf(s)' = Sum(H, PlansOf(s))
  BY DEF LeftOf, PlansOf
<1>6. p \in PlansOf(s) <=> SymOf(e) = s
  BY <1>1 DEF PlansOf, SymOf
<1> HIDE DEF p, x, R, H
<1>7. IsFiniteSet(PlansOf(s)) /\ PlansOf(s) \subseteq Plans
  BY PlansFinite
<1>8. Sum(R, PlansOf(s)) \in Int
  BY <1>4, <1>7, SumInt
<1>9. CASE SymOf(e) = s
  <2>1. IsFiniteSet(PlansOf(s) \ {p}) /\ p \in PlansOf(s)
    BY <1>6, <1>7, <1>9, FS_Subset
  <2>2. (\A r \in PlansOf(s) : R[r] \in Int) /\ (\A r \in PlansOf(s) : H[r] \in Int)
    BY <1>4, <1>7
  <2>3. Sum(R, PlansOf(s)) = R[p] + Sum(R, PlansOf(s) \ {p}) /\ Sum(R, PlansOf(s) \ {p}) \in Int
    BY <1>7, <2>1, <2>2, SumRemove
  <2>4. Sum(H, PlansOf(s)) = H[p] + Sum(H, PlansOf(s) \ {p})
    BY <1>7, <2>1, <2>2, SumRemove
  <2>5. Sum(H, PlansOf(s) \ {p}) = Sum(R, PlansOf(s) \ {p})
    <3>1. \A r \in PlansOf(s) \ {p} : H[r] = R[r]
      BY <1>4, <1>7
    <3> QED
      BY <2>1, <3>1, SumSame
  <2>6. R[p] \in Int /\ H[p] = R[p] + x /\ x \in Int
    BY <1>1, <1>4 DEF x
  <2>7. Sum(H, PlansOf(s)) = Sum(R, PlansOf(s)) + x
    BY <2>3, <2>4, <2>5, <2>6
  <2> QED
    BY <1>5, <1>8, <1>9, <2>7 DEF x
<1>10. CASE SymOf(e) # s
  <2>1. \A r \in PlansOf(s) : H[r] = R[r]
    BY <1>4, <1>6, <1>7, <1>10
  <2>2. Sum(H, PlansOf(s)) = Sum(R, PlansOf(s))
    BY <1>7, <2>1, SumSame
  <2> QED
    BY <1>5, <1>8, <1>10, <2>2
<1> QED
  BY <1>9, <1>10

\* The counted fills of a symbol are amounts of its fills.
LEMMA CountedType ==
  ASSUME FillsSound, NEW s, NEW A
  PROVE  /\ CountedFills(s, A) \in SUBSET fills /\ IsFiniteSet(CountedFills(s, A))
         /\ CountedOf(s, A) \in Nat
         /\ \A f \in fills : Amounts(fills)[f] = f.qty /\ f.qty \in Nat
<1>1. CountedFills(s, A) \in SUBSET fills /\ IsFiniteSet(fills)
  BY DEF CountedFills, FillsSound
<1>2. \A f \in fills : Amounts(fills)[f] = f.qty /\ f.qty \in Nat
  BY DEF Amounts, FillsSound
<1>3. IsFiniteSet(CountedFills(s, A))
  BY <1>1, FS_Subset
<1> QED
  BY <1>1, <1>2, <1>3, SumNat DEF CountedOf

\* Fill g is counted, which may be a new one.
LEMMA CountedMore ==
  ASSUME FillsSound, FillsSound', NEW g, g \in fills', fills' = fills \/ fills' = fills \cup {g},
         g.sig \notin applied, applied' = applied \cup {g.sig}, NEW s, NEW A
  PROVE  CountedOf(s, A)' = CountedOf(s, A) + (IF SymOf(g.sig) = s /\ g.sig.act \in A THEN g.qty ELSE 0)
<1> DEFINE T == CountedFills(s, A)
           U == {f \in fills' : SymOf(f.sig) = s /\ f.sig.act \in A /\ f.sig \in applied'}
           N == Amounts(fills')
<1>1. CountedOf(s, A)' = Sum(N, U)
  BY DEF CountedOf, CountedFills, Amounts, SymOf
<1>2. /\ T \in SUBSET fills /\ IsFiniteSet(T)
      /\ CountedOf(s, A) = Sum(Amounts(fills), T) /\ CountedOf(s, A) \in Nat
      /\ \A f \in fills : Amounts(fills)[f] = f.qty /\ f.qty \in Nat
  BY CountedType DEF CountedOf
<1>3. \A f \in fills' : N[f] = f.qty /\ f.qty \in Nat
  BY DEF Amounts, FillsSound
<1>4. g \notin T /\ U = IF SymOf(g.sig) = s /\ g.sig.act \in A THEN T \cup {g} ELSE T
  <2>1. \A f \in fills' : f.sig = g.sig => f = g
    BY DEF FillsSound
  <2> QED
    BY <2>1 DEF CountedFills
<1> HIDE DEF T, U, N
<1>5. Sum(N, T) = Sum(Amounts(fills), T)
  <2>1. \A f \in T : N[f] = Amounts(fills)[f]
    BY <1>2, <1>3
  <2> QED
    BY <1>2, <2>1, SumSame
<1>6. Sum(N, T \cup {g}) = g.qty + Sum(N, T) /\ g.qty \in Nat
  <2>1. (\A f \in T \cup {g} : N[f] \in Int) /\ N[g] = g.qty /\ g.qty \in Nat
    BY <1>2, <1>3
  <2> QED
    BY <1>2, <1>4, <2>1, SumAdd
<1> QED
  BY <1>1, <1>2, <1>4, <1>5, <1>6

\* A fill that is not counted.
LEMMA CountedKept ==
  ASSUME FillsSound, FillsSound', fills \subseteq fills', \A f \in fills' \ fills : f.sig \notin applied,
         applied' = applied, NEW s, NEW A
  PROVE  CountedOf(s, A)' = CountedOf(s, A)
<1> DEFINE T == CountedFills(s, A)
           N == Amounts(fills')
<1>1. CountedOf(s, A)' = Sum(N, T)
  <2>1. {f \in fills' : SymOf(f.sig) = s /\ f.sig.act \in A /\ f.sig \in applied'} = T
    BY DEF CountedFills
  <2> QED
    BY <2>1 DEF CountedOf, CountedFills, Amounts, SymOf
<1>2. IsFiniteSet(T) /\ CountedOf(s, A) = Sum(Amounts(fills), T)
  BY CountedType DEF CountedOf
<1>3. \A f \in T : N[f] = Amounts(fills)[f]
  BY DEF Amounts, CountedFills
<1> HIDE DEF T, N
<1> QED
  BY <1>1, <1>2, <1>3, SumSame

\* No fill, nothing counted, and the same lifecycles with what they counted.
LEMMA CountedSame ==
  ASSUME Runs, Lives, Counted, fills' = fills, applied' = applied, signals \subseteq signals', quar \subseteq quar',
         \A p \in Plans : /\ life'[p].entry = life[p].entry /\ life'[p].exit = life[p].exit
                          /\ life'[p].status = "NONE" <=> life[p].status = "NONE"
                          /\ life[p].status = "NONE" => life'[p] = life[p]
  PROVE  Counted'
<1>1. \A s : Balanced(s) => Balanced(s)'
  <2>1. \A p \in Plans : Remaining(p)' = Remaining(p)
    BY DEF Remaining
  <2>2. \A s, A : CountedOf(s, A)' = CountedOf(s, A)
    BY DEF CountedOf, CountedFills, Amounts, SymOf
  <2> QED
    BY <2>1, <2>2, LeftSame DEF Balanced
<1>2. \A f \in fills : f.sig.plan \in Plans
  BY DEF Runs, Lives
<1>3. \A p : Quarantined(p) => Quarantined(p)'
  BY DEF Quarantined
<1>4. \A e : Filled(e) => Filled(e)'
  BY DEF Filled
<1>5. \A p : SignalledBefore("BUY", p) => SignalledBefore("BUY", p)'
  BY DEF SignalledBefore
<1>6. \A f \in fills : ~Tracked(f.sig) => ~Tracked(f.sig)'
  BY <1>2 DEF Tracked
<1>7. \A p \in Plans : life'[p].status = "NONE" => life'[p] = NoLife
  BY DEF Counted
<1>8. \A p \in Plans : life'[p].status # "NONE" => SignalledBefore("BUY", p)'
  BY <1>5 DEF Counted
<1>9. \A f \in fills' : f.sig \notin applied' => ~Tracked(f.sig)' \/ Quarantined(f.sig.plan)'
  BY <1>3, <1>6 DEF Counted
<1> QED
  BY <1>1, <1>4, <1>7, <1>8, <1>9 DEF Counted

\* A new lifecycle finds no fill of its plan: a purchase of this session is
\* still held, and a held symbol gets no entry signal.
LEMMA NothingBought ==
  ASSUME Runs, Clocked, Books, Counted, NEW p \in Plans, BuySignal(p)
  PROVE  \A f \in fills : f.sig.plan # p
<1>1. SUFFICES ASSUME NEW f \in fills, f.sig.plan = p PROVE FALSE
  OBVIOUS
<1>2. Owned(fills, p)
  <2>1. f.sig \in signals /\ f.sig.act \in Acts
    BY DEF Books, FillsSound, Runs
  <2> QED
    BY <1>1, <2>1 DEF Counted, Owned, Acts
<1>3. PICK g \in fills : g.sig.act \in EntryActs /\ g.sig.plan = p
  BY <1>2 DEF Owned
<1>4. g.day = Today /\ SymOf(g.sig) = SymbolOf[p] /\ SymbolOf[p] \in Symbols
  <2>1. DayOf[p] = Today /\ SymbolOf[p] \in Symbols
    BY SettlementAssumption DEF BuySignal, Active
  <2> QED
    BY <1>3, <2>1 DEF Books, FillsSound, SymOf
<1> DEFINE s == SymbolOf[p]
<1>5. StockOf(s) /\ pos[s] = NoPosition
  BY <1>4 DEF Books, Stock, BuySignal, Held
<1>6. lots[s][Today] > 0 /\ lots[s] \in [Days -> Nat] /\ Sum(lots[s], Days) = 0
  BY <1>3, <1>4, <1>5, PositionTotals DEF StockOf
<1>7. Today \in Days /\ Today \in Nat /\ Today + 1 \in Nat
  BY DayType, DaysNat DEF Clocked, Today
<1> HIDE DEF s
<1>8. /\ Sellable(s, Today + 1) <= Sum(lots[s], Days)
      /\ Sellable(s, Today + 1) = Sellable(s, Today) + lots[s][Today] /\ Sellable(s, Today) \in Nat
  <2>1. Today + 1 <= Today + 1
    BY <1>7
  <2>2. Sellable(s, Today + 1) <= Sum(lots[s], Days)
    BY <1>6, <1>7, <2>1, SettledGrows
  <2> QED
    BY <1>6, <1>7, <2>2, SettledNext
<1> QED
  BY <1>6, <1>7, <1>8

\* A new lifecycle has nothing to count.
LEMMA CountedBuy ==
  ASSUME Runs, Lives, Clocked, Books, Counted, NEW p \in Plans, BuySignal(p)
  PROVE  Counted'
<1>1. /\ fills' = fills /\ applied' = applied /\ quar' = quar /\ ~SignalledBefore("BUY", p)
      /\ life' = [life EXCEPT ![p] = [NoLife EXCEPT !.status = "SIGNALLED"]]
  BY DEF BuySignal, account
<1>2. life[p] = NoLife
  BY <1>1 DEF Counted
<1>3. /\ life'[p] = [status |-> "SIGNALLED", entry |-> 0, exit |-> 0]
      /\ \A r \in Plans : r # p => life'[r] = life[r]
  <2>1. [NoLife EXCEPT !.status = "SIGNALLED"] = [status |-> "SIGNALLED", entry |-> 0, exit |-> 0]
    BY DEF NoLife
  <2> QED
    BY <1>1, <2>1 DEF Lives
<1>4. \A r \in Plans : Remaining(r)' = Remaining(r)
  BY <1>2, <1>3 DEF Remaining, NoLife
<1>5. \A s : Balanced(s) => Balanced(s)'
  <2>1. \A s, A : CountedOf(s, A)' = CountedOf(s, A)
    BY <1>1 DEF CountedOf, CountedFills, Amounts, SymOf
  <2> QED
    BY <1>4, <2>1, LeftSame DEF Balanced
<1>6. \A f \in fills : f.sig.plan \in Plans /\ f.sig.plan # p
  BY NothingBought DEF Runs, Lives
<1>7. SignalledBefore("BUY", p)' /\ signals \subseteq signals'
  <2>1. PICK w \in Windows, n \in 1 .. Qty :
           signals' = signals \cup {[act |-> "BUY", plan |-> p, at |-> clock, win |-> w, lim |-> n]}
    BY DEF BuySignal
  <2> DEFINE e == [act |-> "BUY", plan |-> p, at |-> clock, win |-> w, lim |-> n]
  <2>2. signals' = signals \cup {e} /\ e.act = "BUY" /\ e.plan = p
    BY <2>1
  <2> HIDE DEF e
  <2> QED
    BY <2>2 DEF SignalledBefore
<1>8. \A e : Filled(e)' <=> Filled(e)
  BY <1>1 DEF Filled
<1>9. \A r \in Plans : life'[r].status # "NONE" => SignalledBefore("BUY", r)'
  BY <1>3, <1>7 DEF Counted, SignalledBefore
<1>10. \A f \in fills : f.sig \notin applied => ~Tracked(f.sig)' \/ Quarantined(f.sig.plan)'
  BY <1>1, <1>3, <1>6 DEF Counted, Tracked, Quarantined
<1> QED
  BY <1>1, <1>3, <1>5, <1>8, <1>9, <1>10 DEF Counted, Owned

\* Fill g, which may be a new one, is counted by the lifecycle of its plan.
LEMMA CountedApply ==
  ASSUME Runs, Lives, Counted, FillsSound, FillsSound', NEW g, g \in fills',
         fills' = fills \/ fills' = fills \cup {g}, NEW e, g.sig = e, e \in signals, e \notin applied, Tracked(e),
         Apply(e, g.qty), signals' = signals, quar \subseteq quar',
         e.act \in ExitActs => Owned(fills', e.plan)
  PROVE  Counted'
<1>1. /\ life' = [life EXCEPT ![e.plan] = AfterFill(e, g.qty)] /\ applied' = applied \cup {e}
      /\ e.plan \in Plans /\ e.act \in Acts /\ g.qty \in Nat /\ fills \subseteq fills'
  BY DEF Apply, Runs, FillsSound
<1>2. life'[e.plan] = AfterFill(e, g.qty) /\ \A r \in Plans : r # e.plan => life'[r] = life[r]
  BY <1>1 DEF Lives
<1>3. life'[e.plan].status # "NONE" /\ life[e.plan].status # "NONE"
  <2>1. AfterFill(e, g.qty).status \in {"OPEN", "CLOSED", "PARTIALLY_CLOSED"}
    <3>1. life[e.plan] \in [status : Statuses, entry : Nat, exit : Nat]
      BY <1>1 DEF Lives
    <3> QED
      BY <3>1 DEF AfterFill
  <2> QED
    BY <1>2, <2>1 DEF Tracked
<1>4. \A s \in Symbols : Balanced(s)'
  <2> SUFFICES ASSUME NEW s \in Symbols PROVE Balanced(s)'
    OBVIOUS
  <2> DEFINE q == g.qty
  <2>1. /\ LeftOf(s) \in Int
        /\ LeftOf(s)' = LeftOf(s) + (IF SymOf(e) = s THEN IF e.act \in EntryActs THEN q ELSE 0 - q ELSE 0)
    BY <1>1, LeftMore
  <2>2. \A A : CountedOf(s, A)' = CountedOf(s, A) + (IF SymOf(e) = s /\ e.act \in A THEN q ELSE 0)
    BY <1>1, CountedMore
  <2>3. /\ CountedOf(s, EntryActs)' = CountedOf(s, EntryActs) + (IF SymOf(e) = s /\ e.act \in EntryActs THEN q ELSE 0)
        /\ CountedOf(s, ExitActs)' = CountedOf(s, ExitActs) + (IF SymOf(e) = s /\ e.act \in ExitActs THEN q ELSE 0)
    BY <2>2
  <2>4. CountedOf(s, EntryActs) \in Nat /\ CountedOf(s, ExitActs) \in Nat
    BY CountedType
  <2>5. e.act \in ExitActs <=> e.act \notin EntryActs
    BY <1>1 DEF Acts, EntryActs, ExitActs
  <2>6. LeftOf(s) = CountedOf(s, EntryActs) - CountedOf(s, ExitActs)
    BY DEF Counted, Balanced
  <2>7. q \in Nat
    BY <1>1
  <2> HIDE DEF q
  <2>8. LeftOf(s)' = CountedOf(s, EntryActs)' - CountedOf(s, ExitActs)'
    BY <2>1, <2>3, <2>4, <2>5, <2>6, <2>7
  <2> QED
    BY <2>8 DEF Balanced
<1>5. \A f \in fills' : f.sig.plan \in Plans /\ (f.sig \notin applied' => f \in fills)
  BY <1>1 DEF Runs, Lives
<1>6. \A f \in fills' : f.sig \notin applied' => ~Tracked(f.sig)' \/ Quarantined(f.sig.plan)'
  <2>1. \A f \in fills : f.sig \notin applied => ~Tracked(f.sig) \/ Quarantined(f.sig.plan)
    BY DEF Counted
  <2>2. \A p : Quarantined(p) => Quarantined(p)'
    BY DEF Quarantined
  <2>3. \A f \in fills' : ~Tracked(f.sig) => ~Tracked(f.sig)'
    BY <1>2, <1>3, <1>5 DEF Tracked
  <2> QED
    BY <1>1, <1>5, <2>1, <2>2, <2>3
<1>7. \A d \in applied' : Filled(d)'
  BY <1>1 DEF Counted, Filled
<1>8. \A p \in Plans : /\ life'[p].status = "NONE" => life'[p] = NoLife
                       /\ life'[p].status # "NONE" => SignalledBefore("BUY", p)'
  BY <1>1, <1>2, <1>3 DEF Counted, SignalledBefore
<1>9. \A f \in fills' : f.sig.act \in ExitActs => Owned(fills', f.sig.plan)
  BY <1>1 DEF Counted, Owned
<1> QED
  BY <1>4, <1>6, <1>7, <1>8, <1>9 DEF Counted

\* A fill of a plan without a lifecycle, or the sale of a quarantined one.
LEMMA CountedNot ==
  ASSUME Runs, Lives, Counted, FillsSound, FillsSound', NEW g, fills' = fills \cup {g}, g \notin fills,
         NEW e, g.sig = e, e \in signals, ~Filled(e), ~Tracked(e) \/ Quarantined(e.plan),
         life' = life, applied' = applied, signals' = signals, quar' = quar,
         e.act \in ExitActs => Owned(fills', e.plan)
  PROVE  Counted'
<1>1. e \notin applied
  BY DEF Counted
<1>2. \A s, A : CountedOf(s, A)' = CountedOf(s, A)
  BY <1>1, CountedKept
<1>3. \A s \in Symbols : Balanced(s)'
  <2>1. \A p \in Plans : Remaining(p)' = Remaining(p)
    BY DEF Remaining
  <2> QED
    BY <1>2, <2>1, LeftSame DEF Balanced, Counted
<1>4. \A f \in fills' : f.sig \notin applied' => ~Tracked(f.sig)' \/ Quarantined(f.sig.plan)'
  BY DEF Counted, Tracked, Quarantined
<1>5. \A d \in applied' : Filled(d)'
  BY DEF Counted, Filled
<1>6. \A f \in fills' : f.sig.act \in ExitActs => Owned(fills', f.sig.plan)
  BY DEF Counted, Owned
<1> QED
  BY <1>3, <1>4, <1>5, <1>6 DEF Counted, SignalledBefore

\* What a step of a monitor does to the lifecycles.
LEMMA SettleCounts ==
  ASSUME NEW m \in Monitors, Settle(m)
  PROVE  \/ fills' = fills /\ life' = life /\ applied' = applied /\ quar \subseteq quar'
         \/ Fills(m) /\ quar' = quar
         \/ \E e \in signals : Replay(m, e)
         \/ NoFill(m)
<1>1. ASSUME NEW s \in Symbols, Begin(m, s)
      PROVE  fills' = fills /\ life' = life /\ applied' = applied /\ quar \subseteq quar'
  BY <1>1 DEF Begin
<1>2. ASSUME NEW e \in signals,
             Pass(m, e) \/ MarkRegression(m, e) \/ SeeNoFill(m, e) \/ ReadEntry(m, e) \/ ReadExit(m, e) \/ ReadRefused(m, e)
      PROVE  fills' = fills /\ life' = life /\ applied' = applied /\ quar \subseteq quar'
  BY <1>2 DEF Pass, MarkRegression, SeeNoFill, ReadEntry, ReadExit, ReadRefused, a4, account, Fault
<1>3. CASE Reserve(m) \/ ReserveLost(m) \/ Duplicate(m) \/ Crash(m)
  BY <1>3 DEF Reserve, ReserveLost, Duplicate, Crash, a4, account
<1>4. CASE CommitRefused(m) \/ Release(m)
  BY <1>4 DEF CommitRefused, Release, Refuse, Fault, account
<1>5. CASE Commit(m) \/ CommitLost(m)
  BY <1>5 DEF Commit, CommitLost, Fills, account
<1> QED
  BY <1>1, <1>2, <1>3, <1>4, <1>5 DEF Settle

\* Every step of a monitor keeps the count.
LEMMA CountedSettle ==
  ASSUME Runs, Lives, Clocked, Books, Books', Counted, NEW m \in Monitors, Settle(m)
  PROVE  Counted'
<1>1. signals' = signals /\ clock' = clock
  BY SettleMoves
<1>2. FillsSound /\ FillsSound'
  BY DEF Books
<1>3. CASE fills' = fills /\ life' = life /\ applied' = applied /\ quar \subseteq quar'
  BY <1>1, <1>3, CountedSame
<1>4. CASE Fills(m) /\ quar' = quar
  <2> DEFINE e == mon[m].ev
             g == NewFill(m)
  <2>1. fills' = fills \cup {g} /\ g \notin fills /\ g.sig = e /\ g.qty = mon[m].qty
    BY <1>1, <1>4, FillsMore DEF NewFill
  <2>2. /\ e \in signals /\ ~Filled(e)
        /\ e.act \in ExitActs => Owned(fills, e.plan)
    BY <1>4, FillsAbout DEF Fills
  <2>3. e.act \in ExitActs => Owned(fills', e.plan)
    BY <2>1, <2>2 DEF Owned
  <2>4. e \notin applied
    BY <2>2 DEF Counted
  <2>5. CASE Counts(m)
    <3>1. Tracked(e) /\ Apply(e, g.qty)
      BY <1>4, <2>1, <2>5 DEF Fills, Filling, Counts
    <3> HIDE DEF e, g
    <3> QED
      BY <1>1, <1>2, <1>4, <2>1, <2>2, <2>3, <2>4, <3>1, CountedApply
  <2>6. CASE ~Counts(m)
    <3>1. life' = life /\ applied' = applied /\ (~Tracked(e) \/ Quarantined(e.plan))
      BY <1>4, <2>6 DEF Fills, Filling, Counts
    <3> HIDE DEF e, g
    <3> QED
      BY <1>1, <1>2, <1>4, <2>1, <2>2, <2>3, <3>1, CountedNot
  <2> QED
    BY <2>5, <2>6
<1>5. ASSUME NEW e \in signals, Replay(m, e) PROVE Counted'
  <2>1. fills' = fills
    BY <1>5 DEF Replay, account
  <2>2. CASE life' = life /\ applied' = applied /\ quar \subseteq quar'
    BY <1>1, <2>1, <2>2, CountedSame
  <2>3. ASSUME NEW f \in fills, f.sig = e, Tracked(e), e \notin applied, Apply(e, f.qty), quar' = quar PROVE Counted'
    <3>1. e.act \in ExitActs => Owned(fills', e.plan)
      BY <2>1, <2>3 DEF Counted
    <3> QED
      BY <1>1, <1>2, <2>1, <2>3, <3>1, CountedApply
  <2> QED
    BY <1>5, <2>2, <2>3 DEF Replay, a4, Fault
<1>6. CASE NoFill(m)
  <2> DEFINE e == mon[m].ev
             p == e.plan
  <2>1. p \in Plans
    <3>1. e \in signals
      BY <1>6, RunSteps DEF NoFill
    <3> QED
      BY <3>1 DEF Runs
  <2>2. fills' = fills /\ applied' = applied /\ quar \subseteq quar'
    BY <1>6 DEF NoFill, account, Fault
  <2>3. CASE life' = life
    BY <1>3, <2>2, <2>3
  <2>4. CASE life[p].status \in {"SIGNALLED", "UNFILLED"} /\ life' = [life EXCEPT ![p].status = "UNFILLED"]
    <3>1. life[p] \in [status : Statuses, entry : Nat, exit : Nat]
      BY <2>1 DEF Lives
    <3>2. life'[p] = [life[p] EXCEPT !.status = "UNFILLED"] /\ \A r \in Plans : r # p => life'[r] = life[r]
      BY <2>1, <2>4 DEF Lives
    <3>3. life'[p].status = "UNFILLED" /\ life'[p].entry = life[p].entry /\ life'[p].exit = life[p].exit
      BY <3>1, <3>2
    <3> HIDE DEF p
    <3> QED
      BY <1>1, <2>2, <2>4, <3>2, <3>3, CountedSame
  <2> QED
    BY <1>6, <2>3, <2>4 DEF NoFill
<1> QED
  BY <1>3, <1>4, <1>5, <1>6, SettleCounts

\* The status of one live lifecycle.
LEMMA CountedStatus ==
  ASSUME Runs, Lives, Counted, fills' = fills, applied' = applied, signals \subseteq signals', quar' = quar,
         NEW p \in Plans, NEW t, t # "NONE", life[p].status # "NONE",
         life' = [life EXCEPT ![p].status = t]
  PROVE  Counted'
<1>1. life[p] \in [status : Statuses, entry : Nat, exit : Nat]
  BY DEF Lives
<1>2. life'[p] = [life[p] EXCEPT !.status = t] /\ \A r \in Plans : r # p => life'[r] = life[r]
  BY DEF Lives
<1>3. life'[p].status = t /\ life'[p].entry = life[p].entry /\ life'[p].exit = life[p].exit
  BY <1>1, <1>2
<1> QED
  BY <1>2, <1>3, CountedSame

\* Every signal keeps the count.
LEMMA CountedSignal ==
  ASSUME Runs, Lives, Clocked, Books, Counted, NEW p \in Plans,
         BuySignal(p) \/ AddSignal(p) \/ PlanInvalidated(p) \/ EntryWindowMissing(p)
         \/ \E a \in ExitActs : ExitSignal(p, a)
  PROVE  Counted'
<1>1. CASE BuySignal(p)
  BY <1>1, CountedBuy
<1>2. CASE AddSignal(p)
  BY <1>2, CountedSame DEF AddSignal, a4, account
<1>3. CASE PlanInvalidated(p)
  <2>1. /\ fills' = fills /\ applied' = applied /\ signals' = signals /\ quar' = quar
        /\ life' = life \/ (life[p].status \in Live /\ life' = [life EXCEPT ![p].status = Invalidated(p)])
    BY <1>3 DEF PlanInvalidated, account
  <2>2. CASE life' = life
    BY <2>1, <2>2, CountedSame
  <2>3. CASE life[p].status \in Live /\ life' = [life EXCEPT ![p].status = Invalidated(p)]
    <3>1. life[p].status # "NONE" /\ Invalidated(p) # "NONE"
      BY <2>3 DEF Live, Invalidated
    <3> QED
      BY <2>1, <2>3, <3>1, CountedStatus
  <2> QED
    BY <2>1, <2>2, <2>3
<1>4. CASE EntryWindowMissing(p)
  BY <1>4, CountedStatus DEF EntryWindowMissing, account
<1>5. ASSUME NEW a \in ExitActs, ExitSignal(p, a) PROVE Counted'
  <2>1. /\ fills' = fills /\ applied' = applied /\ signals \subseteq signals' /\ quar' = quar
        /\ life' = life \/ (life[p].status \in Live /\ life' = [life EXCEPT ![p].status = "EXIT_PENDING"])
    BY <1>5 DEF ExitSignal, account
  <2>2. CASE life' = life
    BY <2>1, <2>2, CountedSame
  <2>3. CASE life[p].status \in Live /\ life' = [life EXCEPT ![p].status = "EXIT_PENDING"]
    BY <2>1, <2>3, CountedStatus DEF Live
  <2> QED
    BY <2>1, <2>2, <2>3
<1> QED
  BY <1>1, <1>2, <1>3, <1>4, <1>5

\* The count holds in every state.
LEMMA CountedAlways == Spec => []Counted
<1>1. Init => Counted
  <2> SUFFICES ASSUME Init PROVE Counted
    OBVIOUS
  <2>1. \A s \in Symbols : Balanced(s)
    <3> SUFFICES ASSUME NEW s \in Symbols PROVE Balanced(s)
      OBVIOUS
    <3>1. LeftOf(s) = 0
      <4>1. \A p \in PlansOf(s) : [r \in Plans |-> Remaining(r)][p] = 0
        BY DEF Init, NoLife, Remaining, PlansOf
      <4> QED
        BY <4>1, PlansFinite, SumZero DEF LeftOf
    <3>2. \A A : CountedOf(s, A) = 0
      <4>1. \A A : CountedFills(s, A) = {}
        BY DEF Init, CountedFills
      <4> QED
        BY <4>1, SumEmpty DEF CountedOf
    <3> QED
      BY <3>1, <3>2 DEF Balanced
  <2> QED
    BY <2>1 DEF Init, Counted, NoLife
<1>2. Runs /\ Lives /\ Clocked /\ Books /\ Books' /\ Counted /\ [Next]_vars => Counted'
  <2> SUFFICES ASSUME Runs, Lives, Clocked, Books, Books', Counted, [Next]_vars PROVE Counted'
    OBVIOUS
  <2>1. CASE UNCHANGED vars \/ Tick
    <3>1. fills' = fills /\ applied' = applied /\ signals' = signals /\ quar' = quar /\ life' = life
      BY <2>1 DEF vars, Tick, a4, account
    <3> QED
      BY <3>1, CountedSame
  <2> QED
    BY <2>1, CountedSignal, CountedSettle DEF Next, Signal
<1> QED
  BY <1>1, <1>2, RunsAlways, LivesAlways, ClockedAlways, BooksAlways, PTL DEF Spec

\* The lifecycles of a symbol say exactly what is held of it, whatever
\* monitors died between a fill and its counting, unless the symbol is
\* quarantined or a plan without a lifecycle added to the position.
THEOREM LifecyclesAreThePosition == Spec => []LifecyclesFollowPosition
<1>1. Lives /\ Books /\ Counted => LifecyclesFollowPosition
  <2> SUFFICES ASSUME Lives, Books, Counted, NEW s \in Symbols,
                      ~ \E q \in quar : SymbolOf[q] = s,
                      ~ \E f \in fills : SymOf(f.sig) = s /\ ~Tracked(f.sig)
               PROVE  pos[s].total = LeftOf(s)
    BY DEF LifecyclesFollowPosition, LeftOf, PlansOf
  <2>1. \A f \in fills : SymOf(f.sig) = s => f.sig \in applied
    BY DEF Counted, Quarantined, SymOf
  <2>2. \A A : CountedOf(s, A) = FilledOf(s, A)
    <3>1. \A A : CountedFills(s, A) = FillsOf(s, A)
      BY <2>1 DEF CountedFills, FillsOf
    <3> QED
      BY <3>1, FilledIs DEF CountedOf
  <2> QED
    BY <2>2 DEF Counted, Balanced, Books, Stock, StockOf, BoughtOf, SoldOf
<1> QED
  BY <1>1, LivesAlways, BooksAlways, CountedAlways, PTL
=============================================================================
