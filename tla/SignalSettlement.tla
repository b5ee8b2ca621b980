-------------------------- MODULE SignalSettlement --------------------------
(***************************************************************************)
(* From a monitor's signal to the paper account: the A4 lifecycle of an    *)
(* entry signal, the settlement that turns signals into simulated fills,   *)
(* and the account those fills change (runtime/state.py, simulation.py and *)
(* workflow.py).                                                           *)
(*                                                                         *)
(* A monitor process settles one symbol at a time: it lists the effective  *)
(* signals, and for each of them reads the lifecycle, the position and the *)
(* account, reserves cash for an entry, and commits the fill with the      *)
(* amounts computed from what it read.  The reads and the two writes are   *)
(* separate transactions, monitors may overlap, and a process may die      *)
(* between any two steps.  commit_fill is one transaction: lifecycle, cash,*)
(* lots, position and reservation change together or not at all.           *)
(*                                                                         *)
(* Time is counted in minutes, MinutesPerDay to a session.  What the bar   *)
(* of an entry's one execution minute allows never changes, so the signal  *)
(* carries it: the quantity it can fill, "nofill", or "gap" when the bar   *)
(* was never captured.  Prices and fees are constants.                     *)
(***************************************************************************)
EXTENDS Integers, FiniteSetsExt

CONSTANTS
    Plans, Symbols, Monitors,
    SymbolOf,       \* the symbol of each plan
    DayOf,          \* the session each plan is active in
    NDays,          \* bound: sessions explored
    MinutesPerDay,  \* bound: minutes of a session
    MaxAdds,        \* bound: ADD signals (0 or 1 for each plan)
    Windows,        \* what an entry's bar may allow: "fill", "nofill", "gap"
    Qty,            \* the frozen quantity of an entry
    FillPrice, LimitPrice, InitialCash

ASSUME SettlementAssumption ==
    /\ IsFiniteSet(Plans) /\ IsFiniteSet(Symbols) /\ SymbolOf \in [Plans -> Symbols]
    /\ DayOf \in [Plans -> Nat]
    /\ NDays \in Nat \ {0} /\ MinutesPerDay \in Nat \ {0}
    /\ MaxAdds \in {0, 1} /\ Windows \subseteq {"fill", "nofill", "gap"}
    /\ Qty \in Nat \ {0}
    /\ FillPrice \in Nat /\ LimitPrice \in Nat /\ InitialCash \in Nat
    /\ FillPrice <= LimitPrice

VARIABLES
    clock,    \* the minute that just closed
    signals,  \* monitor_events: the effective signals
    ended,    \* plans ended by an effective PLAN_INVALIDATED
    life,     \* a4_signal_lifecycles, by plan
    applied,  \* the signals whose fill a lifecycle has counted
    quar,     \* a4_lifecycle_reconciliations: the quarantined plans
    fills,    \* virtual_fills
    cash,     \* virtual_accounts.cash
    pos,      \* virtual_positions, by symbol
    lots,     \* position_lots: quantity left of each session's purchases
    resv,     \* risk_reservations: the status, by entry signal
    mark,     \* portfolio_marks: the minute of the last mark, by symbol
    mon,      \* the monitor processes
    unsure    \* history: entries with an attempt whose outcome nobody knows

account == <<fills, cash, pos, lots, resv>>
a4      == <<life, applied, quar>>
vars    == <<clock, signals, ended, a4, account, mark, mon, unsure>>

-----------------------------------------------------------------------------
Days    == 0 .. NDays - 1
Minutes == 0 .. NDays * MinutesPerDay - 1
Day(t)  == t \div MinutesPerDay
Today   == Day(clock)

EntryActs == {"BUY", "ADD"}
ExitActs  == {"SELL", "REDUCE", "FORCED"}

Signals == [act : EntryActs, plan : Plans, at : Minutes, win : Windows, lim : 1 .. Qty] \cup
           [act : ExitActs, plan : Plans, at : Minutes]
Orders  == EntryActs \X Plans
Order(e) == <<e.act, e.plan>>

Live     == {"SIGNALLED", "OPEN", "EXIT_PENDING", "PARTIALLY_CLOSED"}
Terminal == {"CLOSED", "UNFILLED", "INVALIDATED", "DATA_ERROR"}
Dead     == Terminal \ {"CLOSED"}

NoSignal   == [act |-> "NONE"]
NoPosition == [total |-> 0]
NoLife     == [status |-> "NONE", entry |-> 0, exit |-> 0]
Idle       == [pc |-> "idle"]

Held(s)       == pos[s] # NoPosition
Remaining(p)  == life[p].entry - life[p].exit
SymOf(e)      == SymbolOf[e.plan]
Filled(e)     == \E f \in fills : f.sig = e

Sum(f, S) == MapThenSumSet(LAMBDA x : f[x], S)

\* get_a4_plan_quarantine: the plan's own incident, or one of its symbol.
Quarantined(p) == \E q \in quar : SymbolOf[q] = SymbolOf[p]

\* sellable_qty: what is left of the purchases of earlier sessions.
Sellable(s, d) == Sum(lots[s], {x \in Days : x < d})

\* A run with nothing left to do ends.
Listing(bar, s, todo) == IF todo = {} THEN Idle
                         ELSE [pc |-> "list", bar |-> bar, sym |-> s, todo |-> todo]

\* The signal that the monitor is working on is done with.
Done(m, e) == mon' = [mon EXCEPT ![m] = Listing(@.bar, @.sym, @.todo \ {e})]

-----------------------------------------------------------------------------
Init ==
    /\ clock = 0 /\ signals = {} /\ ended = {}
    /\ life = [p \in Plans |-> NoLife] /\ applied = {} /\ quar = {}
    /\ fills = {} /\ cash = InitialCash
    /\ pos = [s \in Symbols |-> NoPosition]
    /\ lots = [s \in Symbols |-> [d \in Days |-> 0]]
    /\ resv = [o \in Orders |-> "NONE"]
    /\ mark = [s \in Symbols |-> 0]
    /\ mon = [m \in Monitors |-> Idle]
    /\ unsure = {}

\* A session ends when its monitors have; no process runs overnight.
Tick ==
    /\ clock + 1 \in Minutes
    /\ Day(clock + 1) # Today => \A m \in Monitors : mon[m] = Idle
    /\ clock' = clock + 1
    /\ UNCHANGED <<signals, ended, a4, account, mark, mon, unsure>>

-----------------------------------------------------------------------------
(* The evaluation of a closed minute, and record_monitor_event with the    *)
(* synchronisation of the lifecycle in the same transaction.               *)

Active(p) == DayOf[p] = Today /\ p \notin ended

\* A held position is evaluated under its own plan, unless another plan is
\* active for its symbol.
Evaluated(p) ==
    \/ Active(p)
    \/ /\ Held(SymbolOf[p]) /\ pos[SymbolOf[p]].plan = p
       /\ ~ \E q \in Plans : Active(q) /\ SymbolOf[q] = SymbolOf[p]

SignalledBefore(a, p) == \E e \in signals : e.act = a /\ e.plan = p
SignalledToday(a, p)  == \E e \in signals : e.act = a /\ e.plan = p /\ Day(e.at) = Today

BuySignal(p) ==
    /\ Active(p) /\ ~Held(SymbolOf[p]) /\ Day(clock + 1) = Today
    /\ ~SignalledBefore("BUY", p)
    /\ \E w \in Windows, n \in 1 .. Qty :
         /\ w # "fill" => n = Qty
         /\ signals' = signals \cup {[act |-> "BUY", plan |-> p, at |-> clock, win |-> w, lim |-> n]}
    /\ life' = [life EXCEPT ![p] = [NoLife EXCEPT !.status = "SIGNALLED"]]
    /\ UNCHANGED <<clock, ended, applied, quar, account, mark, mon, unsure>>

\* An ADD has no lifecycle of its own; every episode of the strategy may emit
\* one, MaxAdds bounds them.
AddSignal(p) ==
    /\ MaxAdds = 1
    /\ Active(p) /\ Held(SymbolOf[p]) /\ Day(clock + 1) = Today
    /\ ~SignalledBefore("ADD", p)
    /\ \E w \in Windows \ {"nofill"} :
         signals' = signals \cup {[act |-> "ADD", plan |-> p, at |-> clock, win |-> w, lim |-> Qty]}
    /\ UNCHANGED <<clock, ended, a4, account, mark, mon, unsure>>

\* An exit is effective only with settled lots to sell.  A strategy SELL is
\* accepted once for a plan, a hard stop once a session; of the episodes of
\* REDUCE one is explored.  A terminal lifecycle refuses it unless it is
\* quarantined, and then the whole event is rolled back.
ExitSignal(p, a) ==
    LET s == SymbolOf[p]
    IN  /\ Evaluated(p) \/ (a = "FORCED" /\ Held(s) /\ pos[s].plan = p)
        /\ Held(s) /\ Sellable(s, Today) > 0
        /\ IF a = "FORCED" THEN ~SignalledToday(a, p) ELSE ~SignalledBefore(a, p)
        /\ life[p].status \in Terminal => p \in quar
        /\ signals' = signals \cup {[act |-> a, plan |-> p, at |-> clock]}
        /\ life' = IF life[p].status \in Live
                   THEN [life EXCEPT ![p].status = "EXIT_PENDING"] ELSE life
        /\ UNCHANGED <<clock, ended, applied, quar, account, mark, mon, unsure>>

\* A bug: the invalidation ends the lifecycle of a held position too.
InvalidatedHeld(p) == "INVALIDATED"

\* A bug: the signal of a plan is cancelled with it.
InvalidatedAsCancelled(p) == "CANCELLED"

\* Invalidating an unfilled signal is terminal, a held one still needs its exit.
Invalidated(p) == IF Remaining(p) > 0 THEN "EXIT_PENDING" ELSE "INVALIDATED"

PlanInvalidated(p) ==
    /\ Active(p)
    /\ life[p].status \notin Terminal
    /\ ended' = ended \cup {p}
    /\ life' = IF life[p].status \in Live THEN [life EXCEPT ![p].status = Invalidated(p)] ELSE life
    /\ UNCHANGED <<clock, signals, applied, quar, account, mark, mon, unsure>>

-----------------------------------------------------------------------------
(* Settlement: _settle_prior_signals and the broker's apply.               *)

\* reconcile_held_a4_lifecycles: a dead lifecycle whose entry was filled.
Contradicted == {p \in Plans : /\ life[p].status \in Dead
                               /\ Held(SymbolOf[p]) /\ pos[SymbolOf[p]].plan = p
                               /\ \E f \in fills : f.sig.act = "BUY" /\ f.sig.plan = p}

\* A bug: the new session releases everything that is held.
ReleasedAll == [s \in Symbols |-> IF Held(s) THEN [pos[s] EXCEPT !.sellable = pos[s].total] ELSE pos[s]]

\* start_account_trading_day: release what earlier sessions bought.
Released == [s \in Symbols |-> IF Held(s) THEN [pos[s] EXCEPT !.sellable = Sellable(s, Today)] ELSE pos[s]]

\* A monitor run of this minute opens the session and settles one symbol.
Begin(m, s) ==
    /\ mon[m] = Idle
    /\ pos' = Released
    /\ quar' = quar \cup Contradicted
    /\ mon' = [mon EXCEPT ![m] = Listing(clock, s, {e \in signals : SymOf(e) = s})]
    /\ UNCHANGED <<clock, signals, ended, life, applied, fills, cash, lots, resv, mark, unsure>>

Priority(e) == CASE e.act = "FORCED" -> 3 [] e.act = "SELL" -> 2 [] e.act = "REDUCE" -> 1 [] OTHER -> 4

\* Entries first, then full exits before reductions, then the older ones.
First(e, todo) == \A d \in todo : \/ Priority(e) > Priority(d)
                                  \/ Priority(e) = Priority(d) /\ e.at <= d.at

\* An exit is tried only in its own session, on a later bar.
Ripe(e, m) ==
    /\ Day(e.at) = Day(mon[m].bar)
    /\ mon[m].bar > e.at
    /\ Held(mon[m].sym) /\ pos[mon[m].sym].plan = e.plan
    /\ pos[mon[m].sym].sellable > 0

\* An entry is tried on the one bar after its signal, however late the run.
Due(e, m) ==
    /\ Day(e.at) = Day(mon[m].bar)
    /\ e.at + 1 <= mon[m].bar
    /\ e.win # "gap"
    /\ ~Quarantined(e.plan)

BarOf(e, m) == IF e.act \in EntryActs THEN e.at + 1 ELSE mon[m].bar

Tries(e, m) == IF e.act \in EntryActs THEN Due(e, m) ELSE Ripe(e, m)

Working(m, e) == mon[m].pc = "list" /\ e \in mon[m].todo /\ First(e, mon[m].todo)

\* _settle_prior_signals_isolated: a state fault quarantines the lifecycles of
\* this symbol that were signalled today and are still live, and ends the run.
Faulted(m) == {p \in Plans : /\ SymbolOf[p] = mon[m].sym
                             /\ life[p].status \in Live /\ DayOf[p] = Today}
Fault(m) ==
    /\ quar' = quar \cup Faulted(m)
    /\ mon' = [mon EXCEPT ![m] = Idle]

-----------------------------------------------------------------------------
(* apply_a4_fill: what one fill of quantity q does to a lifecycle.         *)

CanApply(e, q) ==
    LET l == life[e.plan]
    IN  /\ l.status \notin Terminal
        /\ IF e.act \in EntryActs
           THEN /\ l.status \in {"SIGNALLED", "OPEN", "EXIT_PENDING"}
                /\ e.act = "BUY" => l.entry = 0
           ELSE l.entry > 0 /\ q <= Remaining(e.plan)

AfterFill(e, q) ==
    LET l == life[e.plan]
    IN  IF e.act \in EntryActs
        THEN [l EXCEPT !.status = "OPEN", !.entry = @ + q]
        ELSE [l EXCEPT !.status = IF q = Remaining(e.plan) THEN "CLOSED" ELSE "PARTIALLY_CLOSED",
                       !.exit = @ + q]

Tracked(e) == life[e.plan].status # "NONE"

Apply(e, q) ==
    /\ life' = [life EXCEPT ![e.plan] = AfterFill(e, q)]
    /\ applied' = applied \cup {e}

-----------------------------------------------------------------------------
(* What a run does with one signal.                                        *)

\* The signal was filled before: the fill is counted by its lifecycle if it
\* was not; a dead lifecycle is a contradiction and is quarantined.
Replay(m, e) ==
    /\ Working(m, e) /\ Filled(e)
    /\ e.act \in ExitActs => Day(e.at) = Day(mon[m].bar)
    /\ \/ /\ Tracked(e) => (e \in applied /\ life[e.plan].status \notin Dead)
          /\ Done(m, e) /\ UNCHANGED a4
       \/ /\ life[e.plan].status \in Dead
          /\ quar' = quar \cup {e.plan} /\ Done(m, e) /\ UNCHANGED <<life, applied>>
       \/ /\ Tracked(e) /\ e \notin applied /\ life[e.plan].status \notin Dead
          /\ \E f \in fills : /\ f.sig = e
                              /\ IF CanApply(e, f.qty)
                                 THEN Apply(e, f.qty) /\ Done(m, e) /\ UNCHANGED quar
                                 ELSE Fault(m) /\ UNCHANGED <<life, applied>>
    /\ UNCHANGED <<clock, signals, ended, account, mark, unsure>>

\* Nothing to do for it in this run, or the broker refuses it for a reason
\* this model does not look into (session, corporate action, bad bar).
Pass(m, e) ==
    /\ Working(m, e)
    /\ Filled(e) => e.act \in ExitActs /\ Day(e.at) # Day(mon[m].bar)
    /\ Done(m, e)
    /\ UNCHANGED <<clock, signals, ended, a4, account, mark, unsure>>

Trying(m, e) == Working(m, e) /\ ~Filled(e) /\ Tries(e, m)

\* A mark may not go back in time: the entry bar of a signal that is tried
\* late may be older than the last mark, and that is an unexpected fault.
MarkRegression(m, e) ==
    /\ Trying(m, e) /\ BarOf(e, m) < mark[mon[m].sym]
    /\ Fault(m)
    /\ UNCHANGED <<clock, signals, ended, life, applied, account, mark, unsure>>

Attempting(m, e) ==
    /\ Trying(m, e) /\ BarOf(e, m) >= mark[mon[m].sym]
    /\ mark' = [mark EXCEPT ![mon[m].sym] = BarOf(e, m)]

\* The bar shows that the limit was not reached.
SeeNoFill(m, e) ==
    /\ Attempting(m, e) /\ e.act = "BUY" /\ e.win = "nofill"
    /\ mon' = [mon EXCEPT ![m] = [pc |-> "nofill", bar |-> @.bar, sym |-> @.sym, todo |-> @.todo, ev |-> e]]
    /\ UNCHANGED <<clock, signals, ended, a4, account, unsure>>

\* What apply read of the account and the position, and will commit against.
Snapshot(m, e, l, q) ==
    mon' = [mon EXCEPT ![m] = [pc |-> l, bar |-> @.bar, sym |-> @.sym, todo |-> @.todo, ev |-> e,
                               qty |-> q, cash |-> cash, seen |-> pos[@.sym], fault |-> FALSE]]

ReadEntry(m, e) ==
    /\ Attempting(m, e) /\ e.act \in EntryActs /\ e.win = "fill"
    /\ IF e.act = "BUY" THEN ~Held(SymOf(e)) ELSE Held(SymOf(e)) /\ pos[SymOf(e)].adds = 0
    /\ FillPrice * e.lim <= cash
    /\ Snapshot(m, e, "reserve", e.lim)
    /\ UNCHANGED <<clock, signals, ended, a4, account, unsure>>

\* A full exit asks for all that is settled, a reduction for half of it; the
\* volume of the bar may allow less.
Asked(e) == LET n == Sellable(SymOf(e), Today)
            IN  IF e.act = "REDUCE" THEN IF n <= 1 THEN n ELSE n \div 2 ELSE n

ReadExit(m, e) ==
    /\ Attempting(m, e) /\ e.act \in ExitActs
    /\ \E q \in 1 .. Asked(e) : Snapshot(m, e, "commit", q)
    /\ UNCHANGED <<clock, signals, ended, a4, account, unsure>>

\* The refusals that come after the mark was written.
ReadRefused(m, e) ==
    /\ Attempting(m, e)
    /\ Done(m, e)
    /\ UNCHANGED <<clock, signals, ended, a4, account, unsure>>

\* complete_a4_entry_no_fill, in a transaction of its own.
NoFill(m) ==
    /\ mon[m].pc = "nofill"
    /\ LET e == mon[m].ev
           l == life[e.plan]
       IN  IF l.entry = 0 /\ l.status \in {"SIGNALLED", "UNFILLED"}
           THEN /\ life' = [life EXCEPT ![e.plan].status = "UNFILLED"]
                /\ Done(m, e) /\ UNCHANGED quar
           ELSE Fault(m) /\ UNCHANGED life
    /\ UNCHANGED <<clock, signals, ended, applied, account, mark, unsure>>

-----------------------------------------------------------------------------
(* reserve_simulation_order, commit_fill and release_risk_reservation.     *)

Reservation == LimitPrice * Qty
ReservedCash == Reservation * Cardinality({o \in Orders : resv[o] = "RESERVED"})

\* A bug: each reservation is compared with the cash on its own.
FitsAlone == Reservation <= cash

Fits == ReservedCash + Reservation <= cash

\* A row of this order, whatever its status, is returned as it is.
Reserve(m) ==
    /\ mon[m].pc = "reserve"
    /\ LET e == mon[m].ev
           o == Order(e)
       IN  IF resv[o] # "NONE" \/ Fits
           THEN /\ resv' = IF resv[o] = "NONE" THEN [resv EXCEPT ![o] = "RESERVED"] ELSE resv
                /\ mon' = [mon EXCEPT ![m].pc = "commit"]
           ELSE Done(m, e) /\ UNCHANGED resv
    /\ UNCHANGED <<clock, signals, ended, a4, fills, cash, pos, lots, mark, unsure>>

\* A persistence error: the row may have been written, nobody knows.
ReserveLost(m) ==
    /\ mon[m].pc = "reserve"
    /\ LET o == Order(mon[m].ev)
       IN  /\ \/ UNCHANGED resv
              \/ resv[o] = "NONE" /\ Fits /\ resv' = [resv EXCEPT ![o] = "RESERVED"]
           /\ unsure' = unsure \cup {o}
    /\ Done(m, mon[m].ev)
    /\ UNCHANGED <<clock, signals, ended, a4, fills, cash, pos, lots, mark>>

IsEntry(m) == mon[m].ev.act \in EntryActs
Pending(m) == IF IsEntry(m) THEN {Order(mon[m].ev)} ELSE {}

\* A bug: the account may have changed since it was read.
UnchangedPositionOnly(m) == pos[mon[m].sym] = mon[m].seen

\* The amounts computed from the snapshot still match the rows.
StillAsRead(m) ==
    LET s == mon[m].sym
        seen == mon[m].seen
    IN  /\ cash = mon[m].cash
        /\ pos[s].total = seen.total
        /\ Held(s) => pos[s].sellable = seen.sellable

\* A bug: a reduction is not counted as an exit of the lifecycle.
CountsFullExits(m) == Tracked(mon[m].ev) /\ mon[m].ev.act # "REDUCE"

\* A quarantined sale protects the position and leaves the lifecycle alone.
Counts(m) == Tracked(mon[m].ev) /\ (IsEntry(m) \/ ~Quarantined(mon[m].ev.plan))

Admissible(m) ==
    /\ IsEntry(m) => resv[Order(mon[m].ev)] = "RESERVED"
    /\ ~IsEntry(m) => Held(mon[m].sym) /\ mon[m].qty <= pos[mon[m].sym].sellable
    /\ StillAsRead(m)
    /\ IsEntry(m) => ~Quarantined(mon[m].ev.plan)
    /\ Counts(m) => CanApply(mon[m].ev, mon[m].qty)

\* The oldest settled lots go first.
Sold(s, q) ==
    LET Taken(d) == IF d >= Today \/ q <= Sellable(s, d) THEN 0
                    ELSE IF lots[s][d] < q - Sellable(s, d) THEN lots[s][d] ELSE q - Sellable(s, d)
    IN  [d \in Days |-> lots[s][d] - Taken(d)]

Bought(s, q) == [lots[s] EXCEPT ![Today] = @ + q]

NewPosition(m) ==
    LET e == mon[m].ev
        q == mon[m].qty
        seen == mon[m].seen
    IN  CASE e.act = "BUY" -> [total |-> q, sellable |-> 0, plan |-> e.plan, adds |-> 0]
          [] e.act = "ADD" -> [seen EXCEPT !.total = @ + q, !.plan = e.plan, !.adds = 1]
          [] OTHER -> IF q = seen.total THEN NoPosition
                      ELSE [seen EXCEPT !.total = @ - q, !.sellable = @ - q, !.plan = e.plan]

\* The writes of commit_fill.
Filling(m) ==
    LET e == mon[m].ev
        s == mon[m].sym
        q == mon[m].qty
    IN  /\ fills' = fills \cup {[sig |-> e, qty |-> q, day |-> Today]}
        /\ cash' = IF IsEntry(m) THEN mon[m].cash - FillPrice * q ELSE mon[m].cash + FillPrice * q
        /\ pos' = [pos EXCEPT ![s] = NewPosition(m)]
        /\ lots' = [lots EXCEPT ![s] = IF IsEntry(m) THEN Bought(s, q) ELSE Sold(s, q)]
        /\ resv' = IF IsEntry(m) THEN [resv EXCEPT ![Order(e)] = "CONSUMED"] ELSE resv
        /\ IF Counts(m) THEN Apply(e, q) ELSE UNCHANGED <<life, applied>>

Commit(m) ==
    /\ mon[m].pc = "commit" /\ Admissible(m) /\ ~Filled(mon[m].ev)
    /\ Filling(m)
    /\ Done(m, mon[m].ev)
    /\ UNCHANGED <<clock, signals, ended, quar, mark, unsure>>

\* The same intent was committed by another run: its fill is returned.
Duplicate(m) ==
    /\ mon[m].pc = "commit" /\ Filled(mon[m].ev) /\ ~IsEntry(m)
    /\ Done(m, mon[m].ev)
    /\ UNCHANGED <<clock, signals, ended, a4, account, mark, unsure>>

\* A bug: the refusal of a commit leaves its reservation as it is.
RefuseAndForget(m, fault) ==
    IF fault THEN Fault(m) ELSE Done(m, mon[m].ev) /\ UNCHANGED quar

\* A refusal is a clear failure; one that names a terminal lifecycle is a
\* fault of the whole symbol.  An entry first gives its reservation back.
Refuse(m, fault) ==
    IF IsEntry(m) THEN /\ mon' = [mon EXCEPT ![m].pc = "release", ![m].fault = fault]
                       /\ UNCHANGED quar
    ELSE IF fault THEN Fault(m)
    ELSE Done(m, mon[m].ev) /\ UNCHANGED quar

\* Every earlier check passed and the lifecycle has ended.
EndedLifecycle(m) ==
    /\ StillAsRead(m) /\ Counts(m) /\ life[mon[m].ev.plan].status \in Terminal
    /\ IsEntry(m) => resv[Order(mon[m].ev)] = "RESERVED" /\ ~Quarantined(mon[m].ev.plan)

CommitRefused(m) ==
    /\ mon[m].pc = "commit" /\ ~Admissible(m) /\ ~(Filled(mon[m].ev) /\ ~IsEntry(m))
    /\ Refuse(m, EndedLifecycle(m))
    /\ UNCHANGED <<clock, signals, ended, life, applied, account, mark, unsure>>

\* A persistence error: the fill is committed or not, nobody knows, and the
\* reservation waits for an audit.
CommitLost(m) ==
    /\ mon[m].pc = "commit"
    /\ \/ Admissible(m) /\ ~Filled(mon[m].ev) /\ Filling(m)
       \/ UNCHANGED <<life, applied, account>>
    /\ unsure' = unsure \cup Pending(m)
    /\ Done(m, mon[m].ev)
    /\ UNCHANGED <<clock, signals, ended, quar, mark>>

Release(m) ==
    /\ mon[m].pc = "release"
    /\ LET o == Order(mon[m].ev)
       IN  resv' = IF resv[o] = "RESERVED" THEN [resv EXCEPT ![o] = "RELEASED"] ELSE resv
    /\ IF mon[m].fault THEN Fault(m) ELSE (Done(m, mon[m].ev) /\ UNCHANGED quar)
    /\ UNCHANGED <<clock, signals, ended, life, applied, fills, cash, pos, lots, mark, unsure>>

\* The process dies, or a persistence error of a read ends the whole run.
Crash(m) ==
    /\ mon[m] # Idle
    /\ mon' = [mon EXCEPT ![m] = Idle]
    /\ unsure' = IF mon[m].pc \in {"commit", "release"} THEN unsure \cup Pending(m) ELSE unsure
    /\ UNCHANGED <<clock, signals, ended, a4, account, mark>>

\* finalize_pending_entries, after the close: the capture ledger of the day
\* proves that the bar of the entry never came.
EntryWindowMissing(p) ==
    /\ Day(clock + 1) # Today /\ DayOf[p] = Today
    /\ life[p].status = "SIGNALLED" /\ life[p].entry = 0
    /\ \E e \in signals : e.act = "BUY" /\ e.plan = p /\ e.win = "gap" /\ ~Filled(e)
    /\ life' = [life EXCEPT ![p].status = "DATA_ERROR"]
    /\ UNCHANGED <<clock, signals, ended, applied, quar, account, mark, mon, unsure>>

-----------------------------------------------------------------------------
Signal ==
    \E p \in Plans : \/ BuySignal(p) \/ AddSignal(p) \/ PlanInvalidated(p) \/ EntryWindowMissing(p)
                     \/ \E a \in ExitActs : ExitSignal(p, a)

Settle(m) ==
    \/ \E s \in Symbols : Begin(m, s)
    \/ \E e \in signals : \/ Replay(m, e) \/ Pass(m, e) \/ MarkRegression(m, e)
                           \/ SeeNoFill(m, e) \/ ReadEntry(m, e) \/ ReadExit(m, e)
                           \/ ReadRefused(m, e)
    \/ NoFill(m) \/ Reserve(m) \/ ReserveLost(m)
    \/ Commit(m) \/ Duplicate(m) \/ CommitRefused(m) \/ CommitLost(m)
    \/ Release(m) \/ Crash(m)

Next == Tick \/ Signal \/ \E m \in Monitors : Settle(m)

Spec == Init /\ [][Next]_vars

-----------------------------------------------------------------------------
Statuses == {"NONE"} \cup Live \cup Terminal
Steps    == {"idle", "list", "nofill", "reserve", "commit", "release"}

\* Every variable has its type.
TypeOK ==
    /\ clock \in Minutes /\ signals \subseteq Signals /\ ended \subseteq Plans
    /\ life \in [Plans -> [status : Statuses, entry : Nat, exit : Nat]]
    /\ applied \subseteq Signals /\ quar \subseteq Plans
    /\ fills \subseteq [sig : Signals, qty : Nat \ {0}, day : Days]
    /\ cash \in Int
    /\ pos \in [Symbols -> {NoPosition} \cup
                 [total : Nat, sellable : Nat, plan : Plans, adds : {0, 1}]]
    /\ lots \in [Symbols -> [Days -> Nat]]
    /\ resv \in [Orders -> {"NONE", "RESERVED", "RELEASED", "CONSUMED"}]
    /\ mark \in [Symbols -> Minutes]
    /\ \A m \in Monitors : mon[m].pc \in Steps
    /\ unsure \subseteq Orders

FilledOf(s, A) == Sum([f \in fills |-> f.qty], {f \in fills : SymOf(f.sig) = s /\ f.sig.act \in A})
BoughtOf(s)    == FilledOf(s, EntryActs)
SoldOf(s)      == FilledOf(s, ExitActs)

\* The account is the sum of its fills: overlapping runs, each committing
\* amounts computed from what it read, never lose an update of the cash, of a
\* position or of its lots (commit_fill's conflict checks).
LedgerIsItsFills ==
    /\ cash = InitialCash + FillPrice * Sum([s \in Symbols |-> SoldOf(s) - BoughtOf(s)], Symbols)
    /\ \A s \in Symbols : /\ pos[s].total = BoughtOf(s) - SoldOf(s)
                          /\ pos[s].total = Sum(lots[s], Days)

\* A purchase is not sold before the next session: what the position offers
\* for sale is settled, whatever was added, sold in part or released late.
OffersSettledOnly ==
    \A s \in Symbols : Held(s) => pos[s].sellable <= Sellable(s, Today)

\* A signal that ended unfilled, invalidated or without data has no fill: a
\* run that is still holding it cannot buy for it afterwards
\* (apply_a4_fill inside commit_fill, complete_a4_entry_no_fill).
DeadSignalsUnfilled ==
    \A p \in Plans : life[p].status \in Dead =>
        ~ \E f \in fills : f.sig.act = "BUY" /\ f.sig.plan = p

\* The lifecycles of a symbol say what is held of it, unless one of them is
\* quarantined or a plan without a lifecycle added to the position.
LifecyclesFollowPosition ==
    \A s \in Symbols :
        (/\ ~ \E q \in quar : SymbolOf[q] = s
         /\ ~ \E f \in fills : SymOf(f.sig) = s /\ ~Tracked(f.sig))
        => pos[s].total = Sum([p \in Plans |-> Remaining(p)], {p \in Plans : SymbolOf[p] = s})

\* Money is never promised twice: the cash covers every open reservation.
ReservationsCovered == ReservedCash <= cash

\* A reservation that is still open is in the hands of a run, or the outcome
\* of one of its attempts is unknown: a clear failure gives it back.
ClearFailureReleases ==
    \A o \in Orders : resv[o] = "RESERVED" =>
        \/ o \in unsure
        \/ \E m \in Monitors : mon[m].pc \in {"commit", "release"} /\ o \in Pending(m)

\* "Presence of another active plan must not hide such a position": an exit
\* signal of a held symbol is a signal of the plan it is held under.
ExitNamesItsPosition ==
    [][\A e \in signals' \ signals : e.act \in ExitActs => pos[SymOf(e)].plan = e.plan]_vars
=============================================================================
