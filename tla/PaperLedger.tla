---------------------------- MODULE PaperLedger ----------------------------
(***************************************************************************)
(* The local paper ledger (liangjian_paper_broker/ledger.py, matching.py,  *)
(* sellability.py): orders admitted from signals reserve cash or shares,   *)
(* closed minute bars fill them, shares bought on a day can be sold on a   *)
(* later one, cancellations are asked for in sessions that may be retried, *)
(* and every day is opened against a proven net value and settled once.    *)
(*                                                                         *)
(* The database is one record.  A transaction holds the write lock from    *)
(* its first to its last statement, so that only on_bar, which decides     *)
(* order after order, is a transaction of several steps: it works on a     *)
(* copy that is committed or forgotten.                                    *)
(*                                                                         *)
(* A day has the minutes 0 (before the open), 1..Close (trading),          *)
(* Close + 1 (15:00) and Close + 2 (settlement).                           *)
(***************************************************************************)
EXTENDS Integers, FiniteSetsExt

CONSTANTS
    Signals,  \* source signals; the order of a signal has its name
    Sessions, \* cancellation sessions
    Scopes,   \* the sets of plans that they may name
    Plans, Symbols, SymbolOf,
    PlanOf, SideOf, QtyOf, \* the request of a signal: a retry with another one is refused
    CapOf,    \* the price a BUY does not exceed, the floor of a SELL; a limit is not above no_chase
    Limits,   \* the signals with LIMIT orders; the others are MARKET orders
    Lot,      \* shares of a round lot
    Capital,
    MinimumCommission,
    CommissionRate, StampRate, TransferRate, \* in thousandths
    Shanghai, \* the symbols with a transfer fee
    Participation, \* the percentage of a minute's volume that may be filled
    Shapes,   \* what a closed minute can look like
    Close, MaxDay,
    None

Days == 1..MaxDay

ASSUME LedgerAssumption ==
    /\ IsFiniteSet(Signals) /\ IsFiniteSet(Plans)
    /\ SymbolOf \in [Plans -> Symbols] /\ PlanOf \in [Signals -> Plans]
    /\ SideOf \in [Signals -> {"BUY", "SELL"}]
    /\ QtyOf \in [Signals -> Nat \ {0}] /\ CapOf \in [Signals -> Nat]
    /\ Limits \subseteq Signals /\ Scopes \subseteq SUBSET Plans
    /\ Lot \in Nat \ {0} /\ Capital \in Nat /\ Close \in Nat \ {0} /\ MaxDay \in Nat \ {0}
    /\ \A k \in Signals : SideOf[k] = "BUY" => QtyOf[k] % Lot = 0
    /\ {MinimumCommission, CommissionRate, StampRate, TransferRate, Participation} \subseteq Nat
    /\ Shanghai \subseteq Symbols
    /\ Shapes \subseteq [low : Nat, vwap : Nat \ {0}, high : Nat, close : Nat, volume : Nat, sides : SUBSET {"BUY", "SELL"}]
    /\ None \notin Nat /\ \A S \in SUBSET Signals : S # None

VARIABLES
    day, minute,
    db, \* the committed database
    tx  \* the transaction of a bar

vars == <<day, minute, db, tx>>

NoOrder == [status |-> "none", rowid |-> 0, day |-> 0, at |-> 0, remaining |-> 0, notional |-> 0, fees |-> 0]

InitDb == [
    cash     |-> Capital,
    order    |-> [k \in Signals |-> NoOrder], \* paper_orders
    placed   |-> 0,                           \* the last of their rowids
    judged   |-> {},                          \* paper_admissions without an order
    lots     |-> [p \in Plans |-> [e \in Days |-> 0]], \* paper_lots by open_date
    bought   |-> [p \in Plans |-> [e \in Days |-> 0]], \* paper_fills by side and day
    sold     |-> [p \in Plans |-> [e \in Days |-> 0]],
    latest   |-> [s \in Symbols |-> 0],       \* the last minute in paper_bars of this day
    mark     |-> [s \in Symbols |-> None],    \* paper_marks
    peak     |-> Capital,                     \* risk_peak_nav
    basis    |-> [e \in Days |-> None],       \* paper_risk_days
    nav      |-> [e \in Days |-> None],       \* daily_nav
    sessions |-> [s \in Sessions |-> None],   \* order_cancellation_sessions
    rows     |-> {}]                          \* order_cancellations

Init ==
    /\ day = 1 /\ minute = 0
    /\ db = InitDb
    /\ tx = None

-----------------------------------------------------------------------------
(* What the ledger computes from its tables.                               *)

Sum(f, S) == MapThenSumSet(LAMBDA x : f[x], S)

Least(a, b) == IF a <= b THEN a ELSE b
Greatest(a, b) == IF a <= b THEN b ELSE a

\* money: rounded half up.
Rounded(n, rate) == (n * rate + 500) \div 1000

\* total_fees of the notional of the whole order.
Fees(k, n) ==
    IF n = 0 THEN 0
    ELSE Greatest(MinimumCommission, Rounded(n, CommissionRate))
         + (IF SideOf[k] = "SELL" THEN Rounded(n, StampRate) ELSE 0)
         + (IF SymbolOf[PlanOf[k]] \in Shanghai THEN Rounded(n, TransferRate) ELSE 0)

Live(o) == o.status \in {"OPEN", "PARTIAL"}

LiveOrders(d, side) == {k \in Signals : SideOf[k] = side /\ Live(d.order[k])}

\* A bug: the fee of what is left is not reserved.
ReservePrice(k, o) == CapOf[k] * o.remaining

\* Cash of a BUY: what is left of it at its cap, and what its fee may grow by.
Reserve(k, o) ==
    CapOf[k] * o.remaining
        + Greatest(0, Fees(k, o.notional + CapOf[k] * o.remaining) - o.fees)

Reserved(d, without) ==
    Sum([k \in Signals |-> Reserve(k, d.order[k])], LiveOrders(d, "BUY") \ without)

\* A bug: the shares of the day count as well.
SellableAlready(d, p) == Sum(d.lots[p], {e \in Days : e <= day})

\* T+1: the shares that were bought before this day.
Sellable(d, p) == Sum(d.lots[p], {e \in Days : e < day})

ReservedShares(d, p) ==
    Sum([k \in Signals |-> d.order[k].remaining], {k \in LiveOrders(d, "SELL") : PlanOf[k] = p})

Position(d, p) == Sum(d.lots[p], Days)

Held(d) == {p \in Plans : Position(d, p) > 0}

Nav(d) ==
    IF \A p \in Held(d) : d.mark[SymbolOf[p]] # None
    THEN d.cash + Sum([p \in Plans |-> Position(d, p) * d.mark[SymbolOf[p]].price], Held(d))
    ELSE None

\* Every position has the price of this minute.
Marked(d, m) ==
    \A p \in Held(d) : LET k == d.mark[SymbolOf[p]] IN k # None /\ k.day = day /\ k.minute = m

Cancelled(d, S) ==
    [d EXCEPT !.order = [k \in Signals |-> IF k \in S THEN [@[k] EXCEPT !.status = "CANCELLED"] ELSE @[k]]]

-----------------------------------------------------------------------------
(* Admission and cancellation.                                             *)

Idle == tx = None

Fresh(k) == db.order[k].status = "none" /\ k \notin db.judged

\* A bug: shares that are for sale already may be sold once more.
SharesOfPlan(k) == QtyOf[k] <= Sellable(db, PlanOf[k])

SharesFree(k) == QtyOf[k] <= Sellable(db, PlanOf[k]) - ReservedShares(db, PlanOf[k])

\* admit_signal in control mode whose callback asks for the order.
Admit(k) ==
    LET o == [status |-> "OPEN", rowid |-> db.placed + 1, day |-> day, at |-> minute,
              remaining |-> QtyOf[k], notional |-> 0, fees |-> 0]
        d == [db EXCEPT !.order[k] = o, !.placed = @ + 1]
    IN  /\ Idle /\ Fresh(k)
        /\ minute \in 1..Close /\ db.nav[day] = None
        /\ SideOf[k] = "SELL" => SharesFree(k)
        /\ Reserved(d, {}) <= d.cash
        /\ db' = d
        /\ UNCHANGED <<day, minute, tx>>

\* admit_signal whose callback asks for no order, but has open BUY orders of the
\* plan cancelled.  (One that has none cancelled leaves its own record only: the
\* signal is not heard of again, as if it had never come.)
Judge(k) ==
    /\ Idle /\ Fresh(k)
    /\ \E S \in SUBSET {b \in LiveOrders(db, "BUY") : PlanOf[b] = PlanOf[k] /\ db.order[b].day = day} \ {{}} :
         db' = [Cancelled(db, S) EXCEPT !.judged = @ \cup {k}]
    /\ UNCHANGED <<day, minute, tx>>

CancelOrder(k) ==
    /\ Idle /\ Live(db.order[k])
    /\ db' = Cancelled(db, {k})
    /\ UNCHANGED <<day, minute, tx>>

\* A bug: a retry runs the session again.
AgainSession(s) == TRUE

\* The first result of a session stands.
NewSession(s) == db.sessions[s] = None

\* cancel_buy_reservations
CancelSession(s, P) ==
    LET S == {k \in LiveOrders(db, "BUY") : PlanOf[k] \in P}
    IN  /\ Idle /\ NewSession(s)
        /\ db' = [Cancelled(db, S) EXCEPT !.sessions[s] = S, !.rows = @ \cup {<<s, k>> : k \in S}]
        /\ UNCHANGED <<day, minute, tx>>
-----------------------------------------------------------------------------
(* on_bar.                                                                 *)

IsOpenOf(s, k) == Live(db.order[k]) /\ SymbolOf[PlanOf[k]] = s

\* The callers hand in the bar that has just closed (run_control_minute), or the
\* one of 15:00 at any time after it (run_close_bar).
DueBar == Least(minute, Close + 1)

\* The bar, later than the last one of its symbol, of a day that is not settled.
BeginBar(s, b) ==
    LET m == DueBar
    IN
    /\ Idle /\ db.nav[day] = None
    /\ m > 1 /\ db.latest[s] < m
    /\ tx' = [db     |-> [db EXCEPT !.latest[s] = m,
                            !.mark[s] = IF b.close > 0 /\ b.volume > 0
                                        THEN [price |-> b.close, day |-> day, minute |-> m] ELSE @],
              minute |-> m, bar |-> b, left |-> (b.volume * Participation) \div 100,
              todo   |-> {k \in Signals : IsOpenOf(s, k)}]
    /\ UNCHANGED <<day, minute, db>>

\* A bug: the fee is charged for each partial fill on its own.
FeePerFill(k, o, gross) == Fees(k, gross)

\* The fee of an order is due once for all of its fills.
FeeDue(k, o, gross) == Fees(k, o.notional + gross) - o.fees

Touched(k, b) ==
    /\ SideOf[k] \in b.sides /\ b.volume > 0
    /\ SideOf[k] = "BUY" => (IF k \in Limits THEN b.low ELSE b.vwap) <= CapOf[k]
    /\ (SideOf[k] = "SELL" /\ k \in Limits) => b.high >= CapOf[k]

FillPrice(k, b) ==
    IF SideOf[k] = "BUY" THEN Least(CapOf[k], b.vwap)
    ELSE IF k \in Limits THEN Greatest(CapOf[k], b.vwap) ELSE b.vwap

Spendable(d, k) == Greatest(0, d.cash - Reserved(d, {k}))

\* A bug: what the minute traded does not bound the fill.
WithinMinuteAny(d, k, left) == 1..d.order[k].remaining

WithinMinute(d, k, left) == 1..Least(d.order[k].remaining, left)

\* The quantities that the minute, the order and the cash or the shares allow.
Fillable(d, k, b, left) ==
    LET price == FillPrice(k, b)
        o == d.order[k]
    IN  {q \in WithinMinute(d, k, left) :
            /\ Touched(k, b) /\ o.at < tx.minute
            /\ IF SideOf[k] = "BUY"
               THEN q % Lot = 0 /\ price * q + FeeDue(k, o, price * q) <= Spendable(d, k)
               ELSE q <= Sellable(d, PlanOf[k])}

Largest(S) == {q \in S : \A r \in S : r <= q}

\* q shares are taken from the oldest lots that may be sold.
Take(lots, q) ==
    LET before(e) == Sum(lots, {x \in Days : x < e})
    IN  [e \in Days |-> IF e < day THEN lots[e] - Least(lots[e], Greatest(0, q - before(e))) ELSE lots[e]]

Filled(d, k, q, price) ==
    LET o == d.order[k]
        p == PlanOf[k]
        gross == price * q
        fee == FeeDue(k, o, gross)
        order == [o EXCEPT !.status = IF q = o.remaining THEN "FILLED" ELSE "PARTIAL",
                           !.remaining = @ - q, !.notional = @ + gross, !.fees = @ + fee]
    IN  IF SideOf[k] = "BUY"
        THEN [d EXCEPT !.order[k] = order, !.cash = @ - gross - fee,
                       !.lots[p][day] = @ + q, !.bought[p][day] = @ + q]
        ELSE [d EXCEPT !.order[k] = order, !.cash = @ + gross - fee,
                       !.lots[p] = Take(@, q), !.sold[p][day] = @ + q]

\* The loop visits the open orders of the symbol in the order of their rowids.
Turn == {k \in tx.todo : \A j \in tx.todo : tx.db.order[k].rowid <= tx.db.order[j].rowid}

\* An order of an earlier day is cancelled.
ExpireNext(k) ==
    /\ ~Idle /\ k \in Turn /\ tx.db.order[k].day < day
    /\ tx' = [tx EXCEPT !.db = Cancelled(@, {k}), !.todo = @ \ {k}]
    /\ UNCHANGED <<day, minute, db>>

\* match_order finds nothing to fill.
SkipNext(k) ==
    /\ ~Idle /\ k \in Turn /\ tx.db.order[k].day = day
    /\ Fillable(tx.db, k, tx.bar, tx.left) = {}
    /\ tx' = [tx EXCEPT !.todo = @ \ {k}]
    /\ UNCHANGED <<day, minute, db>>

\* The largest fill q; a negative cash raises.
FillNext(k) ==
    /\ ~Idle /\ k \in Turn /\ tx.db.order[k].day = day
    /\ \E q \in Largest(Fillable(tx.db, k, tx.bar, tx.left)) :
         LET d == Filled(tx.db, k, q, FillPrice(k, tx.bar))
         IN  /\ d.cash >= 0
             /\ tx' = [tx EXCEPT !.db = d, !.todo = @ \ {k}, !.left = @ - q]
    /\ UNCHANGED <<day, minute, db>>

\* A bug: the peak is not taken at the end of the day.
MarkedEarlier(d, m) == Marked(d, m) /\ m <= Close

\* The peak of the net value moves when all positions have the price of the minute.
PeakDue(d, m) == Marked(d, m)

CommitBar ==
    /\ ~Idle /\ tx.todo = {}
    /\ db' = [tx.db EXCEPT !.peak = IF PeakDue(tx.db, tx.minute) THEN Greatest(@, Nav(tx.db)) ELSE @]
    /\ tx' = None
    /\ UNCHANGED <<day, minute>>

\* An exception or the end of the process: the database is what it was.
Rollback ==
    /\ ~Idle
    /\ tx' = None
    /\ UNCHANGED <<day, minute, db>>

-----------------------------------------------------------------------------
(* The day.                                                                *)

\* The last settlement before this day.
Prior == {e \in Days : e < day /\ db.nav[e] # None}

\* open_risk_day: without positions the cash is the net value, with positions the
\* last settlement must prove it.
OpenRiskDay ==
    /\ Idle /\ minute = 0 /\ db.basis[day] = None
    /\ \A k \in Signals : db.order[k].status # "none" => db.order[k].day # day
    /\ Nav(db) # None
    /\ Held(db) # {} => Prior # {} /\ db.nav[Max(Prior)].nav = Nav(db)
    /\ db' = [db EXCEPT !.basis[day] = Nav(db)]
    /\ UNCHANGED <<day, minute, tx>>

Expires(k) == Live(db.order[k]) /\ db.order[k].day <= day

\* settle: a position without its 15:00 price leaves the net value open.
Settle ==
    LET d == Cancelled(db, {k \in Signals : Expires(k)})
    IN  /\ Idle /\ minute = Close + 2 /\ db.nav[day] = None
        /\ db' = [d EXCEPT !.nav[day] = [nav  |-> IF Marked(d, Close + 1) THEN Nav(d) ELSE None,
                                         cash |-> d.cash]]
        /\ UNCHANGED <<day, minute, tx>>

Tick ==
    /\ Idle /\ minute < Close + 2
    /\ minute' = minute + 1
    /\ UNCHANGED <<day, db, tx>>

NextDay ==
    /\ Idle /\ minute = Close + 2 /\ day < MaxDay
    /\ day' = day + 1 /\ minute' = 0
    /\ db' = [db EXCEPT !.latest = [s \in Symbols |-> 0]]
    /\ UNCHANGED tx

Next ==
    \/ \E k \in Signals : Admit(k) \/ Judge(k) \/ CancelOrder(k)
    \/ \E s \in Sessions, P \in Scopes : CancelSession(s, P)
    \/ \E s \in Symbols, b \in Shapes : BeginBar(s, b)
    \/ \E k \in Signals : ExpireNext(k) \/ SkipNext(k) \/ FillNext(k)
    \/ CommitBar \/ Rollback
    \/ OpenRiskDay \/ Settle \/ Tick \/ NextDay

Spec == Init /\ [][Next]_vars

-----------------------------------------------------------------------------
Orders == [status : {"none", "OPEN", "PARTIAL", "FILLED", "CANCELLED"}, rowid : Nat, day : Nat, at : Nat,
           remaining : Nat, notional : Nat, fees : Nat]

Marks == [price : Nat, day : Nat, minute : Nat] \cup {None}

Databases == [
    cash : Nat, order : [Signals -> Orders], placed : Nat, judged : SUBSET Signals,
    lots : [Plans -> [Days -> Nat]], bought : [Plans -> [Days -> Nat]], sold : [Plans -> [Days -> Nat]],
    latest : [Symbols -> 0..Close + 1], mark : [Symbols -> Marks], peak : Nat,
    basis : [Days -> Nat \cup {None}], nav : [Days -> [nav : Nat \cup {None}, cash : Nat] \cup {None}],
    sessions : [Sessions -> (SUBSET Signals) \cup {None}], rows : SUBSET (Sessions \X Signals)]

\* Every variable has its type.
TypeOK ==
    /\ day \in Nat /\ minute \in 0..Close + 2
    /\ db \in Databases
    /\ tx \in [db : Databases, minute : 0..Close + 1, bar : Shapes, left : Nat, todo : SUBSET Signals] \cup {None}

\* The cash covers what the open BUY orders may still cost at their caps, whatever
\* fills come first and however the fees round (_reserved, match_order); it is what
\* reconcile calls RESERVED_CASH_EXCEEDS_CASH.
StillToPay(k) ==
    LET o == db.order[k]
    IN  CapOf[k] * o.remaining + Fees(k, o.notional + CapOf[k] * o.remaining) - o.fees

Covered == Sum([k \in Signals |-> StillToPay(k)], LiveOrders(db, "BUY")) <= db.cash

\* The shares for sale are there and may be sold today, so that no two SELL
\* orders, fills or retries count on the same share (_place_order_tx, on_bar).
SellsBacked == \A p \in Plans : ReservedShares(db, p) <= Sellable(db, p)

\* T+1: what was sold up to a day had been bought before that day (sellable_qty,
\* the FIFO of on_bar).
TPlusOne ==
    \A p \in Plans, e \in Days :
        Sum(db.sold[p], {x \in Days : x <= e}) <= Sum(db.bought[p], {x \in Days : x < e})

\* A BUY order never costs more than was reserved when it was placed, over all of
\* its partial fills and with what is still reserved (_reserved, match_order).
Budget(k) == CapOf[k] * QtyOf[k] + Fees(k, CapOf[k] * QtyOf[k])

WithinBudget ==
    \A k \in Signals : SideOf[k] = "BUY" =>
        LET o == db.order[k]
        IN  o.notional + o.fees + (IF Live(o) THEN StillToPay(k) ELSE 0) <= Budget(k)

\* "Commission minimum is cumulative per order, not per partial fill": the fees of
\* all fills of an order are the fee of its whole notional (match_order).
FeesCumulative == \A k \in Signals : db.order[k].fees = Fees(k, db.order[k].notional)

\* What a BUY was budgeted for, minimum commission included, is what it costs.
CostsForeseen == WithinBudget /\ FeesCumulative

\* The audit rows of a cancellation session are its first answer, and what it
\* cancelled stays cancelled although the session is retried (cancel_buy_reservations).
SessionsAnswerOnce ==
    /\ db.rows = {r \in Sessions \X Signals : db.sessions[r[1]] # None /\ r[2] \in db.sessions[r[1]]}
    /\ \A r \in db.rows : db.order[r[2]].status = "CANCELLED"

\* Once a day is settled none of its orders is open, and the cash of its report is
\* the cash until something is filled on a later day (settle, on_bar).
SettledIsFinal ==
    \A e \in Days : db.nav[e] # None =>
        /\ \A k \in Signals : Live(db.order[k]) => db.order[k].day > e
        /\ (\A p \in Plans, x \in Days : x > e => db.bought[p][x] + db.sold[p][x] = 0)
               => db.nav[e].cash = db.cash

\* What was answered stays answered: a cancellation session and a settled day.
AnswersFinal == SessionsAnswerOnce /\ SettledIsFinal

\* A day is never opened with a net value above the peak its drawdown is measured
\* from, although the peak moves only when all prices are of one minute
\* (on_bar, open_risk_day).
PeakCoversBasis == \A e \in Days : db.basis[e] # None => db.basis[e] <= db.peak
=============================================================================
