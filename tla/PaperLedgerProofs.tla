------------------------- MODULE PaperLedgerProofs -------------------------
(***************************************************************************)
(* What the paper ledger promises of each order, each session, each        *)
(* settled day, the shares and the cash, for any finite sets of signals    *)
(* and plans, any symbols and sessions, prices, fee rates and number of    *)
(* days.                                                                   *)
(*                                                                         *)
(* The invariants are about one content of the database, and hold of the   *)
(* committed one and of the copy that a bar's transaction works on.  They  *)
(* come in layers, each proved with the help of the ones before it:        *)
(*   - Sound (Inv): the fee of an order is the fee of its whole notional,  *)
(*     what a BUY has cost and may cost at its cap is what it was placed   *)
(*     for, sessions and their rows agree, a settled day has nothing open; *)
(*   - Typed: every table has its type, no lot and no cash below zero;     *)
(*   - Shares: the lots are what was bought and has not been sold, and     *)
(*     cover what the open SELL orders ask for;                            *)
(*   - Peaks: the peak covers every net value that the marks can prove;    *)
(*   - Cover: the cash covers what the open BUY orders may still cost.     *)
(* The last three add up tables: Sum is a fold, and what the proofs use of *)
(* it follows by induction over the subsets of a finite set.               *)
(***************************************************************************)
EXTENDS PaperLedger, FiniteSetTheorems, WellFoundedInduction, TLAPS

Fields == {"cash", "order", "placed", "judged", "lots", "bought", "sold", "latest",
           "mark", "peak", "basis", "nav", "sessions", "rows"}

OrdersSound(d) ==
    /\ d.placed \in Nat
    /\ d.order \in [Signals -> Orders]
    /\ \A k \in Signals :
         /\ d.order[k].fees = Fees(k, d.order[k].notional)
         /\ SideOf[k] = "BUY" => d.order[k].notional + CapOf[k] * d.order[k].remaining <= CapOf[k] * QtyOf[k]

SessionsSound(d) ==
    /\ d.sessions \in [Sessions -> (SUBSET Signals) \cup {None}]
    /\ d.rows = {r \in Sessions \X Signals : d.sessions[r[1]] # None /\ r[2] \in d.sessions[r[1]]}
    /\ \A r \in d.rows : d.order[r[2]].status = "CANCELLED"

NoTradeAfter(d, e) == \A p \in Plans, x \in Days : x > e => d.bought[p][x] + d.sold[p][x] = 0

DaysSound(d, today) ==
    /\ DOMAIN d.nav = Days
    /\ d.bought \in [Plans -> [Days -> Nat]] /\ d.sold \in [Plans -> [Days -> Nat]]
    /\ \A e \in Days : d.nav[e] # None =>
         /\ e <= today
         /\ \A k \in Signals : Live(d.order[k]) => d.order[k].day > e
         /\ NoTradeAfter(d, e) => d.nav[e].cash = d.cash

Sound(d, today) == DOMAIN d = Fields /\ OrdersSound(d) /\ SessionsSound(d) /\ DaysSound(d, today)

TransactionSound ==
    /\ DOMAIN tx = {"db", "minute", "bar", "left", "todo"}
    /\ Sound(tx.db, day) /\ tx.db.nav[day] = None
    /\ tx.bar \in Shapes /\ tx.left \in Int
    /\ tx.todo \subseteq Signals
    /\ \A k \in tx.todo : Live(tx.db.order[k])

Inv ==
    /\ day \in Days /\ minute \in Nat
    /\ Sound(db, day)
    /\ ~Idle => TransactionSound

-----------------------------------------------------------------------------
(* Fees.                                                                   *)

LEMMA RoundedGrows ==
  ASSUME NEW m \in Nat, NEW n \in Nat, m <= n, NEW r \in Nat
  PROVE  Rounded(m, r) \in Nat /\ Rounded(m, r) <= Rounded(n, r)
<1>1. m * r \in Nat /\ n * r \in Nat /\ m * r <= n * r
  OBVIOUS
<1> QED BY <1>1 DEF Rounded

\* The fee of an order is a natural number and grows with its notional (total_fees).
LEMMA FeesGrow ==
  ASSUME NEW k \in Signals, NEW m \in Nat, NEW n \in Nat, m <= n
  PROVE  Fees(k, m) \in Nat /\ Fees(k, n) \in Nat /\ Fees(k, m) <= Fees(k, n)
<1>1. \A r \in {CommissionRate, StampRate, TransferRate} :
        Rounded(m, r) \in Nat /\ Rounded(n, r) \in Nat /\ Rounded(m, r) <= Rounded(n, r)
  <2> TAKE r \in {CommissionRate, StampRate, TransferRate}
  <2>1. r \in Nat
    BY LedgerAssumption
  <2>2. Rounded(m, r) \in Nat /\ Rounded(m, r) <= Rounded(n, r)
    BY <2>1, RoundedGrows
  <2>3. Rounded(n, r) \in Nat
    BY <2>1, RoundedGrows
  <2> QED BY <2>2, <2>3
<1> QED BY <1>1, LedgerAssumption DEF Fees, Greatest

-----------------------------------------------------------------------------
(* The operations on the tables keep them sound.                           *)

LEMMA CancelKeeps ==
  ASSUME NEW today, NEW d, Sound(d, today), NEW S
  PROVE  /\ Sound(Cancelled(d, S), today)
         /\ Cancelled(d, S).nav = d.nav /\ Cancelled(d, S).cash = d.cash
         /\ Cancelled(d, S).sessions = d.sessions /\ Cancelled(d, S).rows = d.rows
         /\ Cancelled(d, S).bought = d.bought /\ Cancelled(d, S).sold = d.sold
         /\ \A k \in Signals : IF k \in S THEN Cancelled(d, S).order[k].status = "CANCELLED"
                                          ELSE Cancelled(d, S).order[k] = d.order[k]
<1> DEFINE c == Cancelled(d, S)
<1>1. /\ DOMAIN c = Fields
      /\ \A f \in Fields \ {"order"} : c[f] = d[f]
  BY DEF Cancelled, Sound, Fields
<1>2. c.order = [k \in Signals |-> IF k \in S THEN [d.order[k] EXCEPT !.status = "CANCELLED"] ELSE d.order[k]]
  BY DEF Cancelled, Sound, Fields
<1>3. \A k \in Signals :
        /\ c.order[k] \in Orders
        /\ IF k \in S THEN c.order[k].status = "CANCELLED" ELSE c.order[k] = d.order[k]
        /\ c.order[k].fees = d.order[k].fees /\ c.order[k].notional = d.order[k].notional
        /\ c.order[k].remaining = d.order[k].remaining /\ c.order[k].day = d.order[k].day
  BY <1>2 DEF Sound, OrdersSound, Orders
<1>4. /\ c.nav = d.nav /\ c.cash = d.cash /\ c.sessions = d.sessions /\ c.rows = d.rows
      /\ c.bought = d.bought /\ c.sold = d.sold
  BY <1>1 DEF Fields
<1> HIDE DEF c
<1>5. OrdersSound(c)
  BY <1>1, <1>2, <1>3 DEF Fields, Sound, OrdersSound
<1>6. SessionsSound(c)
  <2>1. \A r \in d.rows : r[2] \in Signals
    BY DEF Sound, SessionsSound
  <2> QED BY <1>3, <1>4, <2>1 DEF Sound, SessionsSound
<1>7. DaysSound(c, today)
  <2>1. \A k \in Signals : Live(c.order[k]) => Live(d.order[k]) /\ c.order[k].day = d.order[k].day
    BY <1>3 DEF Live
  <2> QED BY <1>4, <2>1 DEF Sound, DaysSound, NoTradeAfter
<1> QED BY <1>1, <1>3, <1>4, <1>5, <1>6, <1>7 DEF Sound, c

LEMMA FillKeeps ==
  ASSUME NEW d, day \in Days, Sound(d, day), d.nav[day] = None,
         NEW k \in Signals, Live(d.order[k]), d.order[k].day = day,
         NEW q \in 1..d.order[k].remaining, NEW price \in Nat,
         SideOf[k] = "BUY" => price <= CapOf[k]
  PROVE  /\ Sound(Filled(d, k, q, price), day)
         /\ Filled(d, k, q, price).nav = d.nav
         /\ \A j \in Signals \ {k} : Filled(d, k, q, price).order[j] = d.order[j]
<1> DEFINE o == d.order[k]
           f == Filled(d, k, q, price)
           p == PlanOf[k]
<1>1. o \in Orders /\ p \in Plans /\ day \in Nat /\ q \in Nat /\ q > 0
  BY LedgerAssumption DEF Sound, OrdersSound, Orders, Days
<1>2. /\ DOMAIN f = Fields
      /\ f.nav = d.nav /\ f.sessions = d.sessions /\ f.rows = d.rows /\ f.placed = d.placed
      /\ f.order = [d.order EXCEPT ![k] =
           [o EXCEPT !.status = IF q = o.remaining THEN "FILLED" ELSE "PARTIAL",
                     !.remaining = @ - q, !.notional = @ + price * q,
                     !.fees = @ + FeeDue(k, o, price * q)]]
      /\ f.bought = IF SideOf[k] = "BUY" THEN [d.bought EXCEPT ![p][day] = @ + q] ELSE d.bought
      /\ f.sold = IF SideOf[k] = "BUY" THEN d.sold ELSE [d.sold EXCEPT ![p][day] = @ + q]
  BY DEF Filled, Sound, Fields
<1> HIDE DEF f
<1>3. /\ price * q \in Nat /\ o.notional + price * q \in Nat /\ o.remaining - q \in Nat
      /\ o.fees + FeeDue(k, o, price * q) = Fees(k, o.notional + price * q)
      /\ Fees(k, o.notional + price * q) \in Nat
  <2>1. o.notional \in Nat /\ o.remaining \in Nat /\ o.fees \in Nat
    BY <1>1 DEF Orders
  <2>2. price * q \in Nat
    BY <1>1
  <2>3. o.notional + price * q \in Nat
    BY <2>1, <2>2
  <2>4. Fees(k, o.notional + price * q) \in Nat
    BY <2>3, FeesGrow
  <2> QED BY <2>1, <2>2, <2>3, <2>4 DEF FeeDue
<1>4. /\ f.order[k] \in Orders
      /\ f.order[k].day = day
      /\ f.order[k].notional = o.notional + price * q
      /\ f.order[k].remaining = o.remaining - q
      /\ f.order[k].fees = Fees(k, f.order[k].notional)
      /\ f.order \in [Signals -> Orders]
  <2>1. d.order \in [Signals -> Orders]
    BY DEF Sound, OrdersSound
  <2>2. /\ f.order[k].status = IF q = o.remaining THEN "FILLED" ELSE "PARTIAL"
        /\ f.order[k].rowid = o.rowid /\ f.order[k].day = o.day /\ f.order[k].at = o.at
        /\ f.order[k].remaining = o.remaining - q
        /\ f.order[k].notional = o.notional + price * q
        /\ f.order[k].fees = o.fees + FeeDue(k, o, price * q)
    BY <1>1, <1>2, <2>1 DEF Orders
  <2>3. f.order[k] \in Orders
    <3>1. f.order[k] = [status |-> f.order[k].status, rowid |-> o.rowid, day |-> o.day, at |-> o.at,
                        remaining |-> o.remaining - q, notional |-> o.notional + price * q,
                        fees |-> o.fees + FeeDue(k, o, price * q)]
      BY <1>1, <1>2, <2>1, <2>2 DEF Orders
    <3> QED BY <1>1, <1>3, <2>2, <3>1 DEF Orders
  <2>4. f.order \in [Signals -> Orders]
    BY <1>2, <2>1, <2>3
  <2> QED BY <1>3, <2>2, <2>3, <2>4
<1>5. \A j \in Signals \ {k} : f.order[j] = d.order[j]
  BY <1>2 DEF Sound, OrdersSound
<1>6. OrdersSound(f)
  <2>1. SideOf[k] = "BUY" => f.order[k].notional + CapOf[k] * f.order[k].remaining <= CapOf[k] * QtyOf[k]
    <3> SUFFICES ASSUME SideOf[k] = "BUY"
                 PROVE  o.notional + price * q + CapOf[k] * (o.remaining - q) <= CapOf[k] * QtyOf[k]
      BY <1>4
    <3>1. o.notional \in Nat /\ o.remaining \in Nat /\ CapOf[k] \in Nat /\ QtyOf[k] \in Nat /\ price <= CapOf[k]
      BY <1>1, LedgerAssumption DEF Orders
    <3>2. price * q <= CapOf[k] * q
      BY <1>1, <3>1
    <3>3. CapOf[k] * (o.remaining - q) = CapOf[k] * o.remaining - CapOf[k] * q
      BY <1>1, <3>1
    <3>4. o.notional + CapOf[k] * o.remaining <= CapOf[k] * QtyOf[k]
      BY DEF Sound, OrdersSound
    <3>5. price * q \in Nat /\ CapOf[k] * q \in Nat /\ CapOf[k] * o.remaining \in Nat /\ CapOf[k] * QtyOf[k] \in Nat
      BY <1>1, <3>1
    <3> QED BY <3>1, <3>2, <3>3, <3>4, <3>5
  <2> QED BY <1>2, <1>4, <1>5, <2>1 DEF Sound, OrdersSound
<1>7. SessionsSound(f)
  <2>1. \A r \in d.rows : r[2] \in Signals \ {k}
    BY DEF Sound, SessionsSound, Live
  <2> QED BY <1>2, <1>5, <2>1 DEF Sound, SessionsSound
<1>8. DaysSound(f, day)
  <2>1. f.bought \in [Plans -> [Days -> Nat]] /\ f.sold \in [Plans -> [Days -> Nat]]
    BY <1>1, <1>2 DEF Sound, DaysSound
  <2>2. ASSUME NEW e \in Days, f.nav[e] # None
        PROVE  /\ e <= day
               /\ \A j \in Signals : Live(f.order[j]) => f.order[j].day > e
               /\ ~NoTradeAfter(f, e)
    <3>1. e < day /\ d.nav[e] # None
      BY <1>1, <1>2, <2>2 DEF Sound, DaysSound, Days
    <3>2. \A j \in Signals : Live(f.order[j]) => f.order[j].day > e
      BY <1>1, <1>4, <1>5, <3>1 DEF Sound, DaysSound, Days
    <3>3. f.bought[p][day] + f.sold[p][day] # 0
      <4>1. d.bought[p][day] \in Nat /\ d.sold[p][day] \in Nat
        BY <1>1 DEF Sound, DaysSound
      <4>2. CASE SideOf[k] = "BUY"
        <5>1. f.bought[p][day] = d.bought[p][day] + q /\ f.sold[p][day] = d.sold[p][day]
          BY <1>1, <1>2, <4>2 DEF Sound, DaysSound
        <5> QED BY <1>1, <4>1, <5>1
      <4>3. CASE SideOf[k] # "BUY"
        <5>1. f.bought[p][day] = d.bought[p][day] /\ f.sold[p][day] = d.sold[p][day] + q
          BY <1>1, <1>2, <4>3 DEF Sound, DaysSound
        <5> QED BY <1>1, <4>1, <5>1
      <4> QED BY <4>2, <4>3
    <3> QED BY <1>1, <3>1, <3>2, <3>3 DEF NoTradeAfter
  <2> QED BY <1>2, <2>1, <2>2 DEF DaysSound, Sound
<1> QED BY <1>2, <1>5, <1>6, <1>7, <1>8 DEF Sound, f

\* What only other tables are changed by keeps the database sound.
LEMMA OthersKeep ==
  ASSUME NEW today, NEW d, Sound(d, today), NEW c, DOMAIN c = Fields,
         \A f \in {"cash", "order", "placed", "sessions", "rows", "nav", "bought", "sold"} : c[f] = d[f]
  PROVE  Sound(c, today)
<1>1. /\ c.cash = d.cash /\ c.order = d.order /\ c.placed = d.placed /\ c.sessions = d.sessions
      /\ c.rows = d.rows /\ c.nav = d.nav /\ c.bought = d.bought /\ c.sold = d.sold
  OBVIOUS
<1> QED BY <1>1 DEF Sound, OrdersSound, SessionsSound, DaysSound, NoTradeAfter

\* A new order is open, of this day, and costs at most its budget (_place_order_tx).
LEMMA AdmitKeeps ==
  ASSUME Inv, NEW k \in Signals, Admit(k)
  PROVE  Sound(db', day)
<1> DEFINE o == [status |-> "OPEN", rowid |-> db.placed + 1, day |-> day, at |-> minute,
                 remaining |-> QtyOf[k], notional |-> 0, fees |-> 0]
<1>1. /\ DOMAIN db' = Fields
      /\ db'.order = [db.order EXCEPT ![k] = o] /\ db'.placed = db.placed + 1
      /\ db'.cash = db.cash /\ db'.sessions = db.sessions /\ db'.rows = db.rows
      /\ db'.nav = db.nav /\ db'.bought = db.bought /\ db'.sold = db.sold
  BY DEF Inv, Sound, Fields, Admit
<1>2. db.order[k].status = "none" /\ db.nav[day] = None
  BY DEF Admit, Fresh
<1>3. o \in Orders /\ o.fees = Fees(k, 0)
  BY LedgerAssumption DEF Inv, Days, Orders, Sound, OrdersSound, Fees
<1>4. CapOf[k] * QtyOf[k] \in Nat
  BY LedgerAssumption
<1>5. OrdersSound(db')
  BY <1>1, <1>3, <1>4 DEF Inv, Sound, OrdersSound
<1>6. SessionsSound(db')
  <2>1. \A r \in db.rows : r[2] \in Signals \ {k}
    BY <1>2 DEF Inv, Sound, SessionsSound
  <2> QED BY <1>1, <2>1 DEF Inv, Sound, SessionsSound, OrdersSound
<1>7. DaysSound(db', day)
  <2>1. \A e \in Days : db.nav[e] # None => e < day
    BY <1>2 DEF Inv, Sound, DaysSound, Days
  <2>2. \A e \in Days, j \in Signals : db.nav[e] # None /\ Live(db'.order[j]) => db'.order[j].day > e
    BY <1>1, <2>1 DEF Inv, Sound, OrdersSound, DaysSound, Days
  <2> QED BY <1>1, <2>2 DEF Inv, Sound, DaysSound, NoTradeAfter
<1> QED BY <1>1, <1>5, <1>6, <1>7 DEF Sound

\* A session is answered once, with the orders that it cancels (cancel_buy_reservations).
LEMMA SessionKeeps ==
  ASSUME Inv, NEW s \in Sessions, NEW P, CancelSession(s, P)
  PROVE  Sound(db', day)
<1> DEFINE S == {k \in LiveOrders(db, "BUY") : PlanOf[k] \in P}
           c == Cancelled(db, S)
<1>1. S \in SUBSET Signals /\ S # None
  BY LedgerAssumption DEF LiveOrders
<1> HIDE DEF S
<1>2. /\ Sound(c, day) /\ c.sessions = db.sessions /\ c.rows = db.rows
      /\ \A k \in S : c.order[k].status = "CANCELLED"
  BY <1>1, CancelKeeps DEF Inv
<1>3. db' = [c EXCEPT !.sessions[s] = S, !.rows = @ \cup {<<s, k>> : k \in S}] /\ db.sessions[s] = None
  BY DEF CancelSession, NewSession, S
<1> HIDE DEF c
<1>4. /\ DOMAIN db' = Fields
      /\ db'.sessions = [c.sessions EXCEPT ![s] = S]
      /\ db'.rows = c.rows \cup {<<s, k>> : k \in S}
      /\ db'.order = c.order /\ db'.placed = c.placed /\ db'.cash = c.cash
      /\ db'.nav = c.nav /\ db'.bought = c.bought /\ db'.sold = c.sold
  BY <1>2, <1>3 DEF Sound, Fields
<1>5. SessionsSound(db')
  <2>1. db'.sessions \in [Sessions -> (SUBSET Signals) \cup {None}]
    BY <1>1, <1>2, <1>4 DEF Sound, SessionsSound
  <2>2. db'.rows = {r \in Sessions \X Signals : db'.sessions[r[1]] # None /\ r[2] \in db'.sessions[r[1]]}
    <3>1. \A r \in Sessions \X Signals :
            r \in {<<s, k>> : k \in S} <=> r[1] = s /\ r[2] \in S
      OBVIOUS
    <3>2. \A r \in Sessions \X Signals : r[1] # s => db'.sessions[r[1]] = c.sessions[r[1]]
      BY <1>2, <1>4 DEF Sound, SessionsSound
    <3>3. db'.sessions[s] = S /\ c.sessions[s] = None
      BY <1>2, <1>3, <1>4 DEF Sound, SessionsSound
    <3>4. c.rows = {r \in Sessions \X Signals : c.sessions[r[1]] # None /\ r[2] \in c.sessions[r[1]]}
      BY <1>2 DEF Sound, SessionsSound
    <3>5. {<<s, k>> : k \in S} \subseteq Sessions \X Signals
      BY <1>1
    <3> QED BY <1>1, <1>4, <3>1, <3>2, <3>3, <3>4, <3>5
  <2>3. \A r \in db'.rows : db'.order[r[2]].status = "CANCELLED"
    BY <1>2, <1>4 DEF Sound, SessionsSound
  <2> QED BY <2>1, <2>2, <2>3 DEF SessionsSound
<1>6. OrdersSound(db') /\ DaysSound(db', day)
  BY <1>2, <1>4 DEF Sound, OrdersSound, DaysSound, NoTradeAfter
<1> QED BY <1>4, <1>5, <1>6 DEF Sound

\* Settling a day expires its open orders and those of earlier days (settle).
LEMMA SettleKeeps ==
  ASSUME Inv, Settle
  PROVE  Sound(db', day)
<1> DEFINE c == Cancelled(db, {k \in Signals : Expires(k)})
           row == [nav |-> IF Marked(c, Close + 1) THEN Nav(c) ELSE None, cash |-> c.cash]
<1>1. /\ Sound(c, day) /\ c.nav = db.nav
      /\ \A k \in Signals : IF Expires(k) THEN c.order[k].status = "CANCELLED" ELSE c.order[k] = db.order[k]
  BY CancelKeeps DEF Inv
<1>2. db' = [c EXCEPT !.nav[day] = row]
  BY DEF Settle
<1>3. row.cash = c.cash
  OBVIOUS
<1> HIDE DEF c, row
<1>4. \A k \in Signals : Live(c.order[k]) => c.order[k].day > day
  <2> SUFFICES ASSUME NEW k \in Signals, Live(c.order[k]) PROVE c.order[k].day > day
    OBVIOUS
  <2>1. db.order[k].day \in Nat /\ day \in Nat
    BY DEF Inv, Days, Sound, OrdersSound, Orders
  <2>2. ~Expires(k) /\ c.order[k] = db.order[k]
    BY <1>1 DEF Live
  <2> QED BY <2>1, <2>2 DEF Expires
<1>5. /\ DOMAIN db' = Fields /\ db'.nav = [c.nav EXCEPT ![day] = row]
      /\ db'.order = c.order /\ db'.placed = c.placed /\ db'.cash = c.cash /\ db'.sessions = c.sessions
      /\ db'.rows = c.rows /\ db'.bought = c.bought /\ db'.sold = c.sold
  BY <1>1, <1>2 DEF Sound, Fields
<1>6. DaysSound(db', day)
  <2>1. DaysSound(c, day) /\ day \in Nat /\ day \in Days
    BY <1>1 DEF Sound, Inv, Days
  <2>2. ASSUME NEW e \in Days, db'.nav[e] # None
        PROVE  /\ e <= day
               /\ \A k \in Signals : Live(db'.order[k]) => db'.order[k].day > e
               /\ db'.nav[e].cash = db'.cash \/ ~NoTradeAfter(db', e)
    <3>1. CASE e = day
      BY <1>3, <1>4, <1>5, <2>1, <3>1 DEF DaysSound
    <3>2. CASE e # day
      <4>1. db'.nav[e] = c.nav[e]
        BY <1>5, <2>1, <3>2 DEF DaysSound
      <4> QED BY <1>5, <2>1, <2>2, <4>1 DEF DaysSound, NoTradeAfter
    <3> QED BY <3>1, <3>2
  <2> QED BY <1>5, <2>1, <2>2 DEF DaysSound
<1> QED BY <1>1, <1>5, <1>6 DEF Sound, OrdersSound, SessionsSound

-----------------------------------------------------------------------------
LEMMA InitSound == Init => Inv
<1> SUFFICES ASSUME Init PROVE Inv
  OBVIOUS
<1>1. db = InitDb /\ day = 1 /\ minute = 0 /\ Idle /\ day \in Days
  BY LedgerAssumption DEF Init, Idle, Days
<1>2. DOMAIN db = Fields
  BY <1>1 DEF InitDb, Fields
<1>3. /\ db.order = [k \in Signals |-> NoOrder] /\ db.placed = 0
      /\ db.sessions = [s \in Sessions |-> None] /\ db.rows = {}
      /\ db.nav = [e \in Days |-> None]
      /\ db.bought = [p \in Plans |-> [e \in Days |-> 0]]
      /\ db.sold = [p \in Plans |-> [e \in Days |-> 0]]
  BY <1>1 DEF InitDb
<1>4. OrdersSound(db)
  <2>1. NoOrder \in Orders
    BY DEF NoOrder, Orders
  <2>2. \A k \in Signals : Fees(k, 0) = 0 /\ CapOf[k] * 0 = 0 /\ CapOf[k] * QtyOf[k] \in Nat
    BY LedgerAssumption DEF Fees
  <2> QED BY <1>3, <2>1, <2>2 DEF OrdersSound, NoOrder
<1>5. SessionsSound(db) /\ DaysSound(db, day)
  <2>1. SessionsSound(db)
    <3>1. \A r \in Sessions \X Signals : r[1] \in Sessions /\ db.sessions[r[1]] = None
      BY <1>3
    <3>2. {r \in Sessions \X Signals : db.sessions[r[1]] # None /\ r[2] \in db.sessions[r[1]]} = {}
      BY <3>1
    <3>3. db.sessions \in [Sessions -> (SUBSET Signals) \cup {None}]
      <4>1. db.sessions = [s \in Sessions |-> None]
        BY <1>3
      <4> QED BY ONLY <4>1
    <3> QED BY <1>3, <3>2, <3>3 DEF SessionsSound
  <2>2. /\ \A p \in Plans, e \in Days : db.bought[p][e] = 0 /\ db.sold[p][e] = 0
        /\ \A e \in Days : db.nav[e] = None
        /\ DOMAIN db.nav = Days
        /\ db.bought \in [Plans -> [Days -> Nat]] /\ db.sold \in [Plans -> [Days -> Nat]]
    <3>1. [e \in Days |-> 0] \in [Days -> Nat]
      OBVIOUS
    <3> QED BY <1>3, <3>1
  <2>3. DaysSound(db, day)
    BY <2>2 DEF DaysSound
  <2> QED BY <2>1, <2>3
<1> QED BY <1>1, <1>2, <1>4, <1>5 DEF Inv, Sound

\* Every action keeps both databases sound.
LEMMA InvStep == Inv /\ [Next]_vars => Inv'
<1> SUFFICES ASSUME Inv, [Next]_vars PROVE Inv'
  OBVIOUS
<1>1. CASE UNCHANGED vars
  BY <1>1 DEF vars, Inv, TransactionSound, Idle
<1>2. ASSUME Sound(db', day), day' = day, minute' = minute, Idle' PROVE Inv'
  BY <1>2 DEF Inv, Idle
<1>3. ASSUME NEW k \in Signals, Admit(k) PROVE Inv'
  BY <1>3, <1>2, AdmitKeeps DEF Admit, Idle
<1>4. ASSUME NEW k \in Signals, Judge(k) PROVE Inv'
  <2>1. PICK S : db' = [Cancelled(db, S) EXCEPT !.judged = @ \cup {k}]
    BY <1>4 DEF Judge
  <2>2. Sound(Cancelled(db, S), day)
    BY CancelKeeps DEF Inv
  <2>3. /\ DOMAIN db' = Fields
        /\ \A f \in Fields \ {"judged"} : db'[f] = Cancelled(db, S)[f]
    BY <2>1, <2>2 DEF Sound, Fields
  <2>4. Sound(db', day)
    BY <2>2, <2>3, OthersKeep DEF Fields
  <2> QED BY <1>2, <1>4, <2>4 DEF Judge, Idle
<1>5. ASSUME NEW k \in Signals, CancelOrder(k) PROVE Inv'
  <2>1. Sound(db', day)
    BY <1>5, CancelKeeps DEF Inv, CancelOrder
  <2> QED BY <1>2, <1>5, <2>1 DEF CancelOrder, Idle
<1>6. ASSUME NEW s \in Sessions, NEW P \in Scopes, CancelSession(s, P) PROVE Inv'
  BY <1>2, <1>6, SessionKeeps DEF CancelSession, Idle
<1>7. ASSUME NEW s \in Symbols, NEW b \in Shapes, BeginBar(s, b) PROVE Inv'
  <2> DEFINE m == DueBar
             mark == [db.mark EXCEPT ![s] = IF b.close > 0 /\ b.volume > 0
                                            THEN [price |-> b.close, day |-> day, minute |-> m] ELSE @]
  <2>1. /\ DOMAIN tx' = {"db", "minute", "bar", "left", "todo"}
        /\ tx'.db = [db EXCEPT !.latest[s] = m, !.mark[s] = IF b.close > 0 /\ b.volume > 0
                                            THEN [price |-> b.close, day |-> day, minute |-> m] ELSE @]
        /\ tx'.bar = b /\ tx'.left = (b.volume * Participation) \div 100
        /\ tx'.todo = {k \in Signals : IsOpenOf(s, k)}
        /\ day' = day /\ minute' = minute /\ db' = db /\ db.nav[day] = None
    BY <1>7 DEF BeginBar
  <2>2. /\ DOMAIN tx'.db = Fields
        /\ \A f \in Fields \ {"latest", "mark"} : tx'.db[f] = db[f]
    BY <2>1 DEF Inv, Sound, Fields
  <2>3. Sound(tx'.db, day)
    BY <2>2, OthersKeep DEF Inv, Fields
  <2>4. tx'.left \in Int
    <3>1. b.volume \in Nat /\ Participation \in Nat
      BY LedgerAssumption
    <3>2. b.volume * Participation \in Nat
      BY <3>1
    <3> QED BY <2>1, <3>2
  <2>5. tx'.db.order = db.order /\ tx'.db.nav = db.nav
    BY <2>2 DEF Fields
  <2> QED BY <2>1, <2>3, <2>4, <2>5 DEF Inv, TransactionSound, IsOpenOf
<1>8. ASSUME NEW k \in Signals, ExpireNext(k) PROVE Inv'
  <2> DEFINE c == Cancelled(tx.db, {k})
  <2>1. TransactionSound /\ k \in tx.todo
    BY <1>8 DEF Inv, ExpireNext, Turn
  <2>2. /\ DOMAIN tx' = DOMAIN tx
        /\ tx'.db = c /\ tx'.todo = tx.todo \ {k} /\ tx'.bar = tx.bar /\ tx'.left = tx.left
        /\ day' = day /\ minute' = minute /\ db' = db
    BY <1>8, <2>1 DEF ExpireNext, TransactionSound
  <2>3. Sound(c, day) /\ c.nav = tx.db.nav /\ \A j \in Signals \ {k} : c.order[j] = tx.db.order[j]
    BY <2>1, CancelKeeps DEF TransactionSound
  <2> HIDE DEF c
  <2> QED BY <2>1, <2>2, <2>3 DEF Inv, TransactionSound
<1>9. ASSUME NEW k \in Signals, SkipNext(k) PROVE Inv'
  <2>1. TransactionSound
    BY <1>9 DEF Inv, SkipNext
  <2>2. /\ DOMAIN tx' = DOMAIN tx
        /\ tx'.db = tx.db /\ tx'.todo = tx.todo \ {k} /\ tx'.bar = tx.bar /\ tx'.left = tx.left
        /\ day' = day /\ minute' = minute /\ db' = db
    BY <1>9, <2>1 DEF SkipNext, TransactionSound
  <2> QED BY <2>1, <2>2 DEF Inv, TransactionSound
<1>10. ASSUME NEW k \in Signals, FillNext(k) PROVE Inv'
  <2>1. TransactionSound /\ k \in tx.todo /\ tx.db.order[k].day = day
    BY <1>10 DEF Inv, FillNext, Turn
  <2> DEFINE price == FillPrice(k, tx.bar)
  <2>2. PICK q \in Largest(Fillable(tx.db, k, tx.bar, tx.left)) :
          tx' = [tx EXCEPT !.db = Filled(tx.db, k, q, price), !.todo = @ \ {k}, !.left = @ - q]
    BY <1>10 DEF FillNext
  <2>3. q \in 1..tx.db.order[k].remaining
    <3>1. q \in 1..Least(tx.db.order[k].remaining, tx.left)
      BY <2>2 DEF Largest, Fillable, WithinMinute
    <3>2. tx.db.order[k].remaining \in Int /\ tx.left \in Int
      BY <2>1 DEF TransactionSound, Sound, OrdersSound, Orders
    <3> QED BY <3>1, <3>2 DEF Least
  <2>4. price \in Nat /\ (SideOf[k] = "BUY" => price <= CapOf[k])
    <3>1. tx.bar.vwap \in Nat /\ CapOf[k] \in Nat
      BY <2>1, LedgerAssumption DEF TransactionSound
    <3> QED BY <3>1 DEF FillPrice, Least, Greatest
  <2> DEFINE f == Filled(tx.db, k, q, price)
  <2> HIDE DEF price
  <2>5. Sound(f, day) /\ f.nav = tx.db.nav /\ \A j \in Signals \ {k} : f.order[j] = tx.db.order[j]
    BY <2>1, <2>3, <2>4, FillKeeps DEF TransactionSound, Inv
  <2>6. /\ DOMAIN tx' = DOMAIN tx
        /\ tx'.db = f /\ tx'.todo = tx.todo \ {k} /\ tx'.bar = tx.bar /\ tx'.left = tx.left - q
        /\ day' = day /\ minute' = minute /\ db' = db
    BY <1>10, <2>1, <2>2 DEF FillNext, TransactionSound
  <2> HIDE DEF f
  <2>7. tx.left - q \in Int
    BY <2>1, <2>3 DEF TransactionSound
  <2> QED BY <2>1, <2>5, <2>6, <2>7 DEF Inv, TransactionSound
<1>11. CASE CommitBar
  <2>1. TransactionSound
    BY <1>11 DEF CommitBar, Inv
  <2>2. /\ DOMAIN db' = Fields
        /\ \A f \in Fields \ {"peak"} : db'[f] = tx.db[f]
    BY <1>11, <2>1 DEF CommitBar, TransactionSound, Sound, Fields
  <2>3. Sound(db', day)
    BY <2>1, <2>2, OthersKeep DEF TransactionSound, Fields
  <2> QED BY <1>2, <1>11, <2>3 DEF CommitBar, Idle
<1>12. CASE Rollback
  BY <1>2, <1>12 DEF Rollback, Idle, Inv
<1>13. CASE OpenRiskDay
  <2>1. /\ DOMAIN db' = Fields
        /\ \A f \in Fields \ {"basis"} : db'[f] = db[f]
    BY <1>13 DEF OpenRiskDay, Inv, Sound, Fields
  <2>2. Sound(db', day)
    BY <2>1, OthersKeep DEF Inv, Fields
  <2> QED BY <1>2, <1>13, <2>2 DEF OpenRiskDay, Idle
<1>14. CASE Settle
  BY <1>2, <1>14, SettleKeeps DEF Settle, Idle
<1>15. CASE Tick
  BY <1>15 DEF Tick, Inv, Idle
<1>16. CASE NextDay
  <2>1. /\ DOMAIN db' = Fields
        /\ \A f \in Fields \ {"latest"} : db'[f] = db[f]
    BY <1>16 DEF NextDay, Inv, Sound, Fields
  <2>2. Sound(db', day)
    BY <2>1, OthersKeep DEF Inv, Fields
  <2>3. day' \in Days /\ \A e \in Days : e <= day => e <= day'
    BY <1>16, LedgerAssumption DEF NextDay, Inv, Days
  <2>4. Sound(db', day')
    BY <2>2, <2>3 DEF Sound, DaysSound
  <2> QED BY <1>16, <2>3, <2>4 DEF NextDay, Inv, Idle
<1> QED BY <1>1, <1>3, <1>4, <1>5, <1>6, <1>7, <1>8, <1>9, <1>10, <1>11, <1>12, <1>13, <1>14, <1>15, <1>16 DEF Next

LEMMA Invariant == Spec => []Inv
<1> QED BY InitSound, InvStep, PTL DEF Spec

-----------------------------------------------------------------------------
\* A BUY order never costs more, with its fees and over all of its fills, than was
\* reserved when it was placed (_reserved, match_order).
THEOREM BudgetKept == Spec => []WithinBudget
<1>1. Inv => WithinBudget
  <2> SUFFICES ASSUME Inv, NEW k \in Signals, SideOf[k] = "BUY"
               PROVE  db.order[k].notional + db.order[k].fees
                        + (IF Live(db.order[k]) THEN StillToPay(k) ELSE 0) <= Budget(k)
    BY DEF WithinBudget
  <2> DEFINE n == db.order[k].notional
             left == CapOf[k] * db.order[k].remaining
             all == CapOf[k] * QtyOf[k]
  <2>1. /\ n \in Nat /\ left \in Nat /\ all \in Nat
        /\ db.order[k].fees = Fees(k, n) /\ n + left <= all
    BY LedgerAssumption DEF Inv, Sound, OrdersSound, Orders
  <2> HIDE DEF left, all, n
  <2>2. /\ Fees(k, n) \in Nat /\ Fees(k, n + left) \in Nat /\ Fees(k, all) \in Nat
        /\ Fees(k, n) <= Fees(k, all) /\ Fees(k, n + left) <= Fees(k, all)
    <3>1. n + left \in Nat /\ n <= all
      BY <2>1
    <3> QED BY <2>1, <3>1, FeesGrow
  <2>3. n + Fees(k, n) <= all + Fees(k, all)
    BY <2>1, <2>2
  <2>4. n + Fees(k, n) + (left + Fees(k, n + left) - Fees(k, n)) <= all + Fees(k, all)
    BY <2>1, <2>2
  <2> QED BY <2>1, <2>3, <2>4, <2>2 DEF Budget, StillToPay, left, all, n
<1> QED BY <1>1, Invariant, PTL

\* The fees of an order are the fee of its whole notional, however it was filled
\* (match_order).
THEOREM FeesOncePerOrder == Spec => []FeesCumulative
<1>1. Inv => FeesCumulative
  BY DEF Inv, Sound, OrdersSound, FeesCumulative
<1> QED BY <1>1, Invariant, PTL

\* What a BUY was budgeted for, minimum commission included, is what it costs.
THEOREM CostsAsForeseen == Spec => []CostsForeseen
BY BudgetKept, FeesOncePerOrder, PTL DEF CostsForeseen

\* A session keeps its first answer, and what it cancelled stays cancelled
\* (cancel_buy_reservations).
THEOREM OneAnswer == Spec => []SessionsAnswerOnce
<1>1. Inv => SessionsAnswerOnce
  BY DEF Inv, Sound, SessionsSound, SessionsAnswerOnce
<1> QED BY <1>1, Invariant, PTL

\* A settled day has no open order, and its cash stands until a later day trades
\* (settle, on_bar).
THEOREM SettlementFinal == Spec => []SettledIsFinal
<1>1. Inv => SettledIsFinal
  BY DEF Inv, Sound, DaysSound, NoTradeAfter, SettledIsFinal
<1> QED BY <1>1, Invariant, PTL

\* A cancellation session and a settled day keep the answer they gave.
THEOREM Finality == Spec => []AnswersFinal
BY OneAnswer, SettlementFinal, PTL DEF AnswersFinal

-----------------------------------------------------------------------------
(* Sums over finite sets.  Sum folds over a set by taking out one element  *)
(* after another: what it is does not depend on the order, as every set    *)
(* of the subsets of a finite set has a smallest member.                   *)

Pick(T) == CHOOSE x \in T : TRUE
Rest(T) == T \ {Pick(T)}
Sums(h, f, S) == h = [T \in SUBSET S |-> IF T = {} THEN 0 ELSE f[Pick(T)] + h[Rest(T)]]
TheSums(f, S) == CHOOSE h : Sums(h, f, S)

LEMMA SumDef ==
  ASSUME NEW f, NEW S
  PROVE  Sum(f, S) = TheSums(f, S)[S]
BY Zenon DEF Sum, MapThenSumSet, MapThenFoldSet, Sums, TheSums, Pick, Rest

LEMMA Smallest ==
  ASSUME NEW S, IsFiniteSet(S), NEW B \in SUBSET SUBSET S, B # {}
  PROVE  \E T \in B : \A U \in B : U \subseteq T => U = T
<1>1. B \subseteq FiniteSubsetsOf(S)
  BY FS_Subset DEF FiniteSubsetsOf
<1>2. \E T \in B : \A U \in B : <<U, T>> \notin StrictSubsetOrdering(S)
  BY <1>1, FS_StrictSubsetOrderingWellFounded, WFMin, Zenon
<1> QED
  BY <1>2 DEF StrictSubsetOrdering

\* Induction over the subsets of a finite set, with a set for the predicate.
LEMMA SubsetInduction ==
  ASSUME NEW S, IsFiniteSet(S), NEW G,
         \A T \in SUBSET S : (\A U \in SUBSET T : U # T => U \in G) => T \in G
  PROVE  \A T \in SUBSET S : T \in G
<1> DEFINE B == {T \in SUBSET S : T \notin G}
<1>1. SUFFICES ASSUME B # {} PROVE FALSE
  OBVIOUS
<1>2. PICK T \in B : \A U \in B : U \subseteq T => U = T
  <2>1. B \in SUBSET SUBSET S
    OBVIOUS
  <2> HIDE DEF B
  <2> QED BY <1>1, <2>1, Smallest
<1> QED
  BY <1>2

LEMMA PickIn ==
  ASSUME NEW T, T # {}
  PROVE  Pick(T) \in T /\ Rest(T) \subseteq T /\ Rest(T) # T
BY DEF Pick, Rest

LEMMA SumsAt ==
  ASSUME NEW S, NEW f, NEW h, Sums(h, f, S), NEW T \in SUBSET S
  PROVE  h[T] = IF T = {} THEN 0 ELSE f[Pick(T)] + h[Rest(T)]
BY Zenon DEF Sums

LEMMA SumsUnique ==
  ASSUME NEW S, IsFiniteSet(S), NEW S1, NEW S2, S \subseteq S1, S \subseteq S2,
         NEW f, NEW h, NEW k, Sums(h, f, S1), Sums(k, f, S2)
  PROVE  h[S] = k[S]
<1> DEFINE G == {T \in SUBSET S : h[T] = k[T]}
<1>1. ASSUME NEW T \in SUBSET S, \A U \in SUBSET T : U # T => U \in G
      PROVE  T \in G
  <2>1. T \in SUBSET S1 /\ T \in SUBSET S2
    OBVIOUS
  <2>2. /\ h[T] = IF T = {} THEN 0 ELSE f[Pick(T)] + h[Rest(T)]
        /\ k[T] = IF T = {} THEN 0 ELSE f[Pick(T)] + k[Rest(T)]
    BY <2>1, SumsAt
  <2>3. T # {} => h[Rest(T)] = k[Rest(T)]
    BY <1>1, PickIn
  <2> QED
    BY <2>2, <2>3
<1> HIDE DEF G
<1>2. \A T \in SUBSET S : T \in G
  BY <1>1, SubsetInduction
<1> QED
  BY <1>2 DEF G

LEMMA SumsExists ==
  ASSUME NEW S, IsFiniteSet(S), NEW f
  PROVE  Sums(TheSums(f, S), f, S)
<1> DEFINE G == {T \in SUBSET S : Sums(TheSums(f, T), f, T)}
           V(W) == TheSums(f, W)[W]
<1>1. ASSUME NEW T \in SUBSET S, \A U \in SUBSET T : U # T => U \in G
      PROVE  T \in G
  <2> DEFINE k == [U \in SUBSET T |-> IF U = {} THEN 0 ELSE f[Pick(U)] + V(Rest(U))]
  <2>1. ASSUME NEW W \in SUBSET T, W # T PROVE k[W] = V(W)
    <3>1. Sums(TheSums(f, W), f, W) /\ IsFiniteSet(W)
      BY <1>1, <2>1, FS_Subset
    <3>2. V(W) = IF W = {} THEN 0 ELSE f[Pick(W)] + TheSums(f, W)[Rest(W)]
      <4>1. W \in SUBSET W
        OBVIOUS
      <4> QED
        BY <3>1, <4>1, SumsAt
    <3>3. k[W] = IF W = {} THEN 0 ELSE f[Pick(W)] + V(Rest(W))
      OBVIOUS
    <3>4. W # {} => TheSums(f, W)[Rest(W)] = V(Rest(W))
      <4> SUFFICES ASSUME W # {} PROVE TheSums(f, W)[Rest(W)] = V(Rest(W))
        OBVIOUS
      <4> DEFINE X == Rest(W)
      <4>1. X \subseteq W /\ X \in SUBSET T /\ X # T
        BY PickIn, <2>1
      <4>2. Sums(TheSums(f, X), f, X) /\ IsFiniteSet(X)
        BY <4>1, <1>1, FS_Subset
      <4> HIDE DEF X
      <4>3. TheSums(f, W)[X] = TheSums(f, X)[X]
        BY <4>1, <4>2, <3>1, SumsUnique
      <4> QED
        BY <4>3 DEF X
    <3> QED
      BY <3>2, <3>3, <3>4
  <2>2. \A U \in SUBSET T : (IF U = {} THEN 0 ELSE f[Pick(U)] + V(Rest(U)))
                          = (IF U = {} THEN 0 ELSE f[Pick(U)] + k[Rest(U)])
    <3> SUFFICES ASSUME NEW U \in SUBSET T, U # {} PROVE V(Rest(U)) = k[Rest(U)]
      OBVIOUS
    <3>1. Rest(U) \in SUBSET T /\ Rest(U) # T
      BY PickIn
    <3> HIDE DEF k, V
    <3> QED
      BY <2>1, <3>1
  <2>3. Sums(k, f, T)
    <3>1. k = [U \in SUBSET T |-> IF U = {} THEN 0 ELSE f[Pick(U)] + k[Rest(U)]]
      <4>1. k = [U \in SUBSET T |-> IF U = {} THEN 0 ELSE f[Pick(U)] + V(Rest(U))]
        OBVIOUS
      <4> HIDE DEF k, V
      <4> QED
        BY <2>2, <4>1
    <3> HIDE DEF k, V
    <3> QED
      BY <3>1 DEF Sums
  <2>4. Sums(TheSums(f, T), f, T)
    <3> HIDE DEF k, V
    <3> QED
      BY <2>3 DEF TheSums
  <2> QED
    BY <2>4
<1> HIDE DEF G
<1>2. \A T \in SUBSET S : T \in G
  BY <1>1, SubsetInduction
<1> QED
  BY <1>2 DEF G

LEMMA SumEmpty ==
  ASSUME NEW f
  PROVE  Sum(f, {}) = 0
<1>1. Sums(TheSums(f, {}), f, {}) /\ {} \in SUBSET {}
  BY FS_EmptySet, SumsExists
<1>2. TheSums(f, {})[{}] = 0
  BY <1>1, SumsAt
<1> QED
  BY <1>2, SumDef

LEMMA SumPick ==
  ASSUME NEW S, IsFiniteSet(S), S # {}, NEW f
  PROVE  Sum(f, S) = f[Pick(S)] + Sum(f, Rest(S))
<1> DEFINE h == TheSums(f, S)
           R == Rest(S)
           k == TheSums(f, R)
<1>1. R \subseteq S /\ IsFiniteSet(R) /\ S \in SUBSET S
  BY PickIn, FS_Subset
<1>2. Sums(h, f, S) /\ Sums(k, f, R)
  BY <1>1, SumsExists
<1>3. Sum(f, S) = h[S] /\ Sum(f, R) = k[R]
  BY SumDef
<1> HIDE DEF h, k
<1>4. h[S] = f[Pick(S)] + h[R]
  BY <1>1, <1>2, SumsAt
<1>5. h[R] = k[R]
  <2> HIDE DEF R
  <2> QED BY <1>1, <1>2, SumsUnique
<1> QED
  BY <1>3, <1>4, <1>5

LEMMA SumInt ==
  ASSUME NEW S, IsFiniteSet(S), NEW f, \A x \in S : f[x] \in Int
  PROVE  Sum(f, S) \in Int
<1> DEFINE G == {T \in SUBSET S : Sum(f, T) \in Int}
<1>1. ASSUME NEW T \in SUBSET S, \A U \in SUBSET T : U # T => U \in G
      PROVE  T \in G
  <2>1. CASE T = {}
    BY <2>1, SumEmpty
  <2>2. CASE T # {}
    <3>1. IsFiniteSet(T) /\ Pick(T) \in S /\ Rest(T) \in G
      BY <1>1, <2>2, PickIn, FS_Subset
    <3> QED
      BY <2>2, <3>1, SumPick
  <2> QED
    BY <2>1, <2>2
<1> HIDE DEF G
<1>2. \A T \in SUBSET S : T \in G
  BY <1>1, SubsetInduction
<1> QED
  BY <1>2 DEF G

LEMMA SumRemove ==
  ASSUME NEW S, IsFiniteSet(S), NEW f, \A x \in S : f[x] \in Int, NEW x \in S
  PROVE  /\ Sum(f, S) = f[x] + Sum(f, S \ {x})
         /\ Sum(f, S \ {x}) \in Int /\ Sum(f, S) \in Int
<1> DEFINE G == {T \in SUBSET S : \A y \in T : Sum(f, T) = f[y] + Sum(f, T \ {y})}
<1>1. ASSUME NEW T \in SUBSET S, \A U \in SUBSET T : U # T => U \in G
      PROVE  T \in G
  <2> SUFFICES ASSUME NEW y \in T PROVE Sum(f, T) = f[y] + Sum(f, T \ {y})
    OBVIOUS
  <2>1. IsFiniteSet(T) /\ Pick(T) \in T /\ Sum(f, T) = f[Pick(T)] + Sum(f, T \ {Pick(T)})
    BY PickIn, FS_Subset, SumPick DEF Rest
  <2>2. CASE y = Pick(T)
    BY <2>1, <2>2
  <2>3. CASE y # Pick(T)
    <3> DEFINE z == Pick(T)
               A == T \ {z}
               B == T \ {y}
               C == T \ {y, z}
    <3>1. A \in G /\ B \in G /\ z \in B /\ y \in A /\ B \ {z} = C /\ A \ {y} = C
      BY <1>1, <2>1, <2>3
    <3>2. Sum(f, A) = f[y] + Sum(f, C) /\ Sum(f, B) = f[z] + Sum(f, C)
      BY <3>1
    <3>3. Sum(f, C) \in Int /\ f[y] \in Int /\ f[z] \in Int
      <4>1. IsFiniteSet(C) /\ C \in SUBSET S /\ z \in S
        BY <2>1, FS_Subset
      <4> HIDE DEF C, z
      <4> QED BY <4>1, SumInt
    <3>4. Sum(f, T) = f[z] + Sum(f, A)
      BY <2>1
    <3> HIDE DEF z, A, B, C
    <3>5. Sum(f, T) = f[y] + Sum(f, B)
      BY <3>2, <3>3, <3>4
    <3> QED
      BY <3>5 DEF B
  <2> QED
    BY <2>2, <2>3
<1> HIDE DEF G
<1>2. \A T \in SUBSET S : T \in G
  BY <1>1, SubsetInduction
<1>3. Sum(f, S) = f[x] + Sum(f, S \ {x})
  BY <1>2 DEF G
<1> QED
  BY <1>3, SumInt, FS_Subset

LEMMA SumAdd ==
  ASSUME NEW S, IsFiniteSet(S), NEW x, x \notin S, NEW f, \A y \in S \cup {x} : f[y] \in Int
  PROVE  /\ Sum(f, S \cup {x}) = f[x] + Sum(f, S)
         /\ Sum(f, S) \in Int /\ Sum(f, S \cup {x}) \in Int
<1>1. IsFiniteSet(S \cup {x}) /\ (S \cup {x}) \ {x} = S /\ x \in S \cup {x}
  BY FS_AddElement
<1> QED
  BY <1>1, SumRemove

\* Only what the function is on the set counts.
LEMMA SumSame ==
  ASSUME NEW S, IsFiniteSet(S), NEW f, NEW g, \A x \in S : f[x] = g[x]
  PROVE  Sum(f, S) = Sum(g, S)
<1> DEFINE G == {T \in SUBSET S : Sum(f, T) = Sum(g, T)}
<1>1. ASSUME NEW T \in SUBSET S, \A U \in SUBSET T : U # T => U \in G
      PROVE  T \in G
  <2>1. CASE T = {}
    BY <2>1, SumEmpty
  <2>2. CASE T # {}
    <3>1. IsFiniteSet(T) /\ Pick(T) \in S /\ Rest(T) \in G
      BY <1>1, <2>2, PickIn, FS_Subset
    <3> QED
      BY <2>2, <3>1, SumPick
  <2> QED
    BY <2>1, <2>2
<1> HIDE DEF G
<1>2. \A T \in SUBSET S : T \in G
  BY <1>1, SubsetInduction
<1> QED
  BY <1>2 DEF G

LEMMA SumMonotone ==
  ASSUME NEW S, IsFiniteSet(S), NEW f, NEW g,
         \A x \in S : f[x] \in Int /\ g[x] \in Int /\ f[x] <= g[x]
  PROVE  Sum(f, S) <= Sum(g, S)
<1> DEFINE G == {T \in SUBSET S : Sum(f, T) <= Sum(g, T)}
<1>1. ASSUME NEW T \in SUBSET S, \A U \in SUBSET T : U # T => U \in G
      PROVE  T \in G
  <2>1. CASE T = {}
    BY <2>1, SumEmpty
  <2>2. CASE T # {}
    <3>1. IsFiniteSet(T) /\ Pick(T) \in S /\ Rest(T) \in G /\ Rest(T) \in SUBSET S /\ IsFiniteSet(Rest(T))
      BY <1>1, <2>2, PickIn, FS_Subset
    <3>2. Sum(f, Rest(T)) \in Int /\ Sum(g, Rest(T)) \in Int
      BY <3>1, SumInt
    <3> QED
      BY <2>2, <3>1, <3>2, SumPick
  <2> QED
    BY <2>1, <2>2
<1> HIDE DEF G
<1>2. \A T \in SUBSET S : T \in G
  BY <1>1, SubsetInduction
<1> QED
  BY <1>2 DEF G

LEMMA SumSplit ==
  ASSUME NEW S, IsFiniteSet(S), NEW f, \A x \in S : f[x] \in Int, NEW A \in SUBSET S
  PROVE  /\ Sum(f, S) = Sum(f, A) + Sum(f, S \ A)
         /\ Sum(f, A) \in Int /\ Sum(f, S \ A) \in Int /\ Sum(f, S) \in Int
<1> DEFINE G == {T \in SUBSET S : Sum(f, T) = Sum(f, T \cap A) + Sum(f, T \ A)}
<1>1. ASSUME NEW T \in SUBSET S, \A U \in SUBSET T : U # T => U \in G
      PROVE  T \in G
  <2>1. CASE T = {}
    <3>1. T \cap A = {} /\ T \ A = {}
      BY <2>1
    <3> QED
      BY <2>1, <3>1, SumEmpty
  <2>2. ASSUME NEW x \in T PROVE T \in G
    <3>1. Sum(f, T \ {x}) = Sum(f, (T \ {x}) \cap A) + Sum(f, (T \ {x}) \ A)
      BY <1>1
    <3>2. IsFiniteSet(T) /\ IsFiniteSet(T \cap A) /\ IsFiniteSet(T \ A)
      BY FS_Subset
    <3>3. Sum(f, T) = f[x] + Sum(f, T \ {x}) /\ f[x] \in Int
      BY <3>2, SumRemove
    <3>4. Sum(f, T \cap A) \in Int /\ Sum(f, T \ A) \in Int
      BY <3>2, SumInt
    <3>5. CASE x \in A
      <4>1. (T \ {x}) \cap A = (T \cap A) \ {x} /\ (T \ {x}) \ A = T \ A /\ x \in T \cap A
        BY <3>5
      <4>2. Sum(f, T \cap A) = f[x] + Sum(f, (T \cap A) \ {x}) /\ Sum(f, (T \cap A) \ {x}) \in Int
        BY <3>2, <4>1, SumRemove
      <4>3. Sum(f, T \ {x}) = Sum(f, (T \cap A) \ {x}) + Sum(f, T \ A)
        BY <3>1, <4>1
      <4>4. Sum(f, T) = Sum(f, T \cap A) + Sum(f, T \ A)
        BY <3>3, <3>4, <4>2, <4>3
      <4> QED
        BY <4>4
    <3>6. CASE x \notin A
      <4>1. (T \ {x}) \ A = (T \ A) \ {x} /\ (T \ {x}) \cap A = T \cap A /\ x \in T \ A
        BY <3>6
      <4>2. Sum(f, T \ A) = f[x] + Sum(f, (T \ A) \ {x}) /\ Sum(f, (T \ A) \ {x}) \in Int
        BY <3>2, <4>1, SumRemove
      <4>3. Sum(f, T \ {x}) = Sum(f, T \cap A) + Sum(f, (T \ A) \ {x})
        BY <3>1, <4>1
      <4>4. Sum(f, T) = Sum(f, T \cap A) + Sum(f, T \ A)
        BY <3>3, <3>4, <4>2, <4>3
      <4> QED
        BY <4>4
    <3> QED
      BY <3>5, <3>6
  <2> QED
    BY <2>1, <2>2
<1> HIDE DEF G
<1>2. S \in G
  BY <1>1, SubsetInduction
<1>3. S \cap A = A /\ IsFiniteSet(A) /\ IsFiniteSet(S \ A)
  BY FS_Subset
<1> QED
  BY <1>2, <1>3, SumInt DEF G

LEMMA SumZero ==
  ASSUME NEW S, IsFiniteSet(S), NEW f, \A x \in S : f[x] = 0
  PROVE  Sum(f, S) = 0
<1> DEFINE G == {T \in SUBSET S : Sum(f, T) = 0}
<1>1. ASSUME NEW T \in SUBSET S, \A U \in SUBSET T : U # T => U \in G
      PROVE  T \in G
  <2>1. CASE T = {}
    BY <2>1, SumEmpty
  <2>2. CASE T # {}
    <3>1. IsFiniteSet(T) /\ Pick(T) \in S /\ Rest(T) \in G
      BY <1>1, <2>2, PickIn, FS_Subset
    <3> QED
      BY <2>2, <3>1, SumPick
  <2> QED
    BY <2>1, <2>2
<1> HIDE DEF G
<1>2. \A T \in SUBSET S : T \in G
  BY <1>1, SubsetInduction
<1> QED
  BY <1>2 DEF G

LEMMA SumNat ==
  ASSUME NEW S, IsFiniteSet(S), NEW f, \A x \in S : f[x] \in Nat
  PROVE  Sum(f, S) \in Nat
<1> DEFINE z == [x \in S |-> 0]
<1>1. Sum(z, S) = 0
  <2>1. \A x \in S : z[x] = 0
    OBVIOUS
  <2> HIDE DEF z
  <2> QED BY <2>1, SumZero
<1>2. \A x \in S : z[x] \in Int /\ f[x] \in Int /\ z[x] <= f[x]
  OBVIOUS
<1> HIDE DEF z
<1> QED
  BY <1>1, <1>2, SumMonotone, SumInt

\* The function changes at one place.
LEMMA SumChange ==
  ASSUME NEW S, IsFiniteSet(S), NEW f, NEW g, NEW x \in S,
         \A y \in S : f[y] \in Int, g[x] \in Int, \A y \in S \ {x} : g[y] = f[y]
  PROVE  Sum(g, S) = Sum(f, S) - f[x] + g[x] /\ Sum(f, S) \in Int /\ Sum(g, S) \in Int
<1>1. IsFiniteSet(S \ {x}) /\ \A y \in S : g[y] \in Int
  BY FS_Subset
<1>2. Sum(g, S \ {x}) = Sum(f, S \ {x})
  BY <1>1, SumSame
<1>3. Sum(f, S) = f[x] + Sum(f, S \ {x}) /\ Sum(f, S \ {x}) \in Int
  BY SumRemove
<1>4. Sum(g, S) = g[x] + Sum(g, S \ {x})
  BY <1>1, SumRemove
<1> QED
  BY <1>1, <1>2, <1>3, <1>4, SumInt

\* Fewer of what is not negative is not more.
LEMMA SumFewer ==
  ASSUME NEW S, IsFiniteSet(S), NEW f, \A x \in S : f[x] \in Nat, NEW A \in SUBSET S
  PROVE  Sum(f, A) <= Sum(f, S) /\ Sum(f, A) \in Nat /\ Sum(f, S) \in Nat
<1>1. Sum(f, S) = Sum(f, A) + Sum(f, S \ A)
  BY SumSplit
<1>2. Sum(f, A) \in Nat /\ Sum(f, S \ A) \in Nat /\ Sum(f, S) \in Nat
  BY SumNat, FS_Subset
<1> QED
  BY <1>1, <1>2

-----------------------------------------------------------------------------
(* The types.                                                              *)

Transactions == [db : Databases, minute : 0..Close + 1, bar : Shapes, left : Nat, todo : SUBSET Signals]

LEMMA DatabaseIs ==
  ASSUME NEW d \in Databases
  PROVE  /\ DOMAIN d = Fields /\ d = [f \in Fields |-> d[f]]
         /\ d.cash \in Nat /\ d.order \in [Signals -> Orders] /\ d.placed \in Nat
         /\ d.judged \in SUBSET Signals
         /\ d.lots \in [Plans -> [Days -> Nat]] /\ d.bought \in [Plans -> [Days -> Nat]]
         /\ d.sold \in [Plans -> [Days -> Nat]]
         /\ d.latest \in [Symbols -> 0..Close + 1] /\ d.mark \in [Symbols -> Marks]
         /\ d.peak \in Nat /\ d.basis \in [Days -> Nat \cup {None}]
         /\ d.nav \in [Days -> [nav : Nat \cup {None}, cash : Nat] \cup {None}]
         /\ d.sessions \in [Sessions -> (SUBSET Signals) \cup {None}]
         /\ d.rows \in SUBSET (Sessions \X Signals)
BY DEF Databases, Fields

\* A record with the fields of a database whose fields have their types is one.
LEMMA IsDatabase ==
  ASSUME NEW d, d = [f \in Fields |-> d[f]],
         d.cash \in Nat, d.order \in [Signals -> Orders], d.placed \in Nat,
         d.judged \in SUBSET Signals,
         d.lots \in [Plans -> [Days -> Nat]], d.bought \in [Plans -> [Days -> Nat]],
         d.sold \in [Plans -> [Days -> Nat]],
         d.latest \in [Symbols -> 0..Close + 1], d.mark \in [Symbols -> Marks],
         d.peak \in Nat, d.basis \in [Days -> Nat \cup {None}],
         d.nav \in [Days -> [nav : Nat \cup {None}, cash : Nat] \cup {None}],
         d.sessions \in [Sessions -> (SUBSET Signals) \cup {None}],
         d.rows \in SUBSET (Sessions \X Signals)
  PROVE  d \in Databases
<1>1. d = [cash |-> d.cash, order |-> d.order, placed |-> d.placed, judged |-> d.judged,
           lots |-> d.lots, bought |-> d.bought, sold |-> d.sold, latest |-> d.latest,
           mark |-> d.mark, peak |-> d.peak, basis |-> d.basis, nav |-> d.nav,
           sessions |-> d.sessions, rows |-> d.rows]
  BY DEF Fields
<1> QED
  BY <1>1 DEF Databases

Before(t) == {x \in Days : x < t}

LEMMA DaysNat == \A t \in Days : t \in Nat /\ t > 0 /\ \A n \in Nat \ {0} : n <= t => n \in Days
BY LedgerAssumption DEF Days

LEMMA DaysFinite == IsFiniteSet(Days) /\ \A t : IsFiniteSet(Before(t)) /\ Before(t) \subseteq Days
<1>1. IsFiniteSet(Days)
  BY FS_Interval, LedgerAssumption DEF Days
<1> QED
  BY <1>1, FS_Subset DEF Before

\* The days, the positions and the net value are numbers, and the net value is
\* known when the position has its price.
LEMMA NavKnown ==
  ASSUME NEW d \in Databases
  PROVE  /\ \A p \in Plans : Position(d, p) \in Nat
         /\ Held(d) \subseteq Plans /\ IsFiniteSet(Held(d))
         /\ Nav(d) \in Nat \cup {None}
         /\ \A m : Marked(d, m) => Nav(d) \in Nat
         /\ Held(d) = {} => Nav(d) = d.cash
<1>1. /\ d.cash \in Nat /\ d.lots \in [Plans -> [Days -> Nat]] /\ d.mark \in [Symbols -> Marks]
  BY DatabaseIs
<1>2. \A p \in Plans : Position(d, p) \in Nat
  <2> TAKE p \in Plans
  <2> DEFINE f == d.lots[p]
  <2>1. \A x \in Days : f[x] \in Nat
    BY <1>1
  <2> HIDE DEF f
  <2>2. Sum(f, Days) \in Nat
    BY <2>1, DaysFinite, SumNat
  <2> QED
    BY <2>2 DEF Position, f
<1>3. Held(d) \subseteq Plans /\ IsFiniteSet(Held(d))
  <2>1. IsFiniteSet(Plans)
    BY LedgerAssumption
  <2> QED
    BY <2>1, FS_Subset DEF Held
<1> DEFINE g == [p \in Plans |-> Position(d, p) * d.mark[SymbolOf[p]].price]
<1>4. Nav(d) = IF \A p \in Held(d) : d.mark[SymbolOf[p]] # None THEN d.cash + Sum(g, Held(d)) ELSE None
  BY DEF Nav
<1>5. ASSUME \A p \in Held(d) : d.mark[SymbolOf[p]] # None PROVE Sum(g, Held(d)) \in Nat
  <2>1. \A p \in Held(d) : g[p] \in Nat
    <3> SUFFICES ASSUME NEW p \in Held(d) PROVE g[p] \in Nat
      OBVIOUS
    <3>1. p \in Plans /\ SymbolOf[p] \in Symbols /\ d.mark[SymbolOf[p]] # None
      BY <1>3, <1>5, LedgerAssumption
    <3>2. d.mark[SymbolOf[p]].price \in Nat
      BY <1>1, <3>1 DEF Marks
    <3>3. Position(d, p) \in Nat
      BY <1>2, <3>1
    <3> DEFINE a == Position(d, p)
               b == d.mark[SymbolOf[p]].price
    <3>4. g[p] = a * b
      BY <3>1
    <3> HIDE DEF g, a, b
    <3>5. a * b \in Nat
      BY <3>2, <3>3 DEF a, b
    <3> QED
      BY <3>4, <3>5
  <2> HIDE DEF g
  <2> QED
    BY <1>3, <2>1, SumNat
<1>6. Held(d) = {} => Sum(g, Held(d)) = 0
  <2> HIDE DEF g
  <2> QED BY SumEmpty
<1> HIDE DEF g
<1>7. \A m : Marked(d, m) => \A p \in Held(d) : d.mark[SymbolOf[p]] # None
  BY DEF Marked
<1>8. Nav(d) \in Nat \cup {None}
  BY <1>1, <1>4, <1>5
<1>9. \A m : Marked(d, m) => Nav(d) \in Nat
  BY <1>1, <1>4, <1>5, <1>7
<1>10. Held(d) = {} => Nav(d) = d.cash
  BY <1>1, <1>4, <1>6
<1> QED
  BY <1>2, <1>3, <1>8, <1>9, <1>10

\* What cancelling changes, and what it leaves alone.
LEMMA CancelledIs ==
  ASSUME NEW d \in Databases, NEW S, NEW c, c = Cancelled(d, S)
  PROVE  /\ c \in Databases
         /\ \A f \in Fields \ {"order"} : c[f] = d[f]
         /\ \A k \in Signals :
              /\ c.order[k].remaining = d.order[k].remaining
              /\ c.order[k].notional = d.order[k].notional
              /\ c.order[k].fees = d.order[k].fees
              /\ IF k \in S THEN c.order[k].status = "CANCELLED"
                            ELSE c.order[k] = d.order[k]
<1> DEFINE orders == [k \in Signals |-> IF k \in S THEN [d.order[k] EXCEPT !.status = "CANCELLED"] ELSE d.order[k]]
<1>1. DOMAIN d = Fields /\ d.order \in [Signals -> Orders]
  BY DatabaseIs
<1>2. c = [d EXCEPT !.order = orders]
  BY DEF Cancelled
<1>3. c = [f \in Fields |-> c[f]] /\ c.order = orders /\ \A f \in Fields \ {"order"} : c[f] = d[f]
  BY <1>1, <1>2 DEF Fields
<1>4. \A k \in Signals :
        /\ orders[k] \in Orders
        /\ orders[k].remaining = d.order[k].remaining
        /\ orders[k].notional = d.order[k].notional
        /\ orders[k].fees = d.order[k].fees
        /\ IF k \in S THEN orders[k].status = "CANCELLED" ELSE orders[k] = d.order[k]
  BY <1>1 DEF Orders
<1>5. orders \in [Signals -> Orders]
  BY <1>4
<1> HIDE DEF orders
<1>6. c \in Databases
  BY <1>3, <1>5, DatabaseIs, IsDatabase DEF Fields
<1> QED
  BY <1>3, <1>4, <1>6

\* What a fill changes, and what it leaves alone.
LEMMA FilledIs ==
  ASSUME NEW d \in Databases, NEW k \in Signals, NEW q \in Int, NEW price \in Nat,
         NEW c, c = Filled(d, k, q, price)
  PROVE  /\ c = [f \in Fields |-> c[f]]
         /\ \A f \in Fields \ {"order", "cash", "lots", "bought", "sold"} : c[f] = d[f]
         /\ \A j \in Signals \ {k} : c.order[j] = d.order[j]
         /\ c.order[k].status = (IF q = d.order[k].remaining THEN "FILLED" ELSE "PARTIAL")
         /\ c.order[k].remaining = d.order[k].remaining - q
         /\ c.order[k].notional = d.order[k].notional + price * q
         /\ c.order[k].fees = d.order[k].fees + FeeDue(k, d.order[k], price * q)
<1> DEFINE o == d.order[k]
           new == [o EXCEPT !.status = IF q = o.remaining THEN "FILLED" ELSE "PARTIAL",
                            !.remaining = @ - q, !.notional = @ + price * q,
                            !.fees = @ + FeeDue(k, o, price * q)]
<1>1. DOMAIN d = Fields /\ d.order \in [Signals -> Orders]
  BY DatabaseIs
<1>2. /\ c = [f \in Fields |-> c[f]]
      /\ \A f \in Fields \ {"order", "cash", "lots", "bought", "sold"} : c[f] = d[f]
      /\ c.order = [d.order EXCEPT ![k] = new]
  <2>1. CASE SideOf[k] = "BUY"
    <3>1. c = [d EXCEPT !.order[k] = new, !.cash = @ - price * q - FeeDue(k, o, price * q),
                        !.lots[PlanOf[k]][day] = @ + q, !.bought[PlanOf[k]][day] = @ + q]
      BY <2>1 DEF Filled
    <3> HIDE DEF new
    <3> QED BY <1>1, <3>1 DEF Fields
  <2>2. CASE SideOf[k] # "BUY"
    <3>1. c = [d EXCEPT !.order[k] = new, !.cash = @ + price * q - FeeDue(k, o, price * q),
                        !.lots[PlanOf[k]] = Take(@, q), !.sold[PlanOf[k]][day] = @ + q]
      BY <2>2 DEF Filled
    <3> HIDE DEF new
    <3> QED BY <1>1, <3>1 DEF Fields
  <2> QED BY <2>1, <2>2
<1>3. /\ new.status = IF q = o.remaining THEN "FILLED" ELSE "PARTIAL"
      /\ new.remaining = o.remaining - q
      /\ new.notional = o.notional + price * q
      /\ new.fees = o.fees + FeeDue(k, o, price * q)
  <2>1. DOMAIN o = {"status", "rowid", "day", "at", "remaining", "notional", "fees"}
    BY <1>1 DEF Orders
  <2> HIDE DEF o
  <2> QED BY <2>1
<1> HIDE DEF new
<1>4. c.order[k] = new /\ \A j \in Signals \ {k} : c.order[j] = d.order[j]
  BY <1>1, <1>2
<1> QED
  BY <1>2, <1>3, <1>4

\* The tables after a BUY and after a SELL of q shares.
BoughtInto(c, d, k, q, price) ==
    /\ c.cash = d.cash - price * q - FeeDue(k, d.order[k], price * q)
    /\ c.lots = [d.lots EXCEPT ![PlanOf[k]][day] = @ + q]
    /\ c.bought = [d.bought EXCEPT ![PlanOf[k]][day] = @ + q]
    /\ c.sold = d.sold

SoldFrom(c, d, k, q, price) ==
    /\ c.cash = d.cash + price * q - FeeDue(k, d.order[k], price * q)
    /\ c.lots = [d.lots EXCEPT ![PlanOf[k]] = Take(d.lots[PlanOf[k]], q)]
    /\ c.sold = [d.sold EXCEPT ![PlanOf[k]][day] = @ + q]
    /\ c.bought = d.bought

LEMMA FilledBuys ==
  ASSUME NEW d \in Databases, NEW k \in Signals, NEW q \in Int, NEW price \in Nat,
         NEW c, c = Filled(d, k, q, price), SideOf[k] = "BUY"
  PROVE  BoughtInto(c, d, k, q, price)
<1>1. DOMAIN d = Fields
  BY DatabaseIs
<1> QED
  BY <1>1 DEF Filled, Fields, BoughtInto

LEMMA FilledSells ==
  ASSUME NEW d \in Databases, NEW k \in Signals, NEW q \in Int, NEW price \in Nat,
         NEW c, c = Filled(d, k, q, price), SideOf[k] # "BUY"
  PROVE  SoldFrom(c, d, k, q, price)
<1>1. DOMAIN d = Fields
  BY DatabaseIs
<1> QED
  BY <1>1 DEF Filled, Fields, SoldFrom

LEMMA TakeTyped ==
  ASSUME NEW lots \in [Days -> Nat], NEW q \in Nat
  PROVE  Take(lots, q) \in [Days -> Nat]
<1> DEFINE before(e) == Sum(lots, {x \in Days : x < e})
<1>1. \A e \in Days : before(e) \in Nat
  <2> TAKE e \in Days
  <2>1. \A x \in Before(e) : lots[x] \in Nat
    BY DaysFinite
  <2>2. Sum(lots, Before(e)) \in Nat
    BY <2>1, DaysFinite, SumNat
  <2> QED
    BY <2>2 DEF Before
<1>2. Take(lots, q) = [e \in Days |-> IF e < day THEN lots[e] - Least(lots[e], Greatest(0, q - before(e))) ELSE lots[e]]
  BY DEF Take
<1>3. \A e \in Days : lots[e] \in Nat /\ lots[e] - Least(lots[e], Greatest(0, q - before(e))) \in Nat
  <2> HIDE DEF before
  <2> QED
    BY <1>1 DEF Least, Greatest
<1> HIDE DEF before
<1> QED
  BY <1>2, <1>3

\* A sound record of the tables has the types of its other fields to prove.
LEMMA SoundIsDatabase ==
  ASSUME NEW d, d = [f \in Fields |-> d[f]], NEW t, Sound(d, t),
         d.cash \in Nat, d.judged \in SUBSET Signals, d.lots \in [Plans -> [Days -> Nat]],
         d.latest \in [Symbols -> 0..Close + 1], d.mark \in [Symbols -> Marks],
         d.peak \in Nat, d.basis \in [Days -> Nat \cup {None}],
         d.nav \in [Days -> [nav : Nat \cup {None}, cash : Nat] \cup {None}]
  PROVE  d \in Databases
<1>1. /\ d.order \in [Signals -> Orders] /\ d.placed \in Nat
      /\ d.sessions \in [Sessions -> (SUBSET Signals) \cup {None}]
      /\ d.rows \in SUBSET (Sessions \X Signals)
      /\ d.bought \in [Plans -> [Days -> Nat]] /\ d.sold \in [Plans -> [Days -> Nat]]
  BY DEF Sound, OrdersSound, SessionsSound, DaysSound
<1> QED
  BY <1>1, IsDatabase

LEMMA FilledTyped ==
  ASSUME NEW d \in Databases, day \in Days, Sound(d, day), d.nav[day] = None,
         NEW k \in Signals, Live(d.order[k]), d.order[k].day = day,
         NEW q \in 1..d.order[k].remaining, NEW price \in Nat,
         SideOf[k] = "BUY" => price <= CapOf[k],
         NEW c, c = Filled(d, k, q, price), c.cash >= 0
  PROVE  c \in Databases
<1> DEFINE p == PlanOf[k]
<1>1. Sound(c, day)
  BY FillKeeps
<1>0. q \in Int
  <2>1. d.order[k].remaining \in Nat
    BY DatabaseIs DEF Orders
  <2> QED
    BY <2>1
<1>2. /\ c = [f \in Fields |-> c[f]]
      /\ c.judged = d.judged /\ c.latest = d.latest /\ c.mark = d.mark
      /\ c.peak = d.peak /\ c.basis = d.basis /\ c.nav = d.nav
  BY <1>0, FilledIs DEF Fields
<1>3. /\ d.cash \in Nat /\ d.order[k] \in Orders /\ d.lots \in [Plans -> [Days -> Nat]]
      /\ p \in Plans /\ q \in Nat /\ d.order[k].notional \in Nat /\ d.order[k].fees \in Int
  BY DatabaseIs, LedgerAssumption DEF Orders
<1>4. price * q \in Nat /\ FeeDue(k, d.order[k], price * q) \in Int
  <2>1. price * q \in Nat
    BY <1>3
  <2>2. d.order[k].notional + price * q \in Nat
    BY <1>3, <2>1
  <2>3. Fees(k, d.order[k].notional + price * q) \in Nat
    BY <2>2, FeesGrow
  <2> QED
    BY <1>3, <2>1, <2>3 DEF FeeDue
<1>5. c.cash \in Nat
  <2> DEFINE gross == price * q
             due == FeeDue(k, d.order[k], gross)
  <2>1. c.cash = d.cash - gross - due \/ c.cash = d.cash + gross - due
    <3>1. BoughtInto(c, d, k, q, price) \/ SoldFrom(c, d, k, q, price)
      BY <1>0, FilledBuys, FilledSells
    <3> QED
      BY <3>1 DEF BoughtInto, SoldFrom
  <2>2. gross \in Nat /\ due \in Int /\ d.cash \in Nat /\ c.cash >= 0
    BY <1>3, <1>4
  <2> HIDE DEF gross, due
  <2> QED
    BY <2>1, <2>2
<1>6. c.lots \in [Plans -> [Days -> Nat]]
  <2>1. CASE SideOf[k] = "BUY"
    <3>1. c.lots = [d.lots EXCEPT ![p][day] = @ + q]
      <4>1. BoughtInto(c, d, k, q, price)
        BY <1>0, <2>1, FilledBuys
      <4> QED
        BY <4>1 DEF BoughtInto
    <3>2. d.lots[p][day] + q \in Nat
      BY <1>3
    <3> HIDE DEF p
    <3> QED
      BY <1>3, <3>1, <3>2
  <2>2. CASE SideOf[k] # "BUY"
    <3>1. c.lots = [d.lots EXCEPT ![p] = Take(d.lots[p], q)]
      <4>1. SoldFrom(c, d, k, q, price)
        BY <1>0, <2>2, FilledSells
      <4> QED
        BY <4>1 DEF SoldFrom
    <3>2. Take(d.lots[p], q) \in [Days -> Nat]
      BY <1>3, TakeTyped
    <3> HIDE DEF p
    <3> QED
      BY <1>3, <3>1, <3>2
  <2> QED
    BY <2>1, <2>2
<1> QED
  BY <1>1, <1>2, <1>5, <1>6, DatabaseIs, SoundIsDatabase

LEMMA InitTyped == Init => TypeOK
<1> SUFFICES ASSUME Init PROVE TypeOK
  OBVIOUS
<1>1. db = InitDb /\ day = 1 /\ minute = 0 /\ tx = None /\ Inv
  BY InitSound DEF Init
<1>2. /\ db = [f \in Fields |-> db[f]]
      /\ db.cash = Capital /\ db.judged = {} /\ db.peak = Capital
      /\ db.lots = [p \in Plans |-> [e \in Days |-> 0]]
      /\ db.latest = [s \in Symbols |-> 0] /\ db.mark = [s \in Symbols |-> None]
      /\ db.basis = [e \in Days |-> None] /\ db.nav = [e \in Days |-> None]
  BY <1>1 DEF InitDb, Fields
<1>3. Sound(db, day) /\ Capital \in Nat /\ Close \in Nat
  BY <1>1, LedgerAssumption DEF Inv
<1>4. /\ db.lots \in [Plans -> [Days -> Nat]] /\ db.latest \in [Symbols -> 0..Close + 1]
      /\ db.mark \in [Symbols -> Marks] /\ db.basis \in [Days -> Nat \cup {None}]
      /\ db.nav \in [Days -> [nav : Nat \cup {None}, cash : Nat] \cup {None}]
  <2>1. [e \in Days |-> 0] \in [Days -> Nat] /\ 0 \in 0..Close + 1 /\ None \in Marks
    BY <1>3 DEF Marks
  <2> QED
    BY <1>2, <2>1
<1>5. db \in Databases
  BY <1>2, <1>3, <1>4, SoundIsDatabase
<1> QED
  BY <1>1, <1>3, <1>5 DEF TypeOK

LEMMA TxTyped ==
  ASSUME tx \in Transactions
  PROVE  /\ tx = [db |-> tx.db, minute |-> tx.minute, bar |-> tx.bar, left |-> tx.left, todo |-> tx.todo]
         /\ tx.db \in Databases /\ tx.minute \in 0..Close + 1 /\ tx.bar \in Shapes
         /\ tx.left \in Nat /\ tx.todo \in SUBSET Signals
BY DEF Transactions

\* No transaction is what no transaction has as its record.
Typed == TypeOK /\ (~Idle => tx \in Transactions)

LEMMA TypedIs == TypeOK => Typed
BY DEF TypeOK, Typed, Idle, Transactions

LEMMA FillPriceNat ==
  ASSUME NEW k \in Signals, NEW b \in Shapes
  PROVE  FillPrice(k, b) \in Nat /\ (SideOf[k] = "BUY" => FillPrice(k, b) <= CapOf[k])
<1>1. b.vwap \in Nat /\ CapOf[k] \in Nat
  BY LedgerAssumption
<1> QED
  BY <1>1 DEF FillPrice, Least, Greatest

\* What a fill of the bar is: an open order of the day, at most what is left of it
\* and of the minute, shares that may be sold, and cash that is there.
LEMMA FillIs ==
  ASSUME Inv, TypeOK, NEW k \in Signals, FillNext(k)
  PROVE  \E q \in 1..tx.db.order[k].remaining :
           /\ q <= tx.left /\ Live(tx.db.order[k]) /\ tx.db.order[k].day = day
           /\ SideOf[k] # "BUY" => q <= Sellable(tx.db, PlanOf[k])
           /\ Filled(tx.db, k, q, FillPrice(k, tx.bar)).cash >= 0
           /\ tx' = [tx EXCEPT !.db = Filled(tx.db, k, q, FillPrice(k, tx.bar)), !.todo = @ \ {k}, !.left = @ - q]
<1>1. TransactionSound /\ k \in tx.todo /\ tx.db.order[k].day = day /\ Live(tx.db.order[k])
  BY DEF Inv, FillNext, Turn, TransactionSound
<1>2. PICK q \in Largest(Fillable(tx.db, k, tx.bar, tx.left)) :
        /\ Filled(tx.db, k, q, FillPrice(k, tx.bar)).cash >= 0
        /\ tx' = [tx EXCEPT !.db = Filled(tx.db, k, q, FillPrice(k, tx.bar)), !.todo = @ \ {k}, !.left = @ - q]
  BY DEF FillNext
<1>3. /\ q \in 1..Least(tx.db.order[k].remaining, tx.left)
      /\ SideOf[k] # "BUY" => q <= Sellable(tx.db, PlanOf[k])
  BY <1>2 DEF Largest, Fillable, WithinMinute
<1>4. tx.db.order[k].remaining \in Int /\ tx.left \in Int
  BY <1>1 DEF TransactionSound, Sound, OrdersSound, Orders
<1>5. q \in 1..tx.db.order[k].remaining /\ q <= tx.left
  BY <1>3, <1>4 DEF Least
<1> QED
  BY <1>1, <1>2, <1>3, <1>5

LEMMA TypesStep ==
  ASSUME Inv, TypeOK, [Next]_vars
  PROVE  TypeOK'
<1>1. /\ db \in Databases /\ day \in Nat /\ minute \in 0..Close + 2 /\ day \in Days
      /\ ~Idle => tx \in Transactions
      /\ Close \in Nat /\ Sound(db, day)
  BY LedgerAssumption, TypedIs DEF TypeOK, Typed, Inv
<1>2. Inv' /\ day' \in Nat /\ Sound(db', day')
  BY InvStep DEF Inv, Days
<1>3. ASSUME db' \in Databases, minute' = minute, Idle' PROVE TypeOK'
  BY <1>1, <1>2, <1>3 DEF TypeOK, Idle
<1>4. ASSUME db' = db, minute' = minute, tx' \in Transactions PROVE TypeOK'
  BY <1>1, <1>2, <1>4 DEF TypeOK, Transactions
<1>5. CASE UNCHANGED vars
  BY <1>1, <1>2, <1>5 DEF vars, TypeOK
<1>6. ASSUME NEW k \in Signals, Admit(k) PROVE TypeOK'
  <2>1. /\ db' = [x \in Fields |-> db'[x]]
        /\ \A x \in Fields \ {"order", "placed"} : db'[x] = db[x]
    BY <1>1, <1>6, DatabaseIs DEF Admit, Fields
  <2>2. /\ db'.cash = db.cash /\ db'.judged = db.judged /\ db'.lots = db.lots /\ db'.latest = db.latest
        /\ db'.mark = db.mark /\ db'.peak = db.peak /\ db'.basis = db.basis /\ db'.nav = db.nav
    BY <2>1 DEF Fields
  <2>3. db' \in Databases
    BY <1>1, <1>2, <2>1, <2>2, DatabaseIs, SoundIsDatabase
  <2> QED
    BY <1>3, <1>6, <2>3 DEF Admit, Idle
<1>7. ASSUME NEW k \in Signals, Judge(k) PROVE TypeOK'
  <2>1. PICK S : db' = [Cancelled(db, S) EXCEPT !.judged = @ \cup {k}]
    BY <1>7 DEF Judge
  <2>2. PICK c : c = Cancelled(db, S) /\ c \in Databases
    BY <1>1, CancelledIs
  <2>3. /\ db' = [x \in Fields |-> db'[x]] /\ db'.judged = c.judged \cup {k}
        /\ \A x \in Fields \ {"judged"} : db'[x] = c[x]
    BY <2>1, <2>2, DatabaseIs DEF Fields
  <2>4. db' \in Databases
    BY <2>2, <2>3, DatabaseIs, IsDatabase DEF Fields
  <2> QED
    BY <1>3, <1>7, <2>4 DEF Judge, Idle
<1>8. ASSUME NEW k \in Signals, CancelOrder(k) PROVE TypeOK'
  <2>1. db' \in Databases
    BY <1>1, <1>8, CancelledIs DEF CancelOrder
  <2> QED
    BY <1>3, <1>8, <2>1 DEF CancelOrder, Idle
<1>9. ASSUME NEW s \in Sessions, NEW P \in Scopes, CancelSession(s, P) PROVE TypeOK'
  <2>1. PICK S : db' = [Cancelled(db, S) EXCEPT !.sessions[s] = S, !.rows = @ \cup {<<s, k>> : k \in S}]
    BY <1>9 DEF CancelSession
  <2>2. PICK c : c = Cancelled(db, S) /\ c \in Databases
    BY <1>1, CancelledIs
  <2>3. /\ db' = [x \in Fields |-> db'[x]]
        /\ \A x \in Fields \ {"sessions", "rows"} : db'[x] = c[x]
    BY <2>1, <2>2, DatabaseIs DEF Fields
  <2>4. db' \in Databases
    BY <1>2, <2>2, <2>3, DatabaseIs, SoundIsDatabase DEF Fields
  <2> QED
    BY <1>3, <1>9, <2>4 DEF CancelSession, Idle
<1>10. ASSUME NEW s \in Symbols, NEW b \in Shapes, BeginBar(s, b) PROVE TypeOK'
  <2> DEFINE m == DueBar
             new == IF b.close > 0 /\ b.volume > 0 THEN [price |-> b.close, day |-> day, minute |-> m] ELSE db.mark[s]
             d == [db EXCEPT !.latest[s] = m, !.mark[s] = new]
  <2>1. m \in 0..Close + 1
    BY <1>1 DEF DueBar, Least
  <2>2. b.close \in Nat /\ b.volume \in Nat /\ Participation \in Nat
    BY LedgerAssumption
  <2>3. new \in Marks
    BY <1>1, <2>1, <2>2, DatabaseIs DEF Marks
  <2>4. /\ tx' = [db |-> d, minute |-> m, bar |-> b, left |-> (b.volume * Participation) \div 100,
                  todo |-> {k \in Signals : IsOpenOf(s, k)}]
        /\ db' = db /\ minute' = minute
    BY <1>10 DEF BeginBar
  <2>5. (b.volume * Participation) \div 100 \in Nat
    <3>1. b.volume * Participation \in Nat
      BY <2>2
    <3> DEFINE n == b.volume * Participation
    <3> HIDE DEF n
    <3>2. n \div 100 \in Nat
      BY <3>1 DEF n
    <3> QED
      BY <3>2 DEF n
  <2> HIDE DEF m, new
  <2>6. /\ d = [x \in Fields |-> d[x]] /\ d.latest = [db.latest EXCEPT ![s] = m]
        /\ d.mark = [db.mark EXCEPT ![s] = new]
        /\ \A x \in Fields \ {"latest", "mark"} : d[x] = db[x]
    BY <1>1, DatabaseIs DEF Fields
  <2> HIDE DEF d
  <2>7. d.latest \in [Symbols -> 0..Close + 1] /\ d.mark \in [Symbols -> Marks]
    BY <1>1, <2>1, <2>3, <2>6, DatabaseIs
  <2>8. d \in Databases
    BY <1>1, <2>6, <2>7, DatabaseIs, IsDatabase DEF Fields
  <2>9. tx' \in Transactions
    BY <2>1, <2>4, <2>5, <2>8 DEF Transactions
  <2> QED
    BY <1>4, <2>4, <2>9
<1>11. ASSUME NEW k \in Signals, ExpireNext(k) PROVE TypeOK'
  <2>1. tx \in Transactions /\ tx' = [tx EXCEPT !.db = Cancelled(tx.db, {k}), !.todo = tx.todo \ {k}]
        /\ db' = db /\ minute' = minute
    BY <1>1, <1>11 DEF ExpireNext
  <2>2. PICK c : c = Cancelled(tx.db, {k}) /\ c \in Databases
    BY <2>1, TxTyped, CancelledIs
  <2>3. tx' = [db |-> c, minute |-> tx.minute, bar |-> tx.bar, left |-> tx.left, todo |-> tx.todo \ {k}]
    BY <2>1, <2>2, TxTyped
  <2>4. tx' \in Transactions
    BY <2>1, <2>2, <2>3, TxTyped DEF Transactions
  <2> QED
    BY <1>4, <2>1, <2>4
<1>12. ASSUME NEW k \in Signals, SkipNext(k) PROVE TypeOK'
  <2>1. tx \in Transactions /\ tx' = [tx EXCEPT !.todo = tx.todo \ {k}] /\ db' = db /\ minute' = minute
    BY <1>1, <1>12 DEF SkipNext
  <2>2. tx' = [db |-> tx.db, minute |-> tx.minute, bar |-> tx.bar, left |-> tx.left, todo |-> tx.todo \ {k}]
    BY <2>1, TxTyped
  <2>3. tx' \in Transactions
    BY <2>1, <2>2, TxTyped DEF Transactions
  <2> QED
    BY <1>4, <2>1, <2>3
<1>13. ASSUME NEW k \in Signals, FillNext(k) PROVE TypeOK'
  <2>1. tx \in Transactions /\ db' = db /\ minute' = minute /\ TransactionSound
    BY <1>1, <1>13 DEF FillNext, Inv
  <2>2. PICK q \in 1..tx.db.order[k].remaining :
          /\ q <= tx.left /\ Live(tx.db.order[k]) /\ tx.db.order[k].day = day
          /\ Filled(tx.db, k, q, FillPrice(k, tx.bar)).cash >= 0
          /\ tx' = [tx EXCEPT !.db = Filled(tx.db, k, q, FillPrice(k, tx.bar)), !.todo = @ \ {k}, !.left = @ - q]
    BY <1>13, FillIs
  <2>3. PICK c, price : price = FillPrice(k, tx.bar) /\ c = Filled(tx.db, k, q, price)
    OBVIOUS
  <2>4. c \in Databases
    <3>1. price \in Nat /\ (SideOf[k] = "BUY" => price <= CapOf[k]) /\ tx.db \in Databases
      BY <2>1, <2>3, TxTyped, FillPriceNat
    <3>2. Sound(tx.db, day) /\ tx.db.nav[day] = None /\ c.cash >= 0
      BY <2>1, <2>2, <2>3 DEF TransactionSound
    <3> QED
      BY <1>1, <2>2, <2>3, <3>1, <3>2, FilledTyped
  <2>5. tx' = [db |-> c, minute |-> tx.minute, bar |-> tx.bar, left |-> tx.left - q, todo |-> tx.todo \ {k}]
    BY <2>1, <2>2, <2>3, TxTyped
  <2>6. tx.left - q \in Nat
    BY <2>1, <2>2, TxTyped, DatabaseIs DEF Orders
  <2>7. tx' \in Transactions
    BY <2>1, <2>4, <2>5, <2>6, TxTyped DEF Transactions
  <2> QED
    BY <1>4, <2>1, <2>7
<1>14. CASE CommitBar
  <2>0. PICK d \in Databases : d = tx.db
    BY <1>1, <1>14, TxTyped DEF CommitBar
  <2> DEFINE top == IF PeakDue(d, tx.minute) THEN Greatest(d.peak, Nav(d)) ELSE d.peak
  <2>1. db' = [d EXCEPT !.peak = top]
    BY <1>14, <2>0 DEF CommitBar
  <2>2. top \in Nat
    <3>1. Marked(d, tx.minute) => Nav(d) \in Nat
      BY <2>1, NavKnown
    <3> QED
      BY <2>1, <3>1, DatabaseIs DEF PeakDue, Greatest
  <2> HIDE DEF top
  <2>3. /\ db' = [x \in Fields |-> db'[x]] /\ db'.peak = top
        /\ \A x \in Fields \ {"peak"} : db'[x] = d[x]
    BY <2>1, DatabaseIs DEF Fields
  <2>4. db' \in Databases
    BY <2>0, <2>2, <2>3, DatabaseIs, IsDatabase DEF Fields
  <2> QED
    BY <1>3, <1>14, <2>4 DEF CommitBar, Idle
<1>15. CASE Rollback
  BY <1>1, <1>3, <1>15 DEF Rollback, Idle
<1>16. CASE OpenRiskDay
  <2> DEFINE n == Nav(db)
  <2>1. db' = [db EXCEPT !.basis[day] = n] /\ n \in Nat
    BY <1>1, <1>16, NavKnown DEF OpenRiskDay
  <2> HIDE DEF n
  <2>2. /\ db' = [x \in Fields |-> db'[x]] /\ db'.basis = [db.basis EXCEPT ![day] = n]
        /\ \A x \in Fields \ {"basis"} : db'[x] = db[x]
    BY <1>1, <2>1, DatabaseIs DEF Fields
  <2>3. db'.basis \in [Days -> Nat \cup {None}]
    BY <1>1, <2>1, <2>2, DatabaseIs
  <2>4. db' \in Databases
    BY <1>1, <2>2, <2>3, DatabaseIs, IsDatabase DEF Fields
  <2> QED
    BY <1>3, <1>16, <2>4 DEF OpenRiskDay, Idle
<1>17. CASE Settle
  <2>1. PICK c : c = Cancelled(db, {k \in Signals : Expires(k)}) /\ c \in Databases
    BY <1>1, CancelledIs
  <2> DEFINE row == [nav |-> IF Marked(c, Close + 1) THEN Nav(c) ELSE None, cash |-> c.cash]
  <2>2. db' = [c EXCEPT !.nav[day] = row]
    BY <1>17, <2>1 DEF Settle
  <2>3. row \in [nav : Nat \cup {None}, cash : Nat]
    <3>1. Marked(c, Close + 1) => Nav(c) \in Nat
      BY <2>1, NavKnown
    <3> QED
      BY <2>1, <3>1, DatabaseIs
  <2> HIDE DEF row
  <2>4. /\ db' = [x \in Fields |-> db'[x]] /\ db'.nav = [c.nav EXCEPT ![day] = row]
        /\ \A x \in Fields \ {"nav"} : db'[x] = c[x]
    BY <2>1, <2>2, DatabaseIs DEF Fields
  <2>5. db'.nav \in [Days -> [nav : Nat \cup {None}, cash : Nat] \cup {None}]
    <3>1. c.nav \in [Days -> [nav : Nat \cup {None}, cash : Nat] \cup {None}]
      BY <2>1, DatabaseIs
    <3> QED
      BY <2>3, <2>4, <3>1
  <2>6. db' \in Databases
    BY <2>1, <2>4, <2>5, DatabaseIs, IsDatabase DEF Fields
  <2> QED
    BY <1>3, <1>17, <2>6 DEF Settle, Idle
<1>18. CASE Tick
  <2>1. minute' = minute + 1 /\ minute < Close + 2 /\ db' = db /\ tx' = tx
    BY <1>18 DEF Tick
  <2>2. minute' \in 0..Close + 2
    BY <1>1, <2>1
  <2> QED
    BY <1>1, <1>2, <2>1, <2>2 DEF TypeOK
<1>19. CASE NextDay
  <2>1. db' = [db EXCEPT !.latest = [s \in Symbols |-> 0]] /\ minute' = 0 /\ tx' = tx
    BY <1>19 DEF NextDay
  <2>2. /\ db' = [x \in Fields |-> db'[x]] /\ db'.latest = [s \in Symbols |-> 0]
        /\ \A x \in Fields \ {"latest"} : db'[x] = db[x]
    BY <1>1, <2>1, DatabaseIs DEF Fields
  <2>3. db'.latest \in [Symbols -> 0..Close + 1]
    <3>1. 0 \in 0..Close + 1
      BY <1>1
    <3> QED
      BY <2>2, <3>1
  <2>4. db' \in Databases
    BY <1>1, <2>2, <2>3, DatabaseIs, IsDatabase DEF Fields
  <2> QED
    BY <1>1, <1>2, <2>1, <2>4 DEF TypeOK
<1> QED
  BY <1>5, <1>6, <1>7, <1>8, <1>9, <1>10, <1>11, <1>12, <1>13, <1>14, <1>15, <1>16, <1>17, <1>18, <1>19 DEF Next

LEMMA Types == Spec => []TypeOK
<1>1. Inv /\ TypeOK /\ [Next]_vars => TypeOK'
  BY TypesStep
<1> QED
  BY <1>1, InitTyped, Invariant, PTL DEF Spec

-----------------------------------------------------------------------------
(* What a step does to the cash, the orders and the lots: a cancellation,  *)
(* an admission or a fill, of the committed tables or of the copy of the   *)
(* transaction, or nothing.                                                *)

SameShares(c, d) == c.lots = d.lots /\ c.bought = d.bought /\ c.sold = d.sold

Alike(c, d) == c.cash = d.cash /\ c.order = d.order /\ SameShares(c, d)

CancelMove(c, d) ==
    /\ c.cash = d.cash /\ SameShares(c, d)
    /\ \A k \in Signals : c.order[k] = d.order[k] \/ ~Live(c.order[k])

AdmitMove(c, d, k) ==
    /\ c.cash = d.cash /\ SameShares(c, d)
    /\ ~Live(d.order[k]) /\ \A j \in Signals \ {k} : c.order[j] = d.order[j]
    /\ Live(c.order[k]) /\ c.order[k].remaining = QtyOf[k]
    /\ SideOf[k] = "SELL" => QtyOf[k] <= Sellable(d, PlanOf[k]) - ReservedShares(d, PlanOf[k])
    /\ Reserved(c, {}) <= c.cash

FillMove(c, d, k, q, b) ==
    /\ Live(d.order[k]) /\ q \in 1..d.order[k].remaining
    /\ c = Filled(d, k, q, FillPrice(k, b)) /\ c.cash >= 0
    /\ SideOf[k] # "BUY" => q <= Sellable(d, PlanOf[k])

\* All but a fill.
Calm(c, d) ==
    \/ Alike(c, d) \/ CancelMove(c, d)
    \/ \E k \in Signals : AdmitMove(c, d, k)

Moves(c, d) == Calm(c, d) \/ \E k \in Signals, q \in Nat, b \in Shapes : FillMove(c, d, k, q, b)

FillsNext == \E k \in Signals : FillNext(k) /\ \E q \in Nat, b \in Shapes : FillMove(tx'.db, tx.db, k, q, b)

LEMMA CancelIsMove ==
  ASSUME NEW d \in Databases, NEW S, NEW c, c = Cancelled(d, S), NEW e,
         e.cash = c.cash, e.order = c.order, SameShares(e, c)
  PROVE  Calm(e, d)
<1>1. /\ \A f \in Fields \ {"order"} : c[f] = d[f]
      /\ \A k \in Signals : IF k \in S THEN c.order[k].status = "CANCELLED" ELSE c.order[k] = d.order[k]
  BY CancelledIs
<1>2. CancelMove(e, d)
  BY <1>1 DEF CancelMove, SameShares, Live, Fields
<1> QED
  BY <1>2 DEF Calm

LEMMA StepIsMove ==
  ASSUME Inv, TypeOK, [Next]_vars
  PROVE  \/ day \in Days /\ day' = day + 1 /\ day' \in Days /\ Alike(db', db) /\ Idle'
         \/ /\ day' = day
            /\ Calm(db', db) \/ (~Idle /\ Alike(db', tx.db))
            /\ Idle' \/ (Idle /\ Alike(tx'.db, db)) \/ (~Idle /\ Calm(tx'.db, tx.db)) \/ (~Idle /\ FillsNext)
<1> DEFINE Goal == \/ day \in Days /\ day' = day + 1 /\ day' \in Days /\ Alike(db', db) /\ Idle'
                   \/ /\ day' = day
                      /\ Calm(db', db) \/ (~Idle /\ Alike(db', tx.db))
                      /\ Idle' \/ (Idle /\ Alike(tx'.db, db)) \/ (~Idle /\ Calm(tx'.db, tx.db)) \/ (~Idle /\ FillsNext)
<1>1. /\ db \in Databases /\ (~Idle => tx \in Transactions)
      /\ day \in Days
  BY TypedIs DEF TypeOK, Typed, Inv
<1>2. Calm(db, db) /\ (~Idle => Calm(tx.db, tx.db))
  BY DEF Calm, Alike, SameShares
<1>3. ASSUME day' = day, Calm(db', db), Idle' PROVE Goal
  BY <1>3
<1>4. ASSUME day' = day, db' = db, ~Idle, Calm(tx'.db, tx.db) PROVE Goal
  BY <1>2, <1>4
<1>5. ASSUME Alike(db', db) PROVE Calm(db', db)
  BY <1>5 DEF Calm
<1> SUFFICES Goal
  OBVIOUS
<1> HIDE DEF Goal
<1>6. CASE UNCHANGED vars
  BY <1>2, <1>3, <1>4, <1>6 DEF vars, Idle
<1>7. ASSUME NEW k \in Signals, Admit(k) PROVE Goal
  <2> DEFINE o == [status |-> "OPEN", rowid |-> db.placed + 1, day |-> day, at |-> minute,
                   remaining |-> QtyOf[k], notional |-> 0, fees |-> 0]
             d == [db EXCEPT !.order[k] = o, !.placed = @ + 1]
  <2>1. /\ db' = d /\ Reserved(d, {}) <= d.cash /\ day' = day /\ Idle'
        /\ db.order[k].status = "none"
        /\ SideOf[k] = "SELL" => QtyOf[k] <= Sellable(db, PlanOf[k]) - ReservedShares(db, PlanOf[k])
    BY <1>7 DEF Admit, Fresh, SharesFree, Idle
  <2>2. /\ \A f \in Fields \ {"order", "placed"} : d[f] = db[f]
        /\ d.order = [db.order EXCEPT ![k] = o]
    BY <1>1, DatabaseIs DEF Fields
  <2>3. o.status = "OPEN" /\ o.remaining = QtyOf[k]
    OBVIOUS
  <2> HIDE DEF d, o
  <2>4. d.order[k] = o /\ \A j \in Signals \ {k} : d.order[j] = db.order[j]
    BY <1>1, <2>2, DatabaseIs
  <2>5. d.cash = db.cash /\ SameShares(d, db)
    BY <2>2 DEF Fields, SameShares
  <2>6. AdmitMove(d, db, k)
    BY <2>1, <2>3, <2>4, <2>5 DEF AdmitMove, Live
  <2>7. Calm(db', db)
    BY <2>1, <2>6 DEF Calm
  <2> QED
    BY <1>3, <2>1, <2>7
<1>8. ASSUME NEW k \in Signals, Judge(k) PROVE Goal
  <2>1. PICK S : db' = [Cancelled(db, S) EXCEPT !.judged = @ \cup {k}]
    BY <1>8 DEF Judge
  <2>2. PICK c : c = Cancelled(db, S) /\ c \in Databases
    BY <1>1, CancelledIs
  <2>3. db'.cash = c.cash /\ db'.order = c.order /\ SameShares(db', c)
    BY <2>1, <2>2, DatabaseIs DEF Fields, SameShares
  <2>4. Calm(db', db)
    BY <1>1, <2>2, <2>3, CancelIsMove
  <2> QED
    BY <1>3, <1>8, <2>4 DEF Judge, Idle
<1>9. ASSUME NEW k \in Signals, CancelOrder(k) PROVE Goal
  <2>1. Calm(db', db)
    BY <1>1, <1>9, CancelIsMove DEF CancelOrder, SameShares
  <2> QED
    BY <1>3, <1>9, <2>1 DEF CancelOrder, Idle
<1>10. ASSUME NEW s \in Sessions, NEW P \in Scopes, CancelSession(s, P) PROVE Goal
  <2>1. PICK S : db' = [Cancelled(db, S) EXCEPT !.sessions[s] = S, !.rows = @ \cup {<<s, k>> : k \in S}]
    BY <1>10 DEF CancelSession
  <2>2. PICK c : c = Cancelled(db, S) /\ c \in Databases
    BY <1>1, CancelledIs
  <2>3. db'.cash = c.cash /\ db'.order = c.order /\ SameShares(db', c)
    BY <2>1, <2>2, DatabaseIs DEF Fields, SameShares
  <2>4. Calm(db', db)
    BY <1>1, <2>2, <2>3, CancelIsMove
  <2> QED
    BY <1>3, <1>10, <2>4 DEF CancelSession, Idle
<1>11. ASSUME NEW s \in Symbols, NEW b \in Shapes, BeginBar(s, b) PROVE Goal
  <2>1. PICK m, x : /\ tx'.db = [db EXCEPT !.latest[s] = m, !.mark[s] = x]
                    /\ db' = db /\ day' = day /\ Idle
    BY <1>11 DEF BeginBar
  <2>2. Alike(tx'.db, db)
    BY <1>1, <2>1, DatabaseIs DEF Alike, SameShares, Fields
  <2> QED
    BY <1>2, <2>1, <2>2 DEF Goal
<1>12. ASSUME NEW k \in Signals, ExpireNext(k) PROVE Goal
  <2>1. tx'.db = Cancelled(tx.db, {k}) /\ db' = db /\ day' = day /\ ~Idle /\ tx.db \in Databases
    BY <1>1, <1>12, TxTyped DEF ExpireNext
  <2>2. Calm(tx'.db, tx.db)
    BY <2>1, CancelIsMove DEF SameShares
  <2> QED
    BY <1>4, <2>1, <2>2
<1>13. ASSUME NEW k \in Signals, SkipNext(k) PROVE Goal
  <2>1. tx'.db = tx.db /\ db' = db /\ day' = day /\ ~Idle
    BY <1>1, <1>13, TxTyped DEF SkipNext
  <2>2. Calm(tx'.db, tx.db)
    BY <1>2, <2>1
  <2> QED
    BY <1>4, <2>1, <2>2
<1>14. ASSUME NEW k \in Signals, FillNext(k) PROVE Goal
  <2>1. tx \in Transactions /\ db' = db /\ day' = day /\ ~Idle
    BY <1>1, <1>14 DEF FillNext
  <2>2. PICK q \in 1..tx.db.order[k].remaining :
          /\ Live(tx.db.order[k]) /\ tx.db.order[k].day = day
          /\ SideOf[k] # "BUY" => q <= Sellable(tx.db, PlanOf[k])
          /\ Filled(tx.db, k, q, FillPrice(k, tx.bar)).cash >= 0
          /\ tx' = [tx EXCEPT !.db = Filled(tx.db, k, q, FillPrice(k, tx.bar)), !.todo = @ \ {k}, !.left = @ - q]
    BY <1>14, FillIs
  <2>3. tx.bar \in Shapes /\ q \in Nat
    <3>1. tx.db.order[k].remaining \in Nat
      BY <2>1, TxTyped, DatabaseIs DEF Orders
    <3> QED
      BY <2>1, <3>1, TxTyped
  <2>4. tx'.db = Filled(tx.db, k, q, FillPrice(k, tx.bar))
    BY <2>1, <2>2, TxTyped
  <2>5. FillMove(tx'.db, tx.db, k, q, tx.bar)
    BY <2>2, <2>4 DEF FillMove
  <2>6. FillsNext
    BY <1>14, <2>3, <2>5 DEF FillsNext
  <2> QED
    BY <1>2, <2>1, <2>6 DEF Goal
<1>15. CASE CommitBar
  <2>1. PICK x : db' = [tx.db EXCEPT !.peak = x]
    BY <1>15 DEF CommitBar
  <2>2. tx.db \in Databases
    BY <1>1, <1>15, TxTyped DEF CommitBar
  <2>3. Alike(db', tx.db)
    BY <2>1, <2>2, DatabaseIs DEF Alike, SameShares, Fields
  <2> QED
    BY <1>15, <2>3 DEF CommitBar, Goal, Idle
<1>16. CASE Rollback
  BY <1>2, <1>3, <1>16 DEF Rollback, Idle
<1>17. CASE OpenRiskDay
  <2>1. PICK x : db' = [db EXCEPT !.basis[day] = x]
    BY <1>17 DEF OpenRiskDay
  <2>2. Alike(db', db)
    BY <1>1, <2>1, DatabaseIs DEF Alike, SameShares, Fields
  <2> QED
    BY <1>3, <1>5, <1>17, <2>2 DEF OpenRiskDay, Idle
<1>18. CASE Settle
  <2>1. PICK c : c = Cancelled(db, {k \in Signals : Expires(k)}) /\ c \in Databases
    BY <1>1, CancelledIs
  <2>2. PICK x : db' = [c EXCEPT !.nav[day] = x]
    BY <1>18, <2>1 DEF Settle
  <2>3. db'.cash = c.cash /\ db'.order = c.order /\ SameShares(db', c)
    BY <2>1, <2>2, DatabaseIs DEF SameShares, Fields
  <2>4. Calm(db', db)
    BY <1>1, <2>1, <2>3, CancelIsMove
  <2> QED
    BY <1>3, <1>18, <2>4 DEF Settle, Idle
<1>19. CASE Tick
  BY <1>2, <1>3, <1>19 DEF Tick, Idle
<1>20. CASE NextDay
  <2>1. PICK x : db' = [db EXCEPT !.latest = x]
    BY <1>20 DEF NextDay
  <2>2. Alike(db', db)
    BY <1>1, <2>1, DatabaseIs DEF Alike, SameShares, Fields
  <2>3. day' = day + 1 /\ day' \in Days /\ Idle'
    BY <1>1, <1>20, LedgerAssumption DEF NextDay, Days, Idle
  <2> QED
    BY <1>1, <2>2, <2>3 DEF Goal
<1>21. CASE \E k \in Signals : Admit(k) \/ Judge(k) \/ CancelOrder(k)
  BY <1>7, <1>8, <1>9, <1>21
<1>22. CASE \E k \in Signals : ExpireNext(k) \/ SkipNext(k) \/ FillNext(k)
  BY <1>12, <1>13, <1>14, <1>22
<1> QED
  BY <1>6, <1>10, <1>11, <1>15, <1>16, <1>17, <1>18, <1>19, <1>20, <1>21, <1>22 DEF Next
\* Induction over the numbers up to n, with a set for the predicate.
LEMMA UpTo ==
  ASSUME NEW n \in Nat, NEW G, 0 \in G, \A k \in 0 .. n - 1 : k \in G => k + 1 \in G
  PROVE  n \in G
<1> DEFINE B == {0 .. k : k \in {k \in 0 .. n : k \notin G}}
<1>1. SUFFICES ASSUME n \notin G PROVE FALSE
  OBVIOUS
<1>2. B \in SUBSET SUBSET (0 .. n) /\ B # {}
  BY <1>1
<1>3. IsFiniteSet(0 .. n)
  BY FS_Interval
<1>4. PICK T \in B : \A U \in B : U \subseteq T => U = T
  <2> DEFINE S == 0 .. n
  <2>1. IsFiniteSet(S) /\ B \in SUBSET SUBSET S /\ B # {}
    BY <1>2, <1>3
  <2> HIDE DEF B, S
  <2> QED BY <2>1, Smallest
<1>5. PICK k \in 0 .. n : k \notin G /\ T = 0 .. k
  BY <1>4
<1>6. k # 0 /\ k - 1 \in 0 .. n - 1
  BY <1>5
<1>7. k - 1 \notin G
  BY <1>5, <1>6
<1>8. 0 .. (k - 1) \in B /\ 0 .. (k - 1) \subseteq T
  BY <1>5, <1>6, <1>7
<1>9. k \in T /\ k \notin 0 .. (k - 1)
  BY <1>5
<1> QED
  BY <1>4, <1>8, <1>9

LEMMA BeforeNext ==
  /\ Before(0) = {} /\ Before(1) = {}
  /\ \A t \in Days : Before(t + 1) = Before(t) \cup {t} /\ t \notin Before(t)
BY DaysNat DEF Before

LEMMA SellableIs == \A d, p : Sellable(d, p) = Sum(d.lots[p], Before(day))
BY DEF Sellable, Before

\* The sum over the days before the next one.
LEMMA SumNext ==
  ASSUME NEW f \in [Days -> Nat], NEW t \in Days
  PROVE  /\ Sum(f, Before(t + 1)) = Sum(f, Before(t)) + f[t]
         /\ Sum(f, Before(t)) \in Nat /\ Sum(f, Before(t + 1)) \in Nat /\ f[t] \in Nat
<1>1. \A x \in Before(t) : f[x] \in Nat
  BY DaysFinite
<1>2. Sum(f, Before(t)) \in Nat
  BY <1>1, DaysFinite, SumNat
<1>3. Sum(f, Before(t) \cup {t}) = f[t] + Sum(f, Before(t))
  <2>1. \A x \in Before(t) \cup {t} : f[x] \in Int
    BY <1>1
  <2> QED
    BY <2>1, BeforeNext, DaysFinite, SumAdd
<1>4. Before(t + 1) = Before(t) \cup {t} /\ f[t] \in Nat
  BY BeforeNext
<1> QED
  BY <1>2, <1>3, <1>4

\* Earlier days count for no more than later ones.
LEMMA SumLater ==
  ASSUME NEW f \in [Days -> Nat], NEW s \in Int, NEW t \in Int, s <= t
  PROVE  Sum(f, Before(s)) <= Sum(f, Before(t)) /\ Sum(f, Before(s)) \in Nat /\ Sum(f, Before(t)) \in Nat
<1>1. Before(s) \subseteq Before(t) /\ \A x \in Before(t) : f[x] \in Nat
  BY DaysNat DEF Before
<1> QED
  BY <1>1, DaysFinite, SumFewer

\* First in, first out: a sale of q takes q of the shares that may be sold and
\* nothing else, and leaves no lot negative.
LEMMA TakeTakes ==
  ASSUME day \in Days, NEW lots \in [Days -> Nat], NEW q \in Nat, q <= Sum(lots, Before(day)),
         NEW new, new = Take(lots, q)
  PROVE  /\ new \in [Days -> Nat]
         /\ Sum(new, Before(day)) = Sum(lots, Before(day)) - q
         /\ \A x \in Days : x >= day => new[x] = lots[x]
<1> DEFINE E(n) == Sum(lots, Before(n))
           H(n) == Sum(new, Before(n))
           G == {n \in Nat : n <= day => H(n) = IF q <= E(n) THEN E(n) - q ELSE 0}
<1>1. new \in [Days -> Nat]
  BY TakeTyped
<1>2. new = [e \in Days |-> IF e < day THEN lots[e] - Least(lots[e], Greatest(0, q - E(e))) ELSE lots[e]]
  BY DEF Take, Before
<1>3. \A n \in Days : E(n) \in Nat /\ lots[n] \in Nat
  BY SumNext
<1>4. \A n \in Days : n < day =>
        new[n] = IF q <= E(n) THEN lots[n] ELSE IF lots[n] < q - E(n) THEN 0 ELSE lots[n] - (q - E(n))
  <2> HIDE DEF E
  <2> QED
    BY <1>2, <1>3 DEF Least, Greatest
<1>5. \A x \in Days : x >= day => new[x] = lots[x]
  <2> HIDE DEF E
  <2> QED
    BY <1>2, DaysNat
<1>6. 0 \in G
  <2>1. H(0) = 0 /\ E(0) = 0
    BY BeforeNext, SumEmpty
  <2> HIDE DEF E, H
  <2> QED
    BY <2>1
<1>7. ASSUME NEW n \in 0 .. day - 1, n \in G PROVE n + 1 \in G
  <2>1. day \in Nat /\ n \in Nat /\ n < day
    BY DaysNat
  <2>2. H(n) = IF q <= E(n) THEN E(n) - q ELSE 0
    BY <1>7, <2>1
  <2>3. H(n + 1) = IF q <= E(n + 1) THEN E(n + 1) - q ELSE 0
    <3>1. CASE n = 0
      <4>1. H(n + 1) = 0 /\ E(n + 1) = 0
        BY <3>1, BeforeNext, SumEmpty
      <4> HIDE DEF E, H
      <4> QED
        BY <4>1
    <3>2. CASE n # 0
      <4>1. n \in Days
        BY <2>1, <3>2, DaysNat
      <4>2. E(n + 1) = E(n) + lots[n] /\ H(n + 1) = H(n) + new[n]
        BY <1>1, <4>1, SumNext
      <4>3. E(n) \in Nat /\ lots[n] \in Nat
            /\ new[n] = IF q <= E(n) THEN lots[n] ELSE IF lots[n] < q - E(n) THEN 0 ELSE lots[n] - (q - E(n))
        BY <1>3, <1>4, <2>1, <4>1
      <4> HIDE DEF E, H
      <4> QED
        BY <2>2, <4>2, <4>3
    <3> QED
      BY <3>1, <3>2
  <2> QED
    BY <2>1, <2>3
<1>8. day \in G
  <2>1. day \in Nat
    BY DaysNat
  <2> HIDE DEF G
  <2> QED
    BY <1>6, <1>7, <2>1, UpTo
<1>9. H(day) = E(day) - q
  <2>1. day \in Nat
    BY DaysNat
  <2> QED
    BY <1>8, <2>1
<1> QED
  BY <1>1, <1>5, <1>9

LEMMA SumWithin ==
  ASSUME NEW B, IsFiniteSet(B), NEW A \in SUBSET B, NEW f, NEW g,
         \A x \in A : f[x] = g[x], \A x \in B : g[x] \in Nat
  PROVE  Sum(f, A) <= Sum(g, B) /\ Sum(f, A) \in Nat /\ Sum(g, B) \in Nat
<1>1. IsFiniteSet(A)
  BY FS_Subset
<1>2. Sum(f, A) = Sum(g, A)
  BY <1>1, SumSame
<1>3. Sum(g, A) <= Sum(g, B) /\ Sum(g, A) \in Nat /\ Sum(g, B) \in Nat
  BY SumFewer
<1> QED
  BY <1>2, <1>3

-----------------------------------------------------------------------------
(* The shares of one plan: its lots l, what was bought b and what was sold *)
(* s by day, up to the day t.  Of what was bought before t, the lots hold  *)
(* what has not been sold; the day's lot is what the day bought; later     *)
(* days have nothing; and no earlier day sold what was not there.          *)

Balanced(l, b, s, t) ==
    /\ Sum(l, Before(t)) + Sum(s, Before(t + 1)) = Sum(b, Before(t))
    /\ l[t] = b[t]
    /\ \A x \in Days : x > t => l[x] = 0 /\ b[x] = 0 /\ s[x] = 0
    /\ \A e \in Days : e < t => Sum(s, Before(e + 1)) <= Sum(b, Before(e))

\* The shares that the open SELL orders of a plan still ask for.
Remaining(d) == [k \in Signals |-> d.order[k].remaining]

Asked(d, p) == {k \in LiveOrders(d, "SELL") : PlanOf[k] = p}

SharesSound(d, t) ==
    \A p \in Plans :
        /\ Balanced(d.lots[p], d.bought[p], d.sold[p], t)
        /\ ReservedShares(d, p) <= Sum(d.lots[p], Before(t))

SameBefore(f, g, t) == \A x \in Days : x < t => f[x] = g[x]

LEMMA SumBeforeSame ==
  ASSUME NEW f, NEW g, NEW t, SameBefore(f, g, t)
  PROVE  Sum(f, Before(t)) = Sum(g, Before(t))
<1>1. \A x \in Before(t) : f[x] = g[x]
  BY DEF SameBefore, Before
<1> QED
  BY <1>1, DaysFinite, SumSame

\* q more at one day.
Grown(g, f, t, q) == g[t] = f[t] + q /\ \A x \in Days \ {t} : g[x] = f[x]

LEMMA BalancedBuy ==
  ASSUME NEW t \in Days, NEW l \in [Days -> Nat], NEW b \in [Days -> Nat], NEW s \in [Days -> Nat],
         Balanced(l, b, s, t), NEW q \in Nat,
         NEW l2 \in [Days -> Nat], Grown(l2, l, t, q), NEW b2 \in [Days -> Nat], Grown(b2, b, t, q)
  PROVE  Balanced(l2, b2, s, t) /\ Sum(l2, Before(t)) = Sum(l, Before(t))
<1>1. l2[t] = l[t] + q /\ b2[t] = b[t] + q /\ \A x \in Days : x # t => l2[x] = l[x] /\ b2[x] = b[x]
  BY DEF Grown
<1>2. \A e \in Days : e <= t => SameBefore(l2, l, e) /\ SameBefore(b2, b, e)
  BY <1>1, DaysNat DEF SameBefore
<1>3. ASSUME NEW e \in Days, e <= t
      PROVE  Sum(l2, Before(e)) = Sum(l, Before(e)) /\ Sum(b2, Before(e)) = Sum(b, Before(e))
  <2>1. SameBefore(l2, l, e) /\ SameBefore(b2, b, e)
    BY <1>2, <1>3
  <2> QED
    BY <2>1, SumBeforeSame
<1>4. t \in Nat
  BY DaysNat
<1>5. \A x \in Days : x > t => l2[x] = 0 /\ b2[x] = 0 /\ s[x] = 0
  BY <1>1, <1>4, DaysNat DEF Balanced
<1>6. ASSUME NEW e \in Days, e < t PROVE Sum(s, Before(e + 1)) <= Sum(b2, Before(e))
  <2>1. e <= t
    BY <1>4, <1>6, DaysNat
  <2>2. Sum(b2, Before(e)) = Sum(b, Before(e))
    BY <2>1, <1>3
  <2> QED
    BY <1>6, <2>2 DEF Balanced
<1>7. Sum(l2, Before(t)) = Sum(l, Before(t)) /\ Sum(b2, Before(t)) = Sum(b, Before(t)) /\ l2[t] = b2[t]
  <2>1. t <= t
    BY <1>4
  <2>2. l2[t] = b2[t]
    BY <1>1 DEF Balanced
  <2> QED
    BY <1>3, <2>1, <2>2
<1> QED
  BY <1>5, <1>6, <1>7 DEF Balanced

LEMMA BalancedSell ==
  ASSUME NEW t \in Days, NEW l \in [Days -> Nat], NEW b \in [Days -> Nat], NEW s \in [Days -> Nat],
         Balanced(l, b, s, t), NEW q \in Nat,
         NEW l2 \in [Days -> Nat], Sum(l2, Before(t)) = Sum(l, Before(t)) - q,
         \A x \in Days : x >= t => l2[x] = l[x],
         NEW s2 \in [Days -> Nat], Grown(s2, s, t, q)
  PROVE  Balanced(l2, b, s2, t)
<1>1. s2[t] = s[t] + q /\ s2 \in [Days -> Nat] /\ \A x \in Days : x # t => s2[x] = s[x]
  BY DEF Grown
<1>2. t \in Nat
  BY DaysNat
<1>3. ASSUME NEW e \in Days, e < t PROVE Sum(s2, Before(e + 1)) = Sum(s, Before(e + 1))
  <2>1. SameBefore(s2, s, e + 1)
    BY <1>1, <1>2, <1>3, DaysNat DEF SameBefore
  <2> QED
    BY <2>1, SumBeforeSame
<1>4. Sum(s2, Before(t + 1)) = Sum(s, Before(t + 1)) + q
  <2>1. Sum(s2, Before(t)) = Sum(s, Before(t))
    <3>1. SameBefore(s2, s, t)
      BY <1>1, <1>2, DaysNat DEF SameBefore
    <3> QED
      BY <3>1, SumBeforeSame
  <2>2. /\ Sum(s2, Before(t + 1)) = Sum(s2, Before(t)) + s2[t]
        /\ Sum(s, Before(t + 1)) = Sum(s, Before(t)) + s[t]
        /\ Sum(s, Before(t)) \in Nat /\ s[t] \in Nat
    BY <1>1, SumNext
  <2> QED
    BY <1>1, <2>1, <2>2
<1>5. Sum(l2, Before(t)) + Sum(s2, Before(t + 1)) = Sum(b, Before(t))
  <2>1. Sum(l, Before(t)) \in Nat /\ Sum(s, Before(t + 1)) \in Nat
    BY SumNext
  <2> QED
    BY <1>4, <2>1 DEF Balanced
<1>6. l2[t] = b[t]
  BY <1>2 DEF Balanced
<1>7. \A x \in Days : x > t => l2[x] = 0 /\ b[x] = 0 /\ s2[x] = 0
  BY <1>1, <1>2, DaysNat DEF Balanced
<1>8. \A e \in Days : e < t => Sum(s2, Before(e + 1)) <= Sum(b, Before(e))
  BY <1>3 DEF Balanced
<1> QED
  BY <1>5, <1>6, <1>7, <1>8 DEF Balanced

LEMMA BalancedNext ==
  ASSUME NEW t \in Days, t + 1 \in Days, NEW l \in [Days -> Nat], NEW b \in [Days -> Nat], NEW s \in [Days -> Nat],
         Balanced(l, b, s, t)
  PROVE  Balanced(l, b, s, t + 1) /\ Sum(l, Before(t)) <= Sum(l, Before(t + 1))
<1>0. PICK u \in Days : u = t + 1
  OBVIOUS
<1>1. t \in Nat /\ u \in Nat /\ t < u
  BY <1>0, DaysNat
<1>2. /\ Sum(l, Before(u)) = Sum(l, Before(t)) + l[t] /\ Sum(b, Before(u)) = Sum(b, Before(t)) + b[t]
      /\ Sum(s, Before(u + 1)) = Sum(s, Before(u)) + s[u]
      /\ Sum(l, Before(t)) \in Nat /\ Sum(b, Before(t)) \in Nat /\ Sum(s, Before(u)) \in Nat
      /\ l[t] \in Nat
  BY <1>0, SumNext
<1>3. /\ Sum(l, Before(t)) + Sum(s, Before(u)) = Sum(b, Before(t)) /\ l[t] = b[t]
      /\ l[u] = 0 /\ b[u] = 0 /\ s[u] = 0
  BY <1>0, <1>1 DEF Balanced
<1>4. Sum(l, Before(u)) + Sum(s, Before(u + 1)) = Sum(b, Before(u)) /\ l[u] = b[u]
  BY <1>2, <1>3
<1>5. \A x \in Days : x > u => l[x] = 0 /\ b[x] = 0 /\ s[x] = 0
  BY <1>1, DaysNat DEF Balanced
<1>6. ASSUME NEW e \in Days, e < u PROVE Sum(s, Before(e + 1)) <= Sum(b, Before(e))
  <2>1. CASE e = t
    BY <1>0, <1>2, <1>3, <2>1
  <2>2. CASE e # t
    <3>1. e < t
      BY <1>0, <1>1, <1>6, <2>2, DaysNat
    <3> QED
      BY <3>1 DEF Balanced
  <2> QED
    BY <2>1, <2>2
<1>7. Balanced(l, b, s, u)
  BY <1>4, <1>5, <1>6 DEF Balanced
<1> QED
  BY <1>0, <1>2, <1>7

\* No day ever sold what had not been bought before it.
LEMMA BalancedPlus ==
  ASSUME NEW t \in Days, NEW l \in [Days -> Nat], NEW b \in [Days -> Nat], NEW s \in [Days -> Nat],
         Balanced(l, b, s, t), NEW e \in Days
  PROVE  Sum(s, Before(e + 1)) <= Sum(b, Before(e))
<1>1. t \in Nat /\ e \in Nat
  BY DaysNat
<1>2. CASE e < t
  BY <1>2 DEF Balanced
<1>3. CASE e >= t
  <2>1. Sum(s, Before(e + 1)) = Sum(s, Before(t + 1))
    <3> DEFINE B == Before(e + 1)
               A == Before(t + 1)
    <3>1. IsFiniteSet(B) /\ A \in SUBSET B /\ IsFiniteSet(B \ A) /\ B \ A \subseteq Days
      <4>1. IsFiniteSet(B) /\ B \subseteq Days
        BY DaysFinite
      <4>2. A \in SUBSET B
        <5>1. \A x \in Days : x < t + 1 => x < e + 1
          BY <1>1, <1>3, DaysNat
        <5> QED
          BY <5>1 DEF Before
      <4> HIDE DEF A, B
      <4> QED
        BY <4>1, <4>2, FS_Subset
    <3>2. \A x \in B \ A : s[x] = 0
      BY <1>1, <1>3, DaysNat DEF Balanced, Before
    <3>3. \A x \in B : s[x] \in Int
      BY DaysFinite
    <3> HIDE DEF A, B
    <3>4. Sum(s, B \ A) = 0
      BY <3>1, <3>2, SumZero
    <3>5. Sum(s, B) = Sum(s, A) + Sum(s, B \ A) /\ Sum(s, A) \in Int
      BY <3>1, <3>3, SumSplit
    <3> QED
      BY <3>4, <3>5 DEF A, B
  <2>2. Sum(s, Before(t + 1)) <= Sum(b, Before(t))
    <3>1. Sum(l, Before(t)) \in Nat /\ Sum(s, Before(t + 1)) \in Nat
      BY SumNext
    <3> QED
      BY <3>1 DEF Balanced
  <2>3. Sum(b, Before(t)) <= Sum(b, Before(e)) /\ Sum(b, Before(t)) \in Nat /\ Sum(b, Before(e)) \in Nat
    BY <1>1, <1>3, SumLater
  <2>4. Sum(s, Before(t + 1)) \in Nat
    BY SumNext
  <2> QED
    BY <2>1, <2>2, <2>3, <2>4
<1> QED
  BY <1>1, <1>2, <1>3

LEMMA AskedFacts ==
  ASSUME NEW d \in Databases, NEW p
  PROVE  /\ IsFiniteSet(Asked(d, p)) /\ Asked(d, p) \subseteq Signals
         /\ \A k \in Signals : Remaining(d)[k] = d.order[k].remaining /\ Remaining(d)[k] \in Nat
         /\ ReservedShares(d, p) = Sum(Remaining(d), Asked(d, p))
         /\ ReservedShares(d, p) \in Nat
<1>1. IsFiniteSet(Asked(d, p)) /\ Asked(d, p) \subseteq Signals
  BY FS_Subset, LedgerAssumption DEF Asked, LiveOrders
<1>2. \A k \in Signals : Remaining(d)[k] = d.order[k].remaining /\ Remaining(d)[k] \in Nat
  BY DatabaseIs DEF Remaining, Orders
<1>3. ReservedShares(d, p) = Sum(Remaining(d), Asked(d, p))
  BY DEF ReservedShares, Remaining, Asked
<1>4. \A k \in Asked(d, p) : Remaining(d)[k] \in Nat
  BY <1>1, <1>2
<1> QED
  BY <1>1, <1>2, <1>3, <1>4, SumNat

\* What is asked for by the orders other than k grows with the orders only.
LEMMA AskedWithout ==
  ASSUME NEW c \in Databases, NEW d \in Databases, NEW p, NEW K,
         \A j \in Asked(c, p) \ K : j \in Asked(d, p) /\ c.order[j] = d.order[j]
  PROVE  /\ Sum(Remaining(c), Asked(c, p) \ K) <= Sum(Remaining(d), Asked(d, p) \ K)
         /\ Sum(Remaining(c), Asked(c, p) \ K) \in Nat /\ Sum(Remaining(d), Asked(d, p) \ K) \in Nat
<1> DEFINE A == Asked(c, p) \ K
           B == Asked(d, p) \ K
<1>1. IsFiniteSet(B) /\ A \in SUBSET B /\ B \subseteq Signals
  BY AskedFacts, FS_Subset
<1>2. \A x \in A : Remaining(c)[x] = Remaining(d)[x]
  <2>1. \A x \in A : x \in Signals /\ c.order[x] = d.order[x]
    BY <1>1
  <2> HIDE DEF A
  <2> QED
    BY <2>1, AskedFacts
<1>3. \A x \in B : Remaining(d)[x] \in Nat
  BY <1>1, AskedFacts
<1> HIDE DEF A, B
<1>4. Sum(Remaining(c), A) <= Sum(Remaining(d), B) /\ Sum(Remaining(c), A) \in Nat /\ Sum(Remaining(d), B) \in Nat
  BY <1>1, <1>2, <1>3, SumWithin
<1> QED
  BY <1>4 DEF A, B

\* If k asks for shares, it is a part of what is asked for.
LEMMA AskedWith ==
  ASSUME NEW d \in Databases, NEW p, NEW k \in Asked(d, p)
  PROVE  /\ ReservedShares(d, p) = d.order[k].remaining + Sum(Remaining(d), Asked(d, p) \ {k})
         /\ d.order[k].remaining \in Nat
<1> DEFINE A == Asked(d, p)
           f == Remaining(d)
<1>1. IsFiniteSet(A) /\ k \in A /\ k \in Signals /\ \A x \in A : f[x] \in Int
  BY AskedFacts
<1>2. f[k] = d.order[k].remaining /\ f[k] \in Nat
  BY <1>1, AskedFacts
<1> HIDE DEF A, f
<1>3. Sum(f, A) = f[k] + Sum(f, A \ {k})
  BY <1>1, SumRemove
<1> QED
  BY <1>2, <1>3, AskedFacts DEF A, f

\* A number of open orders that is not more asks for no more.
LEMMA AskedFewer ==
  ASSUME NEW c \in Databases, NEW d \in Databases, NEW p,
         \A j \in Asked(c, p) : j \in Asked(d, p) /\ c.order[j] = d.order[j]
  PROVE  ReservedShares(c, p) <= ReservedShares(d, p)
<1>1. Asked(c, p) \ {} = Asked(c, p) /\ Asked(d, p) \ {} = Asked(d, p)
  OBVIOUS
<1>2. Sum(Remaining(c), Asked(c, p) \ {}) <= Sum(Remaining(d), Asked(d, p) \ {})
  BY AskedWithout
<1> QED
  BY <1>1, <1>2, AskedFacts

\* The shares stay backed and balanced, whatever a step does to a database.
LEMMA SharesMove ==
  ASSUME NEW c \in Databases, NEW d \in Databases, day \in Days, SharesSound(d, day), Moves(c, d)
  PROVE  SharesSound(c, day)
<1>1. /\ d.lots \in [Plans -> [Days -> Nat]] /\ d.bought \in [Plans -> [Days -> Nat]]
      /\ d.sold \in [Plans -> [Days -> Nat]]
  BY DatabaseIs
<1>2. ASSUME SameShares(c, d), \A p \in Plans : ReservedShares(c, p) <= ReservedShares(d, p)
      PROVE  SharesSound(c, day)
  <2> SUFFICES ASSUME NEW p \in Plans PROVE ReservedShares(c, p) <= Sum(d.lots[p], Before(day))
    BY <1>2 DEF SharesSound, SameShares
  <2>1. ReservedShares(c, p) <= ReservedShares(d, p) /\ ReservedShares(d, p) <= Sum(d.lots[p], Before(day))
    BY <1>2 DEF SharesSound
  <2>2. ReservedShares(c, p) \in Nat /\ ReservedShares(d, p) \in Nat /\ Sum(d.lots[p], Before(day)) \in Nat
    BY <1>1, AskedFacts, SumNext
  <2> QED
    BY <2>1, <2>2
<1>3. CASE Alike(c, d)
  <2>1. \A p \in Plans : \A j \in Asked(c, p) : j \in Asked(d, p) /\ c.order[j] = d.order[j]
    BY <1>3 DEF Alike, Asked, LiveOrders
  <2>2. \A p \in Plans : ReservedShares(c, p) <= ReservedShares(d, p)
    BY <2>1, AskedFewer
  <2> QED
    BY <1>2, <1>3, <2>2 DEF Alike
<1>4. CASE CancelMove(c, d)
  <2>1. \A p \in Plans : \A j \in Asked(c, p) : j \in Asked(d, p) /\ c.order[j] = d.order[j]
    BY <1>4 DEF CancelMove, Asked, LiveOrders
  <2>2. \A p \in Plans : ReservedShares(c, p) <= ReservedShares(d, p)
    BY <2>1, AskedFewer
  <2> QED
    BY <1>2, <1>4, <2>2 DEF CancelMove
<1>5. ASSUME NEW k \in Signals, AdmitMove(c, d, k) PROVE SharesSound(c, day)
  <2> SUFFICES ASSUME NEW p \in Plans PROVE ReservedShares(c, p) <= Sum(d.lots[p], Before(day))
    BY <1>5 DEF SharesSound, AdmitMove, SameShares
  <2>1. ReservedShares(d, p) <= Sum(d.lots[p], Before(day))
    BY DEF SharesSound
  <2>2. ReservedShares(c, p) \in Nat /\ ReservedShares(d, p) \in Nat /\ Sum(d.lots[p], Before(day)) \in Nat
    BY <1>1, AskedFacts, SumNext
  <2>3. \A j \in Asked(c, p) \ {k} : j \in Asked(d, p) /\ c.order[j] = d.order[j]
    BY <1>5 DEF AdmitMove, Asked, LiveOrders
  <2>4. CASE k \notin Asked(c, p)
    <3>1. ReservedShares(c, p) <= ReservedShares(d, p)
      BY <2>3, <2>4, AskedFewer
    <3> QED
      BY <2>1, <2>2, <3>1
  <2>5. CASE k \in Asked(c, p)
    <3>1. SideOf[k] = "SELL" /\ p = PlanOf[k] /\ k \notin Asked(d, p)
      BY <1>5, <2>5 DEF AdmitMove, Asked, LiveOrders
    <3>2. QtyOf[k] <= Sum(d.lots[p], Before(day)) - ReservedShares(d, p) /\ c.order[k].remaining = QtyOf[k]
      BY <1>5, <3>1, SellableIs DEF AdmitMove
    <3>3. ReservedShares(c, p) = c.order[k].remaining + Sum(Remaining(c), Asked(c, p) \ {k})
          /\ c.order[k].remaining \in Nat
      BY <2>5, AskedWith
    <3>4. Sum(Remaining(c), Asked(c, p) \ {k}) <= Sum(Remaining(d), Asked(d, p) \ {k})
          /\ Sum(Remaining(c), Asked(c, p) \ {k}) \in Nat /\ Sum(Remaining(d), Asked(d, p) \ {k}) \in Nat
      BY <2>3, AskedWithout
    <3>5. Asked(d, p) \ {k} = Asked(d, p)
      BY <3>1
    <3>6. ReservedShares(d, p) = Sum(Remaining(d), Asked(d, p) \ {k})
      BY <3>5, AskedFacts
    <3> QED
      BY <2>2, <3>2, <3>3, <3>4, <3>6
  <2> QED
    BY <2>4, <2>5
<1>6. ASSUME NEW k \in Signals, NEW q \in Nat, NEW b \in Shapes, FillMove(c, d, k, q, b)
      PROVE  SharesSound(c, day)
  <2> DEFINE p == PlanOf[k]
  <2>0. PICK price \in Nat : price = FillPrice(k, b)
    BY FillPriceNat
  <2>1. c = Filled(d, k, q, price) /\ Live(d.order[k]) /\ q <= d.order[k].remaining /\ q > 0
        /\ d.order[k].remaining \in Nat /\ p \in Plans
    BY <1>6, <2>0, DatabaseIs, LedgerAssumption DEF FillMove, Orders
  <2>2. /\ c.order[k].status = (IF q = d.order[k].remaining THEN "FILLED" ELSE "PARTIAL")
        /\ c.order[k].remaining = d.order[k].remaining - q
        /\ \A j \in Signals \ {k} : c.order[j] = d.order[j]
    BY <2>1, FilledIs
  <2>3. \A r \in Plans : \A j \in Asked(c, r) \ {k} : j \in Asked(d, r) /\ c.order[j] = d.order[j]
    BY <2>2 DEF Asked, LiveOrders
  <2>4. \A r \in Plans : ReservedShares(d, r) <= Sum(d.lots[r], Before(day))
    BY DEF SharesSound
  <2>5. CASE SideOf[k] = "BUY"
    <3>1. BoughtInto(c, d, k, q, price)
      BY <2>1, <2>5, FilledBuys
    <3>2. \A r \in Plans : ReservedShares(c, r) <= ReservedShares(d, r)
      <4>1. \A r \in Plans : k \notin Asked(c, r)
        BY <2>5 DEF Asked, LiveOrders
      <4> QED
        BY <2>3, <4>1, AskedFewer
    <3>3. /\ c.sold = d.sold
          /\ c.lots[p] = [d.lots[p] EXCEPT ![day] = @ + q] /\ c.bought[p] = [d.bought[p] EXCEPT ![day] = @ + q]
          /\ \A r \in Plans \ {p} : c.lots[r] = d.lots[r] /\ c.bought[r] = d.bought[r]
      BY <1>1, <2>1, <3>1 DEF BoughtInto
    <3>4. Balanced(c.lots[p], c.bought[p], c.sold[p], day) /\ Sum(c.lots[p], Before(day)) = Sum(d.lots[p], Before(day))
      <4>1. Balanced(d.lots[p], d.bought[p], d.sold[p], day)
            /\ d.lots[p] \in [Days -> Nat] /\ d.bought[p] \in [Days -> Nat] /\ d.sold[p] \in [Days -> Nat]
        BY <1>1, <2>1 DEF SharesSound
      <4>2. PICK l \in [Days -> Nat], n \in [Days -> Nat], s \in [Days -> Nat],
                   l2 \in [Days -> Nat], n2 \in [Days -> Nat] :
              l = d.lots[p] /\ n = d.bought[p] /\ s = d.sold[p] /\ l2 = c.lots[p] /\ n2 = c.bought[p]
        BY <2>1, <4>1, DatabaseIs
      <4>3. Grown(l2, l, day, q) /\ Grown(n2, n, day, q) /\ Balanced(l, n, s, day)
        BY <3>3, <4>1, <4>2 DEF Grown
      <4>4. Balanced(l2, n2, s, day) /\ Sum(l2, Before(day)) = Sum(l, Before(day))
        BY <4>3, BalancedBuy
      <4> QED
        BY <3>3, <4>2, <4>4
    <3>5. ASSUME NEW r \in Plans
          PROVE  /\ Balanced(c.lots[r], c.bought[r], c.sold[r], day)
                 /\ Sum(c.lots[r], Before(day)) = Sum(d.lots[r], Before(day))
      <4>1. CASE r = p
        BY <3>4, <4>1
      <4>2. CASE r # p
        BY <3>3, <4>2 DEF SharesSound
      <4> QED
        BY <4>1, <4>2
    <3>6. ASSUME NEW r \in Plans PROVE ReservedShares(c, r) <= Sum(c.lots[r], Before(day))
      <4>1. ReservedShares(c, r) \in Nat /\ ReservedShares(d, r) \in Nat /\ Sum(d.lots[r], Before(day)) \in Nat
        BY <1>1, AskedFacts, SumNext
      <4> QED
        BY <2>4, <3>2, <3>5, <4>1
    <3> QED
      BY <3>5, <3>6 DEF SharesSound
  <2>6. CASE SideOf[k] # "BUY"
    <3>1. SoldFrom(c, d, k, q, price) /\ SideOf[k] = "SELL"
      BY <2>1, <2>6, FilledSells, LedgerAssumption
    <3>2. /\ c.bought = d.bought
          /\ c.lots[p] = Take(d.lots[p], q) /\ c.sold[p] = [d.sold[p] EXCEPT ![day] = @ + q]
          /\ \A r \in Plans \ {p} : c.lots[r] = d.lots[r] /\ c.sold[r] = d.sold[r]
      BY <1>1, <2>1, <3>1 DEF SoldFrom
    <3>3. /\ c.lots[p] \in [Days -> Nat]
          /\ Sum(c.lots[p], Before(day)) = Sum(d.lots[p], Before(day)) - q
          /\ \A x \in Days : x >= day => c.lots[p][x] = d.lots[p][x]
      <4>1. d.lots[p] \in [Days -> Nat] /\ q <= Sum(d.lots[p], Before(day))
        BY <1>1, <1>6, <2>1, <2>6, SellableIs DEF FillMove
      <4> QED
        BY <3>2, <4>1, TakeTakes
    <3>4. Balanced(c.lots[p], c.bought[p], c.sold[p], day)
      <4>1. Balanced(d.lots[p], d.bought[p], d.sold[p], day)
            /\ d.lots[p] \in [Days -> Nat] /\ d.bought[p] \in [Days -> Nat] /\ d.sold[p] \in [Days -> Nat]
        BY <1>1, <2>1 DEF SharesSound
      <4>2. PICK l \in [Days -> Nat], n \in [Days -> Nat], s \in [Days -> Nat],
                   l2 \in [Days -> Nat], s2 \in [Days -> Nat] :
              l = d.lots[p] /\ n = d.bought[p] /\ s = d.sold[p] /\ l2 = c.lots[p] /\ s2 = c.sold[p]
        BY <2>1, <3>3, <4>1, DatabaseIs
      <4>3. /\ Grown(s2, s, day, q) /\ Balanced(l, n, s, day)
            /\ Sum(l2, Before(day)) = Sum(l, Before(day)) - q
            /\ \A x \in Days : x >= day => l2[x] = l[x]
        BY <3>2, <3>3, <4>1, <4>2 DEF Grown
      <4>4. Balanced(l2, n, s2, day)
        BY <4>3, BalancedSell
      <4> QED
        BY <3>2, <4>2, <4>4
    <3>5. ReservedShares(c, p) <= ReservedShares(d, p) - q
      <4>1. ReservedShares(d, p) = d.order[k].remaining + Sum(Remaining(d), Asked(d, p) \ {k})
        <5>1. k \in Asked(d, p)
          BY <2>1, <3>1 DEF Asked, LiveOrders
        <5> QED
          BY <5>1, AskedWith
      <4>2. /\ Sum(Remaining(c), Asked(c, p) \ {k}) <= Sum(Remaining(d), Asked(d, p) \ {k})
            /\ Sum(Remaining(c), Asked(c, p) \ {k}) \in Nat /\ Sum(Remaining(d), Asked(d, p) \ {k}) \in Nat
        BY <2>1, <2>3, AskedWithout
      <4>3. CASE k \in Asked(c, p)
        <5>1. ReservedShares(c, p) = c.order[k].remaining + Sum(Remaining(c), Asked(c, p) \ {k})
          BY <4>3, AskedWith
        <5> QED
          BY <2>1, <2>2, <4>1, <4>2, <5>1
      <4>4. CASE k \notin Asked(c, p)
        <5>1. Asked(c, p) \ {k} = Asked(c, p)
          BY <4>4
        <5>2. ReservedShares(c, p) = Sum(Remaining(c), Asked(c, p) \ {k})
          BY <5>1, AskedFacts
        <5> QED
          BY <2>1, <4>1, <4>2, <5>2
      <4> QED
        BY <4>3, <4>4
    <3>6. ReservedShares(c, p) <= Sum(c.lots[p], Before(day))
      <4>1. ReservedShares(c, p) \in Nat /\ ReservedShares(d, p) \in Nat /\ Sum(d.lots[p], Before(day)) \in Nat
        BY <1>1, <2>1, AskedFacts, SumNext
      <4> QED
        BY <2>1, <2>4, <3>3, <3>5, <4>1
    <3>7. ASSUME NEW r \in Plans, r # p
          PROVE  /\ Balanced(c.lots[r], c.bought[r], c.sold[r], day)
                 /\ ReservedShares(c, r) <= Sum(c.lots[r], Before(day))
      <4>1. k \notin Asked(c, r)
        BY <3>7 DEF Asked
      <4>2. ReservedShares(c, r) <= ReservedShares(d, r)
        BY <2>3, <4>1, AskedFewer
      <4>3. ReservedShares(c, r) \in Nat /\ ReservedShares(d, r) \in Nat /\ Sum(d.lots[r], Before(day)) \in Nat
        BY <1>1, AskedFacts, SumNext
      <4>4. c.lots[r] = d.lots[r] /\ c.sold[r] = d.sold[r] /\ c.bought[r] = d.bought[r]
        BY <3>2, <3>7
      <4> QED
        BY <2>4, <4>2, <4>3, <4>4 DEF SharesSound
    <3> QED
      BY <3>4, <3>6, <3>7 DEF SharesSound
  <2> QED
    BY <2>5, <2>6
<1> QED
  BY <1>3, <1>4, <1>5, <1>6 DEF Moves, Calm

Shares == SharesSound(db, day) /\ (~Idle => SharesSound(tx.db, day))

LEMMA SharesAlike ==
  ASSUME NEW c \in Databases, NEW d \in Databases, NEW t \in Days, SharesSound(d, t), Alike(c, d)
  PROVE  SharesSound(c, t)
<1> SUFFICES ASSUME NEW p \in Plans PROVE ReservedShares(c, p) <= Sum(d.lots[p], Before(t))
  BY DEF SharesSound, Alike, SameShares
<1>1. ReservedShares(c, p) <= ReservedShares(d, p)
  <2>1. \A j \in Asked(c, p) : j \in Asked(d, p) /\ c.order[j] = d.order[j]
    BY DEF Alike, Asked, LiveOrders
  <2> QED
    BY <2>1, AskedFewer
<1>2. ReservedShares(c, p) \in Nat /\ ReservedShares(d, p) \in Nat /\ Sum(d.lots[p], Before(t)) \in Nat
  <2>1. d.lots[p] \in [Days -> Nat]
    BY DatabaseIs
  <2> QED
    BY <2>1, AskedFacts, SumNext
<1>3. ReservedShares(d, p) <= Sum(d.lots[p], Before(t))
  BY DEF SharesSound
<1> QED
  BY <1>1, <1>2, <1>3

LEMMA SharesNextDay ==
  ASSUME NEW d \in Databases, NEW t \in Days, t + 1 \in Days, SharesSound(d, t)
  PROVE  SharesSound(d, t + 1)
<1> SUFFICES ASSUME NEW p \in Plans
             PROVE  /\ Balanced(d.lots[p], d.bought[p], d.sold[p], t + 1)
                    /\ ReservedShares(d, p) <= Sum(d.lots[p], Before(t + 1))
  BY DEF SharesSound
<1>1. /\ Balanced(d.lots[p], d.bought[p], d.sold[p], t)
      /\ ReservedShares(d, p) <= Sum(d.lots[p], Before(t))
  BY DEF SharesSound
<1>2. PICK l \in [Days -> Nat], b \in [Days -> Nat], s \in [Days -> Nat] :
        l = d.lots[p] /\ b = d.bought[p] /\ s = d.sold[p]
  BY DatabaseIs
<1>3. Balanced(l, b, s, t + 1) /\ Sum(l, Before(t)) <= Sum(l, Before(t + 1))
  BY <1>1, <1>2, BalancedNext
<1>4. ReservedShares(d, p) \in Nat /\ Sum(l, Before(t)) \in Nat /\ Sum(l, Before(t + 1)) \in Nat
  BY AskedFacts, SumNext
<1> QED
  BY <1>1, <1>2, <1>3, <1>4

LEMMA SharesInit == Init => Shares
<1> SUFFICES ASSUME Init PROVE SharesSound(db, 1) /\ day = 1 /\ Idle
  BY DEF Shares
<1>1. db = InitDb /\ day = 1 /\ Idle /\ 1 \in Days /\ db \in Databases
  BY InitTyped, LedgerAssumption DEF Init, Idle, Days, TypeOK
<1>2. /\ db.order = [k \in Signals |-> NoOrder]
      /\ db.lots = [p \in Plans |-> [e \in Days |-> 0]]
      /\ db.bought = [p \in Plans |-> [e \in Days |-> 0]]
      /\ db.sold = [p \in Plans |-> [e \in Days |-> 0]]
  BY <1>1 DEF InitDb
<1>3. ASSUME NEW p \in Plans
      PROVE  /\ Balanced(db.lots[p], db.bought[p], db.sold[p], 1)
             /\ ReservedShares(db, p) <= Sum(db.lots[p], Before(1))
  <2> DEFINE z == [e \in Days |-> 0]
  <2>1. db.lots[p] = z /\ db.bought[p] = z /\ db.sold[p] = z
    BY <1>2
  <2>2. z \in [Days -> Nat] /\ \A x \in Days : z[x] = 0
    OBVIOUS
  <2> HIDE DEF z
  <2>3. \A t : Sum(z, Before(t)) = 0
    <3> TAKE t
    <3>1. \A x \in Before(t) : z[x] = 0
      BY <2>2, DaysFinite
    <3> QED
      BY <3>1, DaysFinite, SumZero
  <2>4. Balanced(z, z, z, 1)
    BY <1>1, <2>2, <2>3 DEF Balanced
  <2>5. ReservedShares(db, p) = 0
    <3>1. Asked(db, p) = {}
      BY <1>2 DEF Asked, LiveOrders, Live, NoOrder
    <3> QED
      BY <1>1, <3>1, AskedFacts, SumEmpty
  <2> QED
    BY <2>1, <2>3, <2>4, <2>5
<1> QED
  BY <1>1, <1>3 DEF SharesSound

LEMMA SharesStep ==
  ASSUME Inv, TypeOK, Shares, [Next]_vars
  PROVE  Shares'
<1>1. TypeOK' /\ Inv'
  BY TypesStep, InvStep
<1>2. /\ db \in Databases /\ db' \in Databases
      /\ ~Idle => tx.db \in Databases
      /\ ~Idle' => tx'.db \in Databases
  BY <1>1, TypedIs, TxTyped DEF TypeOK, Idle, Transactions
<1>3. CASE day \in Days /\ day' = day + 1 /\ day' \in Days /\ Alike(db', db) /\ Idle'
  <2>1. SharesSound(db', day)
    BY <1>2, <1>3, SharesAlike DEF Shares
  <2>2. SharesSound(db', day + 1)
    BY <1>2, <1>3, <2>1, SharesNextDay
  <2> QED
    BY <1>3, <2>2 DEF Shares
<1>4. CASE /\ day' = day
           /\ Calm(db', db) \/ (~Idle /\ Alike(db', tx.db))
           /\ Idle' \/ (Idle /\ Alike(tx'.db, db)) \/ (~Idle /\ Calm(tx'.db, tx.db)) \/ (~Idle /\ FillsNext)
  <2>0. day \in Days
    BY DEF Inv
  <2>1. SharesSound(db', day)
    <3>1. CASE Calm(db', db)
      BY <1>2, <2>0, <3>1, SharesMove DEF Shares, Moves
    <3>2. CASE ~Idle /\ Alike(db', tx.db)
      BY <1>2, <2>0, <3>2, SharesAlike DEF Shares
    <3> QED
      BY <1>4, <3>1, <3>2
  <2>2. ~Idle' => SharesSound(tx'.db, day)
    <3>1. CASE ~Idle' /\ Idle /\ Alike(tx'.db, db)
      BY <1>2, <2>0, <3>1, SharesAlike DEF Shares
    <3>2. CASE ~Idle' /\ ~Idle /\ (Calm(tx'.db, tx.db) \/ FillsNext)
      <4>1. Moves(tx'.db, tx.db)
        BY <3>2 DEF FillsNext, Moves
      <4> QED
        BY <1>2, <2>0, <3>2, <4>1, SharesMove DEF Shares
    <3> QED
      BY <1>4, <3>1, <3>2
  <2> QED
    BY <1>4, <2>1, <2>2 DEF Shares
<1> QED
  BY <1>3, <1>4, StepIsMove

LEMMA SharesHold == Spec => []Shares
<1>1. Inv /\ TypeOK /\ Shares /\ [Next]_vars => Shares'
  BY SharesStep
<1> QED
  BY <1>1, SharesInit, Types, Invariant, PTL DEF Spec

-----------------------------------------------------------------------------
\* Every table and variable has its type: no sale leaves a lot, and no fill the
\* cash or the volume of a minute, below zero (on_bar).
THEOREM LedgerTypes == Spec => []TypeOK
BY Types, PTL

\* The shares for sale are there and may be sold today, so that no two SELL orders
\* count on the same share (_place_order_tx, on_bar).
THEOREM EverySaleIsBacked == Spec => []SellsBacked
<1>1. Shares => SellsBacked
  BY SellableIs DEF Shares, SharesSound, SellsBacked
<1> QED
  BY <1>1, SharesHold, PTL

\* T+1: what was sold up to a day had been bought before that day (sellable_qty,
\* the FIFO of on_bar).
THEOREM NothingSoldOnItsDay == Spec => []TPlusOne
<1>1. Inv /\ TypeOK /\ Shares => TPlusOne
  <2> SUFFICES ASSUME Inv, TypeOK, Shares, NEW p \in Plans, NEW e \in Days
               PROVE  Sum(db.sold[p], {x \in Days : x <= e}) <= Sum(db.bought[p], {x \in Days : x < e})
    BY DEF TPlusOne
  <2>1. day \in Days /\ db \in Databases
    BY DEF Inv, TypeOK
  <2>2. PICK l \in [Days -> Nat], b \in [Days -> Nat], s \in [Days -> Nat] :
          l = db.lots[p] /\ b = db.bought[p] /\ s = db.sold[p]
    BY <2>1, DatabaseIs
  <2>3. Balanced(l, b, s, day)
    BY <2>2 DEF Shares, SharesSound
  <2>4. Sum(s, Before(e + 1)) <= Sum(b, Before(e))
    BY <2>1, <2>3, BalancedPlus
  <2>5. {x \in Days : x <= e} = Before(e + 1) /\ {x \in Days : x < e} = Before(e)
    BY DaysNat DEF Before
  <2> QED
    BY <2>2, <2>4, <2>5
<1> QED
  BY <1>1, Invariant, Types, SharesHold, PTL

-----------------------------------------------------------------------------
(* The peak.  It covers the net value at 15:00 of a day all of whose       *)
(* positions have their price, because the bar that gave the last of these *)
(* prices, or bought the last of these positions, raised it; and no mark   *)
(* is later than the bar that is due.                                      *)

MarksSound(d, t, m) ==
    \A s \in Symbols : d.mark[s] # None =>
        d.mark[s].day <= t /\ (d.mark[s].day = t => d.mark[s].minute <= m)

MarkedOn(d, t, m) ==
    \A p \in Held(d) :
        /\ d.mark[SymbolOf[p]] # None
        /\ d.mark[SymbolOf[p]].day = t /\ d.mark[SymbolOf[p]].minute = m

PeakSound(d, t) ==
    /\ Held(d) = {} => d.cash <= d.peak
    /\ MarkedOn(d, t, Close + 1) => Nav(d) <= d.peak
    /\ \A e \in Days : d.nav[e] # None /\ d.nav[e].nav # None => d.nav[e].nav <= d.peak
    /\ \A e \in Days : d.basis[e] # None => d.basis[e] <= d.peak

Peaks ==
    /\ MarksSound(db, day, DueBar) /\ PeakSound(db, day)
    /\ ~Idle => /\ tx.minute = DueBar /\ MarksSound(tx.db, day, DueBar)
                /\ tx.db.peak = db.peak /\ tx.db.nav = db.nav /\ tx.db.basis = db.basis

Priced(c, d) == c.cash = d.cash /\ c.lots = d.lots /\ c.mark = d.mark

SameDays(c, d) == c.peak = d.peak /\ c.nav = d.nav /\ c.basis = d.basis

LEMMA PricedSame ==
  ASSUME NEW c, NEW d, Priced(c, d)
  PROVE  Held(c) = Held(d) /\ Nav(c) = Nav(d) /\ \A t, m : MarkedOn(c, t, m) <=> MarkedOn(d, t, m)
<1>1. c.cash = d.cash /\ c.lots = d.lots /\ c.mark = d.mark
  BY DEF Priced
<1>2. \A p : Position(c, p) = Position(d, p)
  BY <1>1 DEF Position
<1>3. Held(c) = Held(d)
  BY <1>2 DEF Held
<1>4. [p \in Plans |-> Position(c, p) * c.mark[SymbolOf[p]].price]
      = [p \in Plans |-> Position(d, p) * d.mark[SymbolOf[p]].price]
  BY <1>1, <1>2
<1>5. Nav(c) = Nav(d)
  BY <1>1, <1>3, <1>4 DEF Nav
<1> QED
  BY <1>1, <1>3, <1>5 DEF MarkedOn

LEMMA PeakSame ==
  ASSUME NEW c, NEW d, NEW t, Priced(c, d), SameDays(c, d), PeakSound(d, t)
  PROVE  PeakSound(c, t)
<1>1. Held(c) = Held(d) /\ Nav(c) = Nav(d) /\ (MarkedOn(c, t, Close + 1) <=> MarkedOn(d, t, Close + 1))
  BY PricedSame
<1> QED
  BY <1>1 DEF PeakSound, SameDays, Priced

\* The latest of some days is one of them.
LEMMA MaxIn ==
  ASSUME NEW S \in SUBSET Days, S # {}
  PROVE  Max(S) \in S
<1> DEFINE After(x) == {y \in Days : y > x}
           B == {After(x) : x \in S}
<1>1. PICK T \in B : \A U \in B : U \subseteq T => U = T
  <2>1. B \in SUBSET SUBSET Days /\ B # {} /\ IsFiniteSet(Days)
    BY DaysFinite
  <2> HIDE DEF B
  <2> QED
    BY <2>1, Smallest
<1>2. PICK x \in S : T = After(x)
  BY <1>1
<1>3. \A y \in S : x >= y
  <2> SUFFICES ASSUME NEW y \in S, y > x PROVE FALSE
    BY DaysNat
  <2>1. After(y) \in B /\ After(y) \subseteq T /\ y \in T /\ y \notin After(y)
    BY <1>2, DaysNat
  <2> QED
    BY <1>1, <2>1
<1>4. Max(S) = CHOOSE z \in S : \A y \in S : z >= y
  BY DEF Max
<1> QED
  BY <1>3, <1>4

LEMMA MarksLater ==
  ASSUME NEW d \in Databases, NEW t, NEW m \in Int, NEW n \in Int, m <= n, MarksSound(d, t, m)
  PROVE  MarksSound(d, t, n)
<1> SUFFICES ASSUME NEW s \in Symbols, d.mark[s] # None
             PROVE  d.mark[s].day <= t /\ (d.mark[s].day = t => d.mark[s].minute <= n)
  BY DEF MarksSound
<1>1. d.mark[s].minute \in Nat
  BY DatabaseIs DEF Marks
<1> QED
  BY <1>1 DEF MarksSound

\* A net value that the marks prove at 15:00, or that is cash, is below the peak.
LEMMA PeakCoversNav ==
  ASSUME NEW d \in Databases, NEW t, PeakSound(d, t), Held(d) = {} \/ MarkedOn(d, t, Close + 1)
  PROVE  Nav(d) <= d.peak
BY NavKnown DEF PeakSound

LEMMA PeaksInit == Init => Peaks
<1> SUFFICES ASSUME Init PROVE Peaks
  OBVIOUS
<1>1. db = InitDb /\ tx = None /\ db \in Databases /\ Capital \in Nat
  BY InitTyped, LedgerAssumption DEF Init, TypeOK
<1>2. /\ db.cash = Capital /\ db.peak = Capital
      /\ db.lots = [p \in Plans |-> [e \in Days |-> 0]]
      /\ db.mark = [s \in Symbols |-> None]
      /\ db.basis = [e \in Days |-> None] /\ db.nav = [e \in Days |-> None]
  BY <1>1 DEF InitDb
<1>3. \A p \in Plans : Position(db, p) = 0
  <2> TAKE p \in Plans
  <2> DEFINE z == [e \in Days |-> 0]
  <2>1. db.lots[p] = z /\ \A x \in Days : z[x] = 0
    BY <1>2
  <2> HIDE DEF z
  <2>2. Sum(z, Days) = 0
    BY <2>1, DaysFinite, SumZero
  <2> QED
    BY <2>1, <2>2 DEF Position
<1>4. Held(db) = {}
  BY <1>3 DEF Held
<1>5. Nav(db) = db.cash
  BY <1>1, <1>4, NavKnown
<1>6. PeakSound(db, day)
  BY <1>1, <1>2, <1>5 DEF PeakSound
<1>7. MarksSound(db, day, DueBar)
  BY <1>2 DEF MarksSound
<1> QED
  BY <1>1, <1>6, <1>7 DEF Peaks, Idle

LEMMA PeaksStep ==
  ASSUME Inv, TypeOK, Peaks, [Next]_vars
  PROVE  Peaks'
<1>1. /\ db \in Databases /\ (~Idle => tx \in Transactions) /\ (~Idle => tx.db \in Databases)
      /\ day \in Days /\ day \in Nat /\ minute \in 0..Close + 2 /\ Close \in Nat
  BY TypedIs, TxTyped, LedgerAssumption DEF TypeOK, Typed, Inv
<1>2. TypeOK' /\ db' \in Databases /\ (~Idle' => tx'.db \in Databases)
  BY TypesStep, TxTyped DEF TypeOK, Idle, Transactions
<1>3. MarksSound(db, day, DueBar) /\ PeakSound(db, day)
  BY DEF Peaks
<1>4. ASSUME day' = day, minute' = minute, Priced(db', db), PeakSound(db', day), Idle' PROVE Peaks'
  <2>1. DueBar' = DueBar /\ db'.mark = db.mark
    BY <1>4 DEF DueBar, Priced
  <2>2. MarksSound(db', day, DueBar)
    BY <1>3, <2>1 DEF MarksSound
  <2>3. MarksSound(db', day', DueBar') /\ PeakSound(db', day')
    BY <1>4, <2>1, <2>2
  <2> QED
    BY <1>4, <2>3 DEF Peaks
<1>5. ASSUME day' = day, minute' = minute, Priced(db', db), SameDays(db', db), Idle' PROVE Peaks'
  BY <1>3, <1>4, <1>5, PeakSame
<1>6. ASSUME day' = day, minute' = minute, db' = db, tx'.minute = DueBar,
             MarksSound(tx'.db, day, DueBar), SameDays(tx'.db, db)
      PROVE  Peaks'
  <2>1. DueBar' = DueBar
    BY <1>6 DEF DueBar
  <2> QED
    BY <1>3, <1>6, <2>1 DEF Peaks, SameDays
<1>7. ASSUME ~Idle, day' = day, minute' = minute, db' = db, tx'.minute = tx.minute,
             tx'.db.mark = tx.db.mark, SameDays(tx'.db, tx.db)
      PROVE  Peaks'
  <2>1. /\ tx.minute = DueBar /\ MarksSound(tx.db, day, DueBar)
        /\ tx.db.peak = db.peak /\ tx.db.nav = db.nav /\ tx.db.basis = db.basis
    BY <1>7 DEF Peaks
  <2>2. MarksSound(tx'.db, day, DueBar) /\ SameDays(tx'.db, db) /\ tx'.minute = DueBar
    BY <1>7, <2>1 DEF MarksSound, SameDays
  <2> QED
    BY <1>6, <1>7, <2>2
<1>8. CASE UNCHANGED vars
  BY <1>8 DEF vars, Peaks, Idle, DueBar
<1>9. ASSUME NEW k \in Signals, Admit(k) PROVE Peaks'
  <2>1. PICK x, y : db' = [db EXCEPT !.order[k] = x, !.placed = y]
    BY <1>9 DEF Admit
  <2>2. Priced(db', db) /\ SameDays(db', db)
    BY <1>1, <2>1, DatabaseIs DEF Priced, SameDays, Fields
  <2> QED
    BY <1>5, <1>9, <2>2 DEF Admit, Idle
<1>10. ASSUME NEW d, NEW S, d = Cancelled(db, S) PROVE d \in Databases /\ Priced(d, db) /\ SameDays(d, db)
  BY <1>1, <1>10, CancelledIs DEF Priced, SameDays, Fields
<1>11. ASSUME NEW k \in Signals, Judge(k) PROVE Peaks'
  <2>1. PICK S : db' = [Cancelled(db, S) EXCEPT !.judged = @ \cup {k}]
    BY <1>11 DEF Judge
  <2>2. PICK c : c = Cancelled(db, S) /\ c \in Databases /\ Priced(c, db) /\ SameDays(c, db)
    BY <1>10
  <2>3. Priced(db', db) /\ SameDays(db', db)
    BY <2>1, <2>2, DatabaseIs DEF Priced, SameDays, Fields
  <2> QED
    BY <1>5, <1>11, <2>3 DEF Judge, Idle
<1>12. ASSUME NEW k \in Signals, CancelOrder(k) PROVE Peaks'
  <2>1. Priced(db', db) /\ SameDays(db', db)
    BY <1>10, <1>12 DEF CancelOrder
  <2> QED
    BY <1>5, <1>12, <2>1 DEF CancelOrder, Idle
<1>13. ASSUME NEW s \in Sessions, NEW P \in Scopes, CancelSession(s, P) PROVE Peaks'
  <2>1. PICK S : db' = [Cancelled(db, S) EXCEPT !.sessions[s] = S, !.rows = @ \cup {<<s, k>> : k \in S}]
    BY <1>13 DEF CancelSession
  <2>2. PICK c : c = Cancelled(db, S) /\ c \in Databases /\ Priced(c, db) /\ SameDays(c, db)
    BY <1>10
  <2>3. Priced(db', db) /\ SameDays(db', db)
    BY <2>1, <2>2, DatabaseIs DEF Priced, SameDays, Fields
  <2> QED
    BY <1>5, <1>13, <2>3 DEF CancelSession, Idle
<1>14. ASSUME NEW s \in Symbols, NEW b \in Shapes, BeginBar(s, b) PROVE Peaks'
  <2> DEFINE new == IF b.close > 0 /\ b.volume > 0 THEN [price |-> b.close, day |-> day, minute |-> DueBar] ELSE db.mark[s]
  <2>1. /\ tx'.db = [db EXCEPT !.latest[s] = DueBar, !.mark[s] = new]
        /\ tx'.minute = DueBar /\ db' = db /\ day' = day /\ minute' = minute
    BY <1>14 DEF BeginBar
  <2>2. \/ new.day = day /\ new.minute = DueBar
        \/ new = db.mark[s]
    OBVIOUS
  <2> HIDE DEF new
  <2>3. tx'.db.mark = [db.mark EXCEPT ![s] = new] /\ SameDays(tx'.db, db)
    BY <1>1, <2>1, DatabaseIs DEF SameDays, Fields
  <2>4. DueBar \in Nat
    BY <1>1 DEF DueBar, Least
  <2>5. MarksSound(tx'.db, day, DueBar)
    <3> SUFFICES ASSUME NEW z \in Symbols, tx'.db.mark[z] # None
                 PROVE  tx'.db.mark[z].day <= day /\ (tx'.db.mark[z].day = day => tx'.db.mark[z].minute <= DueBar)
      BY DEF MarksSound
    <3>1. tx'.db.mark[z] = IF z = s THEN new ELSE db.mark[z]
      BY <1>1, <2>3, DatabaseIs
    <3>2. tx'.db.mark[z] = db.mark[z] \/ (tx'.db.mark[z].day = day /\ tx'.db.mark[z].minute = DueBar)
      BY <2>2, <3>1
    <3>3. CASE tx'.db.mark[z] = db.mark[z]
      BY <1>3, <3>3 DEF MarksSound
    <3>4. CASE tx'.db.mark[z].day = day /\ tx'.db.mark[z].minute = DueBar
      BY <1>1, <2>4, <3>4
    <3> QED
      BY <3>2, <3>3, <3>4
  <2> QED
    BY <1>6, <2>1, <2>3, <2>5
<1>15. ASSUME NEW k \in Signals, ExpireNext(k) PROVE Peaks'
  <2>1. /\ tx' = [tx EXCEPT !.db = Cancelled(tx.db, {k}), !.todo = tx.todo \ {k}]
        /\ db' = db /\ day' = day /\ minute' = minute /\ ~Idle /\ tx \in Transactions /\ tx.db \in Databases
    BY <1>1, <1>15 DEF ExpireNext
  <2>2. PICK c : c = Cancelled(tx.db, {k})
    OBVIOUS
  <2>3. tx'.db = c /\ tx'.minute = tx.minute
    BY <2>1, <2>2, TxTyped
  <2>4. c.mark = tx.db.mark /\ SameDays(c, tx.db)
    BY <2>1, <2>2, CancelledIs DEF SameDays, Fields
  <2> QED
    BY <1>7, <2>1, <2>3, <2>4
<1>16. ASSUME NEW k \in Signals, SkipNext(k) PROVE Peaks'
  <2>1. /\ tx'.db = tx.db /\ tx'.minute = tx.minute
        /\ db' = db /\ day' = day /\ minute' = minute /\ ~Idle
    BY <1>1, <1>16, TxTyped DEF SkipNext
  <2> QED
    BY <1>7, <2>1 DEF SameDays
<1>17. ASSUME NEW k \in Signals, FillNext(k) PROVE Peaks'
  <2>1. /\ db' = db /\ day' = day /\ minute' = minute /\ ~Idle /\ tx \in Transactions /\ tx.db \in Databases
    BY <1>1, <1>17 DEF FillNext
  <2>2. PICK q \in 1..tx.db.order[k].remaining :
          tx' = [tx EXCEPT !.db = Filled(tx.db, k, q, FillPrice(k, tx.bar)), !.todo = @ \ {k}, !.left = @ - q]
    BY <1>17, FillIs
  <2>3. FillPrice(k, tx.bar) \in Nat /\ q \in Int
    <3>1. tx.db.order[k].remaining \in Nat
      BY <2>1, DatabaseIs DEF Orders
    <3> QED
      BY <2>1, <3>1, TxTyped, FillPriceNat
  <2>4. PICK price \in Nat : price = FillPrice(k, tx.bar)
    BY <2>3
  <2>41. PICK c : c = Filled(tx.db, k, q, price)
    OBVIOUS
  <2>5. tx'.db = c /\ tx'.minute = tx.minute
    BY <2>1, <2>2, <2>4, <2>41, TxTyped
  <2>6. c.mark = tx.db.mark /\ SameDays(c, tx.db)
    <3>1. PICK d \in Databases : d = tx.db
      BY <2>1
    <3>2. c = Filled(d, k, q, price)
      BY <2>41, <3>1
    <3>3. \A f \in Fields \ {"order", "cash", "lots", "bought", "sold"} : c[f] = d[f]
      BY <2>3, <3>2, FilledIs
    <3>4. c.mark = d.mark /\ c.peak = d.peak /\ c.nav = d.nav /\ c.basis = d.basis
      BY <3>3 DEF Fields
    <3> QED
      BY <3>1, <3>4 DEF SameDays
  <2> QED
    BY <1>7, <2>1, <2>5, <2>6
<1>18. CASE CommitBar
  <2>1. /\ ~Idle /\ Idle' /\ day' = day /\ minute' = minute
        /\ tx.minute = DueBar /\ MarksSound(tx.db, day, DueBar)
        /\ tx.db.peak = db.peak /\ tx.db.nav = db.nav /\ tx.db.basis = db.basis
    BY <1>18 DEF CommitBar, Peaks, Idle
  <2>2. PICK d \in Databases : d = tx.db
    BY <1>1, <2>1
  <2> DEFINE top == IF PeakDue(d, DueBar) THEN Greatest(d.peak, Nav(d)) ELSE d.peak
  <2>3. db' = [d EXCEPT !.peak = top]
    BY <1>18, <2>1, <2>2 DEF CommitBar
  <2>4. /\ top >= d.peak /\ top \in Nat
        /\ MarkedOn(d, day, DueBar) => Nav(d) <= top
    <3>1. PeakDue(d, DueBar) <=> MarkedOn(d, day, DueBar)
      BY DEF PeakDue, Marked, MarkedOn
    <3>2. PeakDue(d, DueBar) => Nav(d) \in Nat
      BY <2>2, NavKnown DEF PeakDue
    <3>3. d.peak \in Nat
      BY <2>2, DatabaseIs
    <3> QED
      BY <3>1, <3>2, <3>3 DEF Greatest
  <2> HIDE DEF top
  <2>5. Priced(db', d) /\ db'.peak = top /\ db'.nav = d.nav /\ db'.basis = d.basis
    BY <2>2, <2>3, DatabaseIs DEF Priced, Fields
  <2>6. Held(db') = Held(d) /\ Nav(db') = Nav(d) /\ (MarkedOn(db', day, Close + 1) <=> MarkedOn(d, day, Close + 1))
    BY <2>5, PricedSame
  <2>7. Held(d) = {} => Nav(d) <= top /\ Nav(d) = d.cash
    BY <2>2, <2>4, NavKnown DEF MarkedOn
  <2>8. MarkedOn(d, day, Close + 1) => Nav(d) <= top
    <3> SUFFICES ASSUME MarkedOn(d, day, Close + 1), Held(d) # {} PROVE Nav(d) <= top
      BY <2>7
    <3>1. PICK p \in Held(d) : /\ d.mark[SymbolOf[p]] # None
                               /\ d.mark[SymbolOf[p]].day = day /\ d.mark[SymbolOf[p]].minute = Close + 1
      BY DEF MarkedOn
    <3>2. SymbolOf[p] \in Symbols
      BY LedgerAssumption DEF Held
    <3>3. Close + 1 <= DueBar
      BY <2>1, <2>2, <3>1, <3>2 DEF MarksSound
    <3>4. DueBar = Close + 1
      BY <1>1, <3>3 DEF DueBar, Least
    <3> QED
      BY <2>4, <3>4
  <2>9. ASSUME NEW e \in Days
        PROVE  /\ db'.nav[e] # None /\ db'.nav[e].nav # None => db'.nav[e].nav <= top
               /\ db'.basis[e] # None => db'.basis[e] <= top
    <3>1. /\ db'.nav[e] = db.nav[e] /\ db'.basis[e] = db.basis[e] /\ db.peak = d.peak
      BY <2>1, <2>2, <2>5
    <3>2. /\ db.nav[e] # None /\ db.nav[e].nav # None => db.nav[e].nav \in Nat /\ db.nav[e].nav <= db.peak
          /\ db.basis[e] # None => db.basis[e] \in Nat /\ db.basis[e] <= db.peak
          /\ d.peak \in Nat
      <4>1. db.nav[e] \in [nav : Nat \cup {None}, cash : Nat] \cup {None} /\ db.basis[e] \in Nat \cup {None}
        BY <1>1, DatabaseIs
      <4>2. d.peak \in Nat
        BY <2>2, DatabaseIs
      <4> QED
        BY <1>3, <4>1, <4>2 DEF PeakSound
    <3> QED
      BY <2>4, <3>1, <3>2
  <2>10. PeakSound(db', day)
    BY <2>5, <2>6, <2>7, <2>8, <2>9 DEF PeakSound, Priced
  <2>11. MarksSound(db', day, DueBar)
    BY <2>1, <2>2, <2>5 DEF MarksSound, Priced
  <2>12. DueBar' = DueBar
    BY <2>1 DEF DueBar
  <2> QED
    BY <2>1, <2>10, <2>11, <2>12 DEF Peaks
<1>19. CASE Rollback
  BY <1>5, <1>19 DEF Rollback, Idle, Priced, SameDays
<1>20. CASE OpenRiskDay
  <2>1. /\ db' = [db EXCEPT !.basis[day] = Nav(db)] /\ Idle' /\ day' = day /\ minute' = minute
        /\ Nav(db) # None
        /\ Held(db) # {} => Prior # {} /\ db.nav[Max(Prior)].nav = Nav(db)
    BY <1>20 DEF OpenRiskDay, Idle
  <2>2. PICK n : n = Nav(db)
    OBVIOUS
  <2>3. n <= db.peak
    <3>1. CASE Held(db) = {}
      BY <1>1, <1>3, <2>2, <3>1, PeakCoversNav
    <3>2. CASE Held(db) # {}
      <4>1. Prior \in SUBSET Days /\ Prior # {} /\ \A e \in Prior : db.nav[e] # None
        BY <2>1, <3>2 DEF Prior
      <4>2. PICK e \in Prior : e = Max(Prior)
        BY <4>1, MaxIn
      <4>3. e \in Days /\ db.nav[e] # None /\ db.nav[e].nav = n /\ n # None
        BY <2>1, <2>2, <3>2, <4>1, <4>2
      <4> QED
        BY <1>3, <4>3 DEF PeakSound
    <3> QED
      BY <3>1, <3>2
  <2>4. /\ db'.basis = [db.basis EXCEPT ![day] = n] /\ Priced(db', db)
        /\ db'.peak = db.peak /\ db'.nav = db.nav
    BY <1>1, <2>1, <2>2, DatabaseIs DEF Priced, Fields
  <2>5. Held(db') = Held(db) /\ Nav(db') = Nav(db) /\ (MarkedOn(db', day, Close + 1) <=> MarkedOn(db, day, Close + 1))
    BY <2>4, PricedSame
  <2>6. \A e \in Days : db'.basis[e] # None => db'.basis[e] <= db'.peak
    <3>1. \A e \in Days : db'.basis[e] = n \/ db'.basis[e] = db.basis[e]
      BY <1>1, <2>4, DatabaseIs
    <3> QED
      BY <1>3, <2>3, <2>4, <3>1 DEF PeakSound
  <2>7. PeakSound(db', day)
    BY <1>3, <2>4, <2>5, <2>6 DEF PeakSound, Priced
  <2> QED
    BY <1>4, <2>1, <2>4, <2>7
<1>21. CASE Settle
  <2>1. PICK c : c = Cancelled(db, {k \in Signals : Expires(k)}) /\ c \in Databases /\ Priced(c, db) /\ SameDays(c, db)
    BY <1>10
  <2>2. PICK row : /\ db' = [c EXCEPT !.nav[day] = row]
                   /\ row.nav = IF Marked(c, Close + 1) THEN Nav(c) ELSE None
    <3>1. PICK row : row = [nav |-> IF Marked(c, Close + 1) THEN Nav(c) ELSE None, cash |-> c.cash]
      OBVIOUS
    <3>2. db' = [c EXCEPT !.nav[day] = row]
      BY <1>21, <2>1, <3>1 DEF Settle
    <3>3. row.nav = IF Marked(c, Close + 1) THEN Nav(c) ELSE None
      BY <3>1
    <3> QED
      BY <3>2, <3>3
  <2>3. PeakSound(c, day)
    BY <1>3, <2>1, PeakSame
  <2>4. row.nav # None => row.nav <= c.peak
    <3>1. Marked(c, Close + 1) => MarkedOn(c, day, Close + 1)
      BY DEF Marked, MarkedOn
    <3> QED
      BY <2>1, <2>2, <2>3, <3>1, PeakCoversNav
  <2>5. /\ db'.nav = [c.nav EXCEPT ![day] = row] /\ Priced(db', c)
        /\ db'.peak = c.peak /\ db'.basis = c.basis
    BY <2>1, <2>2, DatabaseIs DEF Priced, Fields
  <2>6. Held(db') = Held(c) /\ Nav(db') = Nav(c) /\ (MarkedOn(db', day, Close + 1) <=> MarkedOn(c, day, Close + 1))
    BY <2>5, PricedSame
  <2>7. \A e \in Days : db'.nav[e] # None /\ db'.nav[e].nav # None => db'.nav[e].nav <= db'.peak
    <3>1. \A e \in Days : db'.nav[e] = row \/ db'.nav[e] = c.nav[e]
      BY <1>1, <2>1, <2>5, DatabaseIs
    <3> QED
      BY <2>3, <2>4, <2>5, <3>1 DEF PeakSound
  <2>8. PeakSound(db', day)
    BY <2>3, <2>5, <2>6, <2>7 DEF PeakSound, Priced
  <2>9. Priced(db', db) /\ Idle' /\ day' = day /\ minute' = minute
    BY <1>21, <2>1, <2>5 DEF Settle, Idle, Priced
  <2> QED
    BY <1>4, <2>8, <2>9
<1>22. CASE Tick
  <2>1. db' = db /\ day' = day /\ Idle' /\ minute' = minute + 1
    BY <1>22 DEF Tick, Idle
  <2>2. DueBar \in Int /\ DueBar' \in Int /\ DueBar <= DueBar'
    BY <1>1, <2>1 DEF DueBar, Least
  <2>3. PICK m \in Int, n \in Int : m = DueBar /\ n = DueBar' /\ m <= n
    BY <2>2
  <2>4. MarksSound(db, day, n)
    BY <1>1, <1>3, <2>3, MarksLater
  <2>5. MarksSound(db', day', DueBar') /\ PeakSound(db', day')
    BY <1>3, <2>1, <2>3, <2>4
  <2> QED
    BY <2>1, <2>5 DEF Peaks
<1>23. CASE NextDay
  <2>1. PICK x : db' = [db EXCEPT !.latest = x]
    BY <1>23 DEF NextDay
  <2>2. day' = day + 1 /\ Idle'
    BY <1>23 DEF NextDay, Idle
  <2>3. Priced(db', db) /\ SameDays(db', db)
    BY <1>1, <2>1, DatabaseIs DEF Priced, SameDays, Fields
  <2>4. \A s \in Symbols : db.mark[s] # None => db.mark[s].day \in Nat /\ db.mark[s].day <= day
    <3> SUFFICES ASSUME NEW s \in Symbols, db.mark[s] # None PROVE db.mark[s].day \in Nat /\ db.mark[s].day <= day
      OBVIOUS
    <3>1. db.mark[s] \in Marks
      BY <1>1, DatabaseIs
    <3> QED
      BY <1>3, <3>1 DEF MarksSound, Marks
  <2>5. MarksSound(db', day + 1, DueBar')
    BY <1>1, <2>3, <2>4 DEF MarksSound, Priced
  <2>6. MarkedOn(db, day + 1, Close + 1) => Held(db) = {}
    <3>1. \A p \in Held(db) : SymbolOf[p] \in Symbols
      BY LedgerAssumption DEF Held
    <3> QED
      BY <1>1, <2>4, <3>1 DEF MarkedOn
  <2>7. Held(db) = {} => Nav(db) <= db.peak
    BY <1>1, <1>3, PeakCoversNav
  <2>8. PeakSound(db, day + 1)
    BY <1>3, <2>6, <2>7 DEF PeakSound
  <2>9. PeakSound(db', day + 1)
    BY <2>3, <2>8, PeakSame
  <2> QED
    BY <2>2, <2>5, <2>9 DEF Peaks
<1>24. CASE \E k \in Signals : Admit(k) \/ Judge(k) \/ CancelOrder(k)
  BY <1>9, <1>11, <1>12, <1>24
<1>25. CASE \E k \in Signals : ExpireNext(k) \/ SkipNext(k) \/ FillNext(k)
  BY <1>15, <1>16, <1>17, <1>25
<1> QED
  BY <1>8, <1>13, <1>14, <1>18, <1>19, <1>20, <1>21, <1>22, <1>23, <1>24, <1>25 DEF Next

\* A day is never opened with a net value above the peak its drawdown is measured
\* from, although the peak moves only when all prices are of one minute
\* (on_bar, open_risk_day).
THEOREM OpenedBelowThePeak == Spec => []PeakCoversBasis
<1>1. Inv /\ TypeOK /\ Peaks /\ [Next]_vars => Peaks'
  BY PeaksStep
<1>2. Peaks => PeakCoversBasis
  BY DEF Peaks, PeakSound, PeakCoversBasis
<1> QED
  BY <1>1, <1>2, PeaksInit, Types, Invariant, PTL DEF Spec

-----------------------------------------------------------------------------
(* The cash covers what the open BUY orders may still cost.  A fill of one *)
(* of them spends no more than what that order's part of the sum falls by; *)
(* an admission has the new sum covered; and a sale leaves the cash no     *)
(* lower, unless its fees are more than what it brings.                    *)

Still(k, o) == CapOf[k] * o.remaining + Fees(k, o.notional + CapOf[k] * o.remaining) - o.fees

Stills(d) == [k \in Signals |-> Still(k, d.order[k])]

Buys(d) == LiveOrders(d, "BUY")

CoveredIn(d) == Sum(Stills(d), Buys(d)) <= d.cash

Cover == CoveredIn(db) /\ (~Idle => CoveredIn(tx.db))

\* No sale costs more than it brings.
SalesPay == \A k \in Signals : FillNext(k) /\ SideOf[k] = "SELL" => tx'.db.cash >= tx.db.cash

LEMMA StillNat ==
  ASSUME NEW d \in Databases, OrdersSound(d)
  PROVE  /\ IsFiniteSet(Buys(d)) /\ Buys(d) \subseteq Signals
         /\ \A k \in Signals : /\ Stills(d)[k] = Still(k, d.order[k]) /\ Stills(d)[k] \in Nat
                               /\ Reserve(k, d.order[k]) = Stills(d)[k]
<1>1. IsFiniteSet(Buys(d)) /\ Buys(d) \subseteq Signals
  BY FS_Subset, LedgerAssumption DEF Buys, LiveOrders
<1>2. ASSUME NEW k \in Signals
      PROVE  Still(k, d.order[k]) \in Nat /\ Reserve(k, d.order[k]) = Still(k, d.order[k])
  <2>1. PICK o : o = d.order[k]
    OBVIOUS
  <2>2. /\ o.notional \in Nat /\ o.remaining \in Nat /\ o.fees = Fees(k, o.notional) /\ CapOf[k] \in Nat
    BY <2>1, DatabaseIs, LedgerAssumption DEF OrdersSound, Orders
  <2>3. PICK n \in Nat : n = CapOf[k] * o.remaining
    BY <2>2
  <2>4. o.notional <= o.notional + n /\ o.notional + n \in Nat
    BY <2>2
  <2>5. Fees(k, o.notional) \in Nat /\ Fees(k, o.notional + n) \in Nat /\ Fees(k, o.notional) <= Fees(k, o.notional + n)
    BY <2>2, <2>4, FeesGrow
  <2>6. Still(k, o) = n + Fees(k, o.notional + n) - o.fees
    BY <2>3 DEF Still
  <2>7. Reserve(k, o) = n + Greatest(0, Fees(k, o.notional + n) - o.fees)
    BY <2>3 DEF Reserve
  <2>8. Greatest(0, Fees(k, o.notional + n) - o.fees) = Fees(k, o.notional + n) - o.fees
    BY <2>2, <2>5 DEF Greatest
  <2> QED
    BY <2>1, <2>2, <2>5, <2>6, <2>7, <2>8
<1> QED
  BY <1>1, <1>2 DEF Stills

LEMMA ReservedIs ==
  ASSUME NEW d \in Databases, OrdersSound(d)
  PROVE  Reserved(d, {}) = Sum(Stills(d), Buys(d))
<1> DEFINE f == [k \in Signals |-> Reserve(k, d.order[k])]
<1>1. IsFiniteSet(Buys(d)) /\ \A k \in Buys(d) : f[k] = Stills(d)[k]
  BY StillNat
<1>2. Reserved(d, {}) = Sum(f, Buys(d))
  <2>1. LiveOrders(d, "BUY") \ {} = Buys(d)
    BY DEF Buys
  <2> QED
    BY <2>1 DEF Reserved
<1> HIDE DEF f
<1> QED
  BY <1>1, <1>2, SumSame

\* Less to pay, out of the same cash or more.
LEMMA CoveredFewer ==
  ASSUME NEW c \in Databases, NEW d \in Databases, OrdersSound(c), OrdersSound(d), CoveredIn(d),
         \A j \in Buys(c) : j \in Buys(d) /\ c.order[j] = d.order[j], d.cash <= c.cash
  PROVE  CoveredIn(c)
<1>1. IsFiniteSet(Buys(d)) /\ Buys(c) \in SUBSET Buys(d)
  BY StillNat
<1>2. \A x \in Buys(c) : Stills(c)[x] = Stills(d)[x]
  BY StillNat
<1>3. \A x \in Buys(d) : Stills(d)[x] \in Nat
  BY StillNat
<1>4. Sum(Stills(c), Buys(c)) <= Sum(Stills(d), Buys(d)) /\ Sum(Stills(c), Buys(c)) \in Nat /\ Sum(Stills(d), Buys(d)) \in Nat
  BY <1>1, <1>2, <1>3, SumWithin
<1>5. c.cash \in Nat /\ d.cash \in Nat
  BY DatabaseIs
<1> QED
  BY <1>4, <1>5 DEF CoveredIn

\* What a fill below the cap and the fee of it cost is not more than what its
\* order is then spared.
LEMMA FillSpares ==
  ASSUME NEW k \in Signals, NEW o, o.notional \in Nat, o.remaining \in Nat, o.fees = Fees(k, o.notional),
         NEW q \in Nat, q <= o.remaining, NEW price \in Nat, price <= CapOf[k],
         NEW n, n.remaining = o.remaining - q, n.notional = o.notional + price * q,
         n.fees = o.fees + FeeDue(k, o, price * q)
  PROVE  /\ Still(k, n) \in Nat /\ Still(k, o) \in Nat /\ FeeDue(k, o, price * q) \in Nat /\ price * q \in Nat
         /\ Still(k, n) + price * q + FeeDue(k, o, price * q) <= Still(k, o)
<1>1. CapOf[k] \in Nat
  BY LedgerAssumption
<1>2. PICK a \in Nat, b \in Nat, e \in Nat : a = price * q /\ b = CapOf[k] * (o.remaining - q) /\ e = CapOf[k] * o.remaining
  <2>1. price * q \in Nat /\ CapOf[k] * (o.remaining - q) \in Nat /\ CapOf[k] * o.remaining \in Nat
    <3>1. o.remaining - q \in Nat
      OBVIOUS
    <3> QED
      BY <1>1, <3>1
  <2> QED
    BY <2>1
<1>3. a + b <= e
  <2>1. price * q <= CapOf[k] * q
    BY <1>1
  <2>2. CapOf[k] * (o.remaining - q) = CapOf[k] * o.remaining - CapOf[k] * q
    BY <1>1
  <2>3. CapOf[k] * q \in Nat
    BY <1>1
  <2> QED
    BY <1>2, <2>1, <2>2, <2>3
<1>4. PICK x \in Nat : x = o.notional
  OBVIOUS
<1>5. x + a \in Nat /\ x + a + b \in Nat /\ x + e \in Nat /\ x <= x + a /\ x + a <= x + a + b /\ x + a + b <= x + e
  BY <1>3
<1>6. /\ Fees(k, x) \in Nat /\ Fees(k, x + a) \in Nat /\ Fees(k, x + a + b) \in Nat /\ Fees(k, x + e) \in Nat
      /\ Fees(k, x) <= Fees(k, x + a) /\ Fees(k, x + a) <= Fees(k, x + a + b)
      /\ Fees(k, x + a + b) <= Fees(k, x + e)
  BY <1>5, FeesGrow
<1>7. FeeDue(k, o, price * q) = Fees(k, x + a) - Fees(k, x)
  BY <1>2, <1>4 DEF FeeDue
<1>8. Still(k, o) = e + Fees(k, x + e) - Fees(k, x)
  BY <1>2, <1>4 DEF Still
<1>9. Still(k, n) = b + Fees(k, x + a + b) - Fees(k, x + a)
  <2>1. n.fees = Fees(k, x + a)
    BY <1>4, <1>6, <1>7
  <2> QED
    BY <1>2, <1>4, <2>1 DEF Still
<1> QED
  BY <1>2, <1>3, <1>6, <1>7, <1>8, <1>9

LEMMA CoveredBuy ==
  ASSUME NEW c \in Databases, NEW d \in Databases, OrdersSound(c), OrdersSound(d), CoveredIn(d),
         NEW k \in Buys(d), \A j \in Signals \ {k} : c.order[j] = d.order[j],
         NEW spent \in Nat, c.cash = d.cash - spent, Still(k, c.order[k]) + spent <= Still(k, d.order[k])
  PROVE  CoveredIn(c)
<1> DEFINE A == Buys(c) \ {k}
           B == Buys(d) \ {k}
<1>1. IsFiniteSet(Buys(c)) /\ IsFiniteSet(Buys(d)) /\ IsFiniteSet(B) /\ k \in Signals /\ A \in SUBSET B
  <2>1. IsFiniteSet(Buys(c)) /\ IsFiniteSet(Buys(d)) /\ k \in Signals
    BY StillNat
  <2>2. A \in SUBSET B
    BY DEF Buys, LiveOrders
  <2> QED
    BY <2>1, <2>2, FS_Subset
<1>2. /\ \A x \in Buys(d) : Stills(d)[x] \in Nat /\ Stills(d)[x] \in Int
      /\ \A x \in Buys(c) : Stills(c)[x] \in Nat /\ Stills(c)[x] \in Int
      /\ \A x \in A : Stills(c)[x] = Stills(d)[x]
      /\ Stills(c)[k] + spent <= Stills(d)[k] /\ Stills(c)[k] \in Nat /\ Stills(d)[k] \in Nat
  BY <1>1, StillNat
<1>3. Sum(Stills(c), A) <= Sum(Stills(d), B) /\ Sum(Stills(c), A) \in Nat /\ Sum(Stills(d), B) \in Nat
  <2> HIDE DEF A
  <2>1. \A x \in B : Stills(d)[x] \in Nat
    BY <1>2
  <2> HIDE DEF B
  <2> QED
    BY <1>1, <1>2, <2>1, SumWithin
<1>4. Sum(Stills(d), Buys(d)) = Stills(d)[k] + Sum(Stills(d), B)
  BY <1>1, <1>2, SumRemove
<1>5. Sum(Stills(c), Buys(c)) \in Nat /\ Sum(Stills(c), Buys(c)) <= Stills(c)[k] + Sum(Stills(c), A)
  <2>1. CASE k \in Buys(c)
    <3>1. Sum(Stills(c), Buys(c)) = Stills(c)[k] + Sum(Stills(c), A)
      BY <1>1, <1>2, <2>1, SumRemove
    <3> HIDE DEF A
    <3> QED
      BY <1>2, <1>3, <3>1
  <2>2. CASE k \notin Buys(c)
    <3>1. A = Buys(c)
      BY <2>2
    <3> HIDE DEF A
    <3> QED
      BY <1>2, <1>3, <3>1
  <2> QED
    BY <2>1, <2>2
<1>6. c.cash \in Nat /\ d.cash \in Nat
  BY DatabaseIs
<1> HIDE DEF A, B
<1> QED
  BY <1>2, <1>3, <1>4, <1>5, <1>6 DEF CoveredIn

LEMMA CoveredCalm ==
  ASSUME NEW c \in Databases, NEW d \in Databases, OrdersSound(c), OrdersSound(d), CoveredIn(d), Calm(c, d)
  PROVE  CoveredIn(c)
<1>0. c.cash \in Nat /\ d.cash \in Nat
  BY DatabaseIs
<1>1. CASE Alike(c, d)
  <2>1. c.cash = d.cash /\ \A j \in Buys(c) : j \in Buys(d) /\ c.order[j] = d.order[j]
    BY <1>1 DEF Alike, Buys, LiveOrders
  <2> QED
    BY <1>0, <2>1, CoveredFewer
<1>2. CASE CancelMove(c, d)
  <2>1. c.cash = d.cash /\ \A j \in Buys(c) : j \in Buys(d) /\ c.order[j] = d.order[j]
    BY <1>2 DEF CancelMove, Buys, LiveOrders
  <2> QED
    BY <1>0, <2>1, CoveredFewer
<1>3. ASSUME NEW k \in Signals, AdmitMove(c, d, k) PROVE CoveredIn(c)
  BY <1>3, ReservedIs DEF AdmitMove, CoveredIn
<1> QED
  BY <1>1, <1>2, <1>3 DEF Calm

LEMMA CoveredFill ==
  ASSUME NEW c \in Databases, NEW d \in Databases, OrdersSound(c), OrdersSound(d), CoveredIn(d),
         NEW k \in Signals, NEW q \in Nat, NEW b \in Shapes, FillMove(c, d, k, q, b),
         SideOf[k] = "SELL" => c.cash >= d.cash
  PROVE  CoveredIn(c)
<1>1. PICK price \in Nat : price = FillPrice(k, b) /\ (SideOf[k] = "BUY" => price <= CapOf[k])
  BY FillPriceNat
<1>2. c = Filled(d, k, q, price) /\ Live(d.order[k]) /\ q <= d.order[k].remaining
      /\ d.order[k].remaining \in Nat /\ d.order[k].notional \in Nat
  BY <1>1, DatabaseIs DEF FillMove, Orders
<1>3. /\ \A j \in Signals \ {k} : c.order[j] = d.order[j]
      /\ c.order[k].remaining = d.order[k].remaining - q
      /\ c.order[k].notional = d.order[k].notional + price * q
      /\ c.order[k].fees = d.order[k].fees + FeeDue(k, d.order[k], price * q)
  BY <1>2, FilledIs
<1>4. CASE SideOf[k] = "BUY"
  <2>1. c.cash = d.cash - price * q - FeeDue(k, d.order[k], price * q)
    <3>1. BoughtInto(c, d, k, q, price)
      BY <1>2, <1>4, FilledBuys
    <3> QED
      BY <3>1 DEF BoughtInto
  <2>2. PICK o, n : o = d.order[k] /\ n = c.order[k]
    OBVIOUS
  <2>3. o.fees = Fees(k, o.notional)
    BY <2>2 DEF OrdersSound
  <2>4. /\ Still(k, n) \in Nat /\ Still(k, o) \in Nat /\ FeeDue(k, o, price * q) \in Nat /\ price * q \in Nat
        /\ Still(k, n) + price * q + FeeDue(k, o, price * q) <= Still(k, o)
    BY <1>1, <1>2, <1>3, <1>4, <2>2, <2>3, FillSpares
  <2>5. PICK spent \in Nat : spent = price * q + FeeDue(k, o, price * q)
    BY <2>4
  <2>6. c.cash = d.cash - spent /\ Still(k, n) + spent <= Still(k, o)
    <3>1. d.cash \in Nat
      BY DatabaseIs
    <3> QED
      BY <2>1, <2>2, <2>4, <2>5, <3>1
  <2>7. k \in Buys(d)
    BY <1>2, <1>4 DEF Buys, LiveOrders
  <2> QED
    BY <1>3, <2>2, <2>6, <2>7, CoveredBuy
<1>5. CASE SideOf[k] = "SELL"
  <2>1. \A j \in Buys(c) : j \in Buys(d) /\ c.order[j] = d.order[j]
    BY <1>3, <1>5 DEF Buys, LiveOrders
  <2>2. d.cash <= c.cash
    BY <1>5, DatabaseIs
  <2> QED
    BY <2>1, <2>2, CoveredFewer
<1> QED
  BY <1>4, <1>5, LedgerAssumption

LEMMA CoverStep ==
  ASSUME Inv, TypeOK, Cover, [Next]_vars, [SalesPay]_vars
  PROVE  Cover'
<1>1. TypeOK' /\ Inv'
  BY TypesStep, InvStep
<1>2. /\ db \in Databases /\ db' \in Databases
      /\ ~Idle => tx.db \in Databases
      /\ ~Idle' => tx'.db \in Databases
  BY <1>1, TypedIs, TxTyped DEF TypeOK, Idle, Transactions
<1>3. /\ OrdersSound(db) /\ OrdersSound(db')
      /\ ~Idle => OrdersSound(tx.db)
      /\ ~Idle' => OrdersSound(tx'.db)
  BY <1>1 DEF Inv, TransactionSound, Sound
<1>4. Calm(db', db) \/ (~Idle /\ Alike(db', tx.db))
  <2>1. Alike(db', db) => Calm(db', db)
    BY DEF Calm
  <2> QED
    BY <2>1, StepIsMove
<1>5. CoveredIn(db')
  <2>1. CASE Calm(db', db)
    BY <1>2, <1>3, <2>1, CoveredCalm DEF Cover
  <2>2. CASE ~Idle /\ Alike(db', tx.db)
    <3>1. Calm(db', tx.db)
      BY <2>2 DEF Calm
    <3> QED
      BY <1>2, <1>3, <2>2, <3>1, CoveredCalm DEF Cover
  <2> QED
    BY <1>4, <2>1, <2>2
<1>6. ASSUME ~Idle' PROVE CoveredIn(tx'.db)
  <2>1. (Idle /\ Alike(tx'.db, db)) \/ (~Idle /\ Calm(tx'.db, tx.db)) \/ (~Idle /\ FillsNext)
    BY <1>6, StepIsMove
  <2>2. CASE Idle /\ Alike(tx'.db, db)
    <3>1. Calm(tx'.db, db)
      BY <2>2 DEF Calm
    <3> QED
      BY <1>2, <1>3, <1>6, <2>2, <3>1, CoveredCalm DEF Cover
  <2>3. CASE ~Idle /\ Calm(tx'.db, tx.db)
    BY <1>2, <1>3, <1>6, <2>3, CoveredCalm DEF Cover
  <2>4. CASE ~Idle /\ FillsNext
    <3>1. PICK k \in Signals : FillNext(k) /\ \E q \in Nat, b \in Shapes : FillMove(tx'.db, tx.db, k, q, b)
      BY <2>4 DEF FillsNext
    <3>2. PICK q \in Nat, b \in Shapes : FillMove(tx'.db, tx.db, k, q, b)
      BY <3>1
    <3>3. PICK c \in Databases, d \in Databases : c = tx'.db /\ d = tx.db
      BY <1>2, <1>6, <2>4
    <3>4. SideOf[k] = "SELL" => c.cash >= d.cash
      <4>1. CASE UNCHANGED vars
        <5>1. c = d
          BY <3>3, <4>1 DEF vars
        <5>2. c.cash \in Nat
          BY DatabaseIs
        <5> QED
          BY <5>1, <5>2
      <4>2. CASE SalesPay
        BY <3>1, <3>3, <4>2 DEF SalesPay
      <4> QED
        BY <4>1, <4>2
    <3>5. OrdersSound(c) /\ OrdersSound(d) /\ CoveredIn(d) /\ FillMove(c, d, k, q, b)
      BY <1>3, <1>6, <2>4, <3>2, <3>3 DEF Cover
    <3> QED
      BY <3>3, <3>4, <3>5, CoveredFill
  <2> QED
    BY <2>1, <2>2, <2>3, <2>4
<1> QED
  BY <1>5, <1>6 DEF Cover

LEMMA CoverInit == Init => Cover
<1> SUFFICES ASSUME Init PROVE CoveredIn(db) /\ Idle
  BY DEF Cover
<1>1. db = InitDb /\ Idle /\ db \in Databases
  BY InitTyped DEF Init, Idle, TypeOK
<1>2. Buys(db) = {}
  BY <1>1 DEF InitDb, NoOrder, Buys, LiveOrders, Live
<1>3. Sum(Stills(db), Buys(db)) = 0 /\ db.cash \in Nat
  BY <1>1, <1>2, SumEmpty, DatabaseIs
<1> QED
  BY <1>1, <1>3 DEF CoveredIn

\* The cash covers what the open BUY orders may still cost at their caps, whatever
\* fills come first and however the fees round (_reserved, match_order), as long as
\* no sale is made whose fees are more than what it brings: of such a sale the code
\* asks no more than that the cash does not fall below zero (on_bar).
THEOREM CashCoversOrders == Spec /\ [][SalesPay]_vars => []Covered
<1>1. Inv /\ TypeOK /\ Cover /\ [Next]_vars /\ [SalesPay]_vars => Cover'
  BY CoverStep
<1>2. Cover => Covered
  BY DEF Cover, CoveredIn, Covered, Stills, Still, StillToPay, Buys
<1> QED
  BY <1>1, <1>2, CoverInit, Types, Invariant, PTL DEF Spec
=============================================================================
