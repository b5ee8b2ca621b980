--------------------------- MODULE MCPaperLedger ---------------------------
(***************************************************************************)
(* An instance of PaperLedger: a BUY order and two SELL orders of planA    *)
(* and a BUY order of planB, all of one symbol, so that they share the     *)
(* volume of its bars.  The capital is what b1 reserves; b2 fits beside it *)
(* once b1 is filled in part at a lower price, and then the two reserve    *)
(* the cash to the last unit.  The smallest sale pays for its own fee.     *)
(***************************************************************************)
EXTENDS PaperLedger

CONSTANTS planA, planB, symbolA, b1, b2, s1, s2

MCSymbolOf == [l \in Plans |-> symbolA]
MCPlanOf   == [k \in Signals |-> IF k = b2 THEN planB ELSE planA]
MCSideOf   == [k \in Signals |-> IF k \in {b1, b2} THEN "BUY" ELSE "SELL"]
MCQtyOf    == [k \in Signals |-> CASE k = b1 -> 4 [] k = b2 -> 2 [] k = s1 -> 2 [] k = s2 -> 1]
MCCapOf    == [k \in Signals |-> CASE k \in {b1, s2} -> 2 [] k = b2 -> 1 [] k = s1 -> 0]

Shape(low, vwap, high, close, volume, sides) ==
    [low |-> low, vwap |-> vwap, high |-> high, close |-> close, volume |-> volume, sides |-> sides]

\* The second bar has traded and has no close: it is no mark.
MCShapes == {
    Shape(1, 1, 2, 2, 6, {"BUY", "SELL"}),
    Shape(1, 2, 3, 0, 9, {"BUY", "SELL"})}

\* A bound: a behaviour has a cancellation session or the second sale.  A session
\* cancels BUY orders only, and the second sale competes with the first one.
SessionOrSecondSale == (\A z \in Sessions : db.sessions[z] = None) \/ db.order[s2].status = "none"
=============================================================================
