--------------------------- MODULE MCNotifications ---------------------------
(* TLC instances of Notifications.                                         *)
EXTENDS Notifications

CONSTANTS a1, a2, c1, c2

SameState == [e \in Notices |-> "bad"]

\* A bound of the run: a behaviour has notices of one channel only, so that
\* both channels have two notices that merge, and the internal channel rests
\* while there are cards.  No step of the internal channel leaves the bound in a
\* behaviour without cards, so that no fair behaviour with a pending row is cut.
OneChannel ==
    \/ \A e \in Cards : seen[e] = Unseen
    \/ hook /\ (\A f \in Flushers : fl[f] = Idle) /\ \A e \in Alerts : seen[e] = Unseen
=============================================================================
