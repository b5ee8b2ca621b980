----------------------------- MODULE AtMostOnce -----------------------------
(***************************************************************************)
(* What an outbox promises to the readers of its channel: a message that   *)
(* was accepted is put on the wire at most once.  A message that is taken  *)
(* may never be heard of again; it may be handed back only while nothing   *)
(* of it was sent.                                                         *)
(***************************************************************************)
EXTENDS Naturals

CONSTANT Messages

VARIABLES
    box,   \* "absent", "queued", "taken", "over" or "merged", by message
    wire   \* how often each message was put on the wire

Put(m, s) == box' = [box EXCEPT ![m] = s]

Init ==
    /\ box = [m \in Messages |-> "absent"]
    /\ wire = [m \in Messages |-> 0]

Accept(m) == box[m] = "absent" /\ \E s \in {"queued", "merged"} : Put(m, s) /\ UNCHANGED wire

Take(m) == box[m] = "queued" /\ Put(m, "taken") /\ UNCHANGED wire

Post(m) == box[m] = "taken" /\ wire[m] = 0 /\ wire' = [wire EXCEPT ![m] = 1] /\ UNCHANGED box

HandBack(m) == box[m] = "taken" /\ wire[m] = 0 /\ Put(m, "queued") /\ UNCHANGED wire

End(m) == box[m] = "taken" /\ Put(m, "over") /\ UNCHANGED wire

Next == \E m \in Messages : Accept(m) \/ Take(m) \/ Post(m) \/ HandBack(m) \/ End(m)

Spec == Init /\ [][Next]_<<box, wire>>
=============================================================================
