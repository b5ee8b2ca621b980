------------------------- MODULE GenerationLineage -------------------------
(***************************************************************************)
(* What the A1 generation registry promises its users: the research pool   *)
(* in force is replaced only by a pool that was derived from it, and a     *)
(* study that is reported on a pool had that pool in force from its first  *)
(* to its last moment.  A1Registry is shown to implement this.             *)
(***************************************************************************)
CONSTANTS
    Builds,  \* attempts to build a generation
    Studies, \* research updates that evaluate the generation in force
    None

VARIABLES
    active,    \* the generation in force
    parent,    \* the generation each build is derived from
    published, \* generations that are or were in force
    open,      \* studies whose generation is still in force
    reported   \* studies that ended well

lineageVars == <<active, parent, published, open, reported>>

Init ==
    /\ active = None
    /\ published = {} /\ open = {} /\ reported = {}
    /\ parent = [b \in Builds |-> None]

\* A build takes the generation in force as its basis.
Begin(b) ==
    /\ b \notin published
    /\ parent' = [parent EXCEPT ![b] = active]
    /\ UNCHANGED <<active, published, open, reported>>

\* A build replaces its basis, and only that; every open study has lost its pool.
Publish(b) ==
    /\ b \notin published /\ parent[b] = active
    /\ active' = b
    /\ published' = published \cup {b}
    /\ open' = {}
    /\ UNCHANGED <<parent, reported>>

Open(s) ==
    /\ active # None /\ s \notin open \cup reported
    /\ open' = open \cup {s}
    /\ UNCHANGED <<active, parent, published, reported>>

\* A study may end without a result at any time.
Close(s) ==
    /\ open' = open \ {s}
    /\ UNCHANGED <<active, parent, published, reported>>

Report(s) ==
    /\ s \in open
    /\ open' = open \ {s}
    /\ reported' = reported \cup {s}
    /\ UNCHANGED <<active, parent, published>>

Next ==
    \/ \E b \in Builds : Begin(b) \/ Publish(b)
    \/ \E s \in Studies : Open(s) \/ Close(s) \/ Report(s)

Spec == Init /\ [][Next]_lineageVars
=============================================================================
