------------------------- MODULE BoundedWorkProofs -------------------------
(***************************************************************************)
(* Proofs about BoundedWork, for any calls, keys, batches and slots.       *)
(*                                                                         *)
(* The argument: a caller has no worker before it spawns one, and a worker *)
(* that was reported as refused has a caller that is done (Threads); the   *)
(* calls from the registration of a key to its end hold it alone           *)
(* (KeysHeld) and a held key has such a call (KeysOwned); every step moves *)
(* at most one slot (SlotStep).                                            *)
(***************************************************************************)
EXTENDS BoundedWork, FiniteSetTheorems, TLAPS

\* A call has a worker only after it spawned one; what is refused has none.
Threads ==
    /\ \A c \in Calls : pc[c] \in {"idle", "check", "admit", "admitted", "register", "spawn", "giveBack"}
                          => work[c] = "none"
    /\ \A w \in Workers : answer[w] # "BACKPRESSURE"
    /\ \A c \in Calls : output[c] = "BACKPRESSURE" => work[c] = "none" /\ pc[c] = "done"
    /\ \A o \in Ops : output[o] = "BACKPRESSURE" => work[o] = "none" /\ pc[BatchOf[o]] = "done"

\* The calls that hold their key.
Keyed(c) == KeyOf[c] # NoKey /\ (pc[c] = "spawn" \/ work[c] \in {"running", "answered"})

KeysHeld ==
    /\ \A c \in Calls : Keyed(c) => KeyOf[c] \in keys
    /\ \A c, d \in Calls : (c # d /\ Keyed(c) /\ Keyed(d)) => KeyOf[c] # KeyOf[d]

Sound == TypeOK /\ Threads /\ KeysHeld

LEMMA SoundInit == Init => Sound
BY WorkAssumption
DEF Init, Sound, TypeOK, Threads, KeysHeld, Keyed, PCs, Statuses, Callers, Workers

LEMMA SoundStep == Sound /\ [Next]_vars => Sound'
<1> SUFFICES ASSUME Sound, [Next]_vars PROVE Sound'
    OBVIOUS
<1> USE WorkAssumption DEF Sound, Callers, Workers, PCs, Statuses
<1>1. ASSUME NEW c \in Calls, Begin(c) PROVE Sound'
    BY <1>1 DEF Begin, Go, Return, TypeOK, Threads, KeysHeld, Keyed
<1>2. ASSUME NEW c \in Calls, CheckKey(c) PROVE Sound'
    BY <1>2 DEF CheckKey, Go, Return, TypeOK, Threads, KeysHeld, Keyed
<1>3. ASSUME NEW c \in Calls, Admit(c) PROVE Sound'
    BY <1>3 DEF Admit, Refused, SlotFree, Go, Return, TypeOK, Threads, KeysHeld, Keyed
<1>4. ASSUME NEW c \in Calls, CheckDeadline(c) PROVE Sound'
    BY <1>4 DEF CheckDeadline, Go, Return, TypeOK, Threads, KeysHeld, Keyed
<1>5. ASSUME NEW c \in Calls, Register(c) PROVE Sound'
    BY <1>5 DEF Register, Duplicate, Go, Return, TypeOK, Threads, KeysHeld, Keyed
<1>6. ASSUME NEW c \in Calls, Spawn(c) PROVE Sound'
    BY <1>6 DEF Spawn, Go, TypeOK, Threads, KeysHeld, Keyed
<1>7. ASSUME NEW c \in Calls, SpawnFails(c) PROVE Sound'
    BY <1>7 DEF SpawnFails, Go, TypeOK, Threads, KeysHeld, Keyed
<1>8. ASSUME NEW c \in Calls, GiveBack(c) PROVE Sound'
    BY <1>8 DEF GiveBack, Go, Return, TypeOK, Threads, KeysHeld, Keyed
<1>9. ASSUME NEW c \in Calls, Collect(c) PROVE Sound'
    BY <1>9 DEF Collect, Go, Return, TypeOK, Threads, KeysHeld, Keyed
<1>10. ASSUME NEW c \in Calls, GiveUp(c) PROVE Sound'
    BY <1>10 DEF GiveUp, Go, Return, TypeOK, Threads, KeysHeld, Keyed
<1>11. ASSUME NEW b \in Batches, BeginBatch(b) PROVE Sound'
    BY <1>11 DEF BeginBatch, Go, TypeOK, Threads, KeysHeld, Keyed
<1>12. ASSUME NEW b \in Batches, Launch(b) PROVE Sound'
    BY <1>12 DEF Launch, SlotFree, Unlaunched, OpsOf, Go, TypeOK, Threads, KeysHeld, Keyed
<1>13. ASSUME NEW b \in Batches, StopLaunching(b) PROVE Sound'
    BY <1>13 DEF StopLaunching, Go, TypeOK, Threads, KeysHeld, Keyed
<1>14. ASSUME NEW b \in Batches, Get(b) PROVE Sound'
    BY <1>14 DEF Get, Queue, InFlight, OpsOf, Go, TypeOK, Threads, KeysHeld, Keyed
<1>15. ASSUME NEW b \in Batches, GetTimesOut(b) PROVE Sound'
    BY <1>15 DEF GetTimesOut, Go, TypeOK, Threads, KeysHeld, Keyed
<1>16. ASSUME NEW b \in Batches, Finish(b) PROVE Sound'
    BY <1>16 DEF Finish, Reported, Queue, InFlight, Unlaunched, OpsOf, Go, TypeOK, Threads, KeysHeld, Keyed
<1>17. ASSUME NEW w \in Workers, Answer(w) PROVE Sound'
    BY <1>17 DEF Answer, TypeOK, Threads, KeysHeld, Keyed
<1>18. ASSUME NEW c \in Workers, Unregister(c) PROVE Sound'
    BY <1>18 DEF Unregister, TypeOK, Threads, KeysHeld, Keyed
<1>19. ASSUME NEW w \in Workers, ReleaseSlot(w) PROVE Sound'
    BY <1>19 DEF ReleaseSlot, TypeOK, Threads, KeysHeld, Keyed
<1>20. ASSUME NEW o \in Workers, Put(o) PROVE Sound'
    BY <1>20 DEF Put, TypeOK, Threads, KeysHeld, Keyed
<1>21. ASSUME NEW c \in Callers, Expire(c) PROVE Sound'
    BY <1>21 DEF Expire, TypeOK, Threads, KeysHeld, Keyed
<1>22. CASE UNCHANGED vars
    BY <1>22 DEF vars, TypeOK, Threads, KeysHeld, Keyed
<1> QED
    BY <1>1, <1>2, <1>3, <1>4, <1>5, <1>6, <1>7, <1>8, <1>9, <1>10, <1>11, <1>12, <1>13, <1>14,
       <1>15, <1>16, <1>17, <1>18, <1>19, <1>20, <1>21, <1>22
    DEF Next, CallStep, BatchStep, EndWorker

\* Every reachable state of the gate, its callers and its workers has its type.
THEOREM TypeCorrect == Spec => []TypeOK
<1>1. Sound => TypeOK
    BY DEF Sound
<1> QED
    BY <1>1, SoundInit, SoundStep, PTL DEF Spec

\* Two workers never run operations of the same key, however long the second
\* call waited for its slot (BoundedWorkGate.call).
THEOREM KeysExclusive == Spec => []OneWorkerPerKey
<1>1. Sound => OneWorkerPerKey
    BY DEF Sound, KeysHeld, Keyed, OneWorkerPerKey
<1> QED
    BY <1>1, SoundInit, SoundStep, PTL DEF Spec

\* What is reported as BACKPRESSURE was never started (BoundedWorkGate.call,
\* run_many_bounded).
THEOREM RefusedNeverRan == Spec => []BackpressureNeverRan
<1>1. Sound => BackpressureNeverRan
    BY DEF Sound, Threads, BackpressureNeverRan, Workers
<1> QED
    BY <1>1, SoundInit, SoundStep, PTL DEF Spec

-----------------------------------------------------------------------------
(* The slots.                                                              *)

\* A step takes one slot for one holder, gives one back, or moves none.
SlotStep ==
    \/ Holders' = Holders /\ free' = free
    \/ \E w \in Workers : w \notin Holders /\ Holders' = Holders \cup {w} /\ free' = free - 1
    \/ \E w \in Holders : Holders' = Holders \ {w} /\ free' = free + 1

LEMMA OneSlotAtATime == ASSUME Sound, [Next]_vars PROVE SlotStep
<1> USE WorkAssumption DEF Sound, TypeOK, Callers, Workers, PCs
<1>1. ASSUME NEW c \in Calls, Begin(c) PROVE SlotStep
    BY <1>1 DEF Begin, Go, Return, Holders, SlotStep
<1>2. ASSUME NEW c \in Calls, CheckKey(c) PROVE SlotStep
    BY <1>2 DEF CheckKey, Go, Return, Holders, SlotStep
<1>3. ASSUME NEW c \in Calls, Admit(c) PROVE SlotStep
    <2>1. CASE Go(c, "admitted") /\ free' = free - 1
        <3>1. c \notin Holders /\ Holders' = Holders \cup {c}
            BY <1>3, <2>1 DEF Admit, Go, Holders, Threads
        <3> QED
            BY <2>1, <3>1 DEF SlotStep
    <2>2. CASE Return(c, "BACKPRESSURE") /\ free' = free
        BY <1>3, <2>2 DEF Admit, Go, Return, Holders, SlotStep
    <2> QED
        BY <1>3, <2>1, <2>2 DEF Admit
<1>4. ASSUME NEW c \in Calls, CheckDeadline(c) PROVE SlotStep
    <2>1. CASE c \in late
        <3>1. c \in Holders /\ Holders' = Holders \ {c} /\ free' = free + 1
            BY <1>4, <2>1 DEF CheckDeadline, Go, Return, Holders, Threads
        <3> QED
            BY <3>1 DEF SlotStep
    <2>2. CASE c \notin late
        BY <1>4, <2>2 DEF CheckDeadline, Go, Holders, SlotStep
    <2> QED
        BY <2>1, <2>2
<1>5. ASSUME NEW c \in Calls, Register(c) PROVE SlotStep
    <2>1. CASE Duplicate(c)
        <3>1. c \in Holders /\ Holders' = Holders \ {c} /\ free' = free + 1
            BY <1>5, <2>1 DEF Register, Go, Return, Holders, Threads
        <3> QED
            BY <3>1 DEF SlotStep
    <2>2. CASE ~Duplicate(c)
        BY <1>5, <2>2 DEF Register, Go, Holders, SlotStep
    <2> QED
        BY <2>1, <2>2
<1>6. ASSUME NEW c \in Calls, Spawn(c) PROVE SlotStep
    BY <1>6 DEF Spawn, Go, Holders, SlotStep
<1>7. ASSUME NEW c \in Calls, SpawnFails(c) PROVE SlotStep
    BY <1>7 DEF SpawnFails, Go, Holders, SlotStep
<1>8. ASSUME NEW c \in Calls, GiveBack(c) PROVE SlotStep
    <2>1. c \in Holders /\ Holders' = Holders \ {c} /\ free' = free + 1
        BY <1>8 DEF GiveBack, Go, Return, Holders, Threads
    <2> QED
        BY <2>1 DEF SlotStep
<1>9. ASSUME NEW c \in Calls, Collect(c) PROVE SlotStep
    BY <1>9 DEF Collect, Go, Return, Holders, SlotStep
<1>10. ASSUME NEW c \in Calls, GiveUp(c) PROVE SlotStep
    BY <1>10 DEF GiveUp, Go, Return, Holders, SlotStep
<1>11. ASSUME NEW b \in Batches, BeginBatch(b) \/ StopLaunching(b) \/ Get(b) \/ GetTimesOut(b) \/ Finish(b)
       PROVE  SlotStep
    BY <1>11 DEF BeginBatch, StopLaunching, Get, GetTimesOut, Finish, Go, Holders, SlotStep
<1>12. ASSUME NEW b \in Batches, Launch(b) PROVE SlotStep
    <2>1. PICK o \in Unlaunched(b) :
            /\ work' = [work EXCEPT ![o] = "running"] \/ work' = [work EXCEPT ![o] = "unstarted"]
            /\ pc' = pc \/ pc' = [pc EXCEPT ![b] = "raised"]
        BY <1>12 DEF Launch, Go
    <2>2. o \in Ops /\ work[o] = "none"
        BY DEF Unlaunched, OpsOf
    <2>3. o \notin Holders /\ Holders' = Holders \cup {o} /\ free' = free - 1
        BY <1>12, <2>1, <2>2 DEF Launch, Holders
    <2> QED
        BY <2>2, <2>3 DEF SlotStep
<1>13. ASSUME NEW w \in Workers, Answer(w) \/ Unregister(w) \/ Put(w) PROVE SlotStep
    BY <1>13 DEF Answer, Unregister, Put, Holders, SlotStep
<1>14. ASSUME NEW w \in Workers, ReleaseSlot(w) PROVE SlotStep
    <2>1. w \in Holders /\ Holders' = Holders \ {w} /\ free' = free + 1
        BY <1>14 DEF ReleaseSlot, Holders, Threads
    <2> QED
        BY <2>1 DEF SlotStep
<1>15. ASSUME NEW c \in Callers, Expire(c) PROVE SlotStep
    BY <1>15 DEF Expire, Holders, SlotStep
<1>16. CASE UNCHANGED vars
    BY <1>16 DEF vars, Holders, SlotStep
<1> QED
    BY <1>1, <1>2, <1>3, <1>4, <1>5, <1>6, <1>7, <1>8, <1>9, <1>10, <1>11, <1>12, <1>13, <1>14, <1>15, <1>16
    DEF Next, CallStep, BatchStep, EndWorker

LEMMA HoldersFinite == IsFiniteSet(Holders) /\ Cardinality(Holders) \in Nat
<1>1. IsFiniteSet(Workers)
    BY WorkAssumption, FS_Union DEF Workers
<1>2. Holders \subseteq Workers
    BY DEF Holders, Workers
<1> QED
    BY <1>1, <1>2, FS_Subset, FS_CardinalityType

LEMMA AccountedStep == ASSUME Sound, SlotsAccounted, [Next]_vars PROVE SlotsAccounted'
<1> USE DEF SlotsAccounted, Sound, TypeOK
<1>1. IsFiniteSet(Holders) /\ Cardinality(Holders) \in Nat
    BY HoldersFinite
<1>2. CASE Holders' = Holders /\ free' = free
    BY <1>2
<1>3. ASSUME NEW w \in Workers, w \notin Holders, Holders' = Holders \cup {w}, free' = free - 1
      PROVE  SlotsAccounted'
    <2>1. Cardinality(Holders') = Cardinality(Holders) + 1
        BY <1>1, <1>3, FS_AddElement
    <2> QED
        BY <1>1, <1>3, <2>1, WorkAssumption
<1>4. ASSUME NEW w \in Holders, Holders' = Holders \ {w}, free' = free + 1
      PROVE  SlotsAccounted'
    <2>1. Cardinality(Holders') = Cardinality(Holders) - 1
        BY <1>1, <1>4, FS_RemoveElement
    <2> QED
        BY <1>1, <1>4, <2>1, WorkAssumption
<1> QED
    BY <1>2, <1>3, <1>4, OneSlotAtATime DEF SlotStep

\* Every slot is free or has one holder: no deadline, duplicate, failed thread
\* or late worker frees a slot twice (BoundedWorkGate, run_many_bounded).
THEOREM SlotConservation == Spec => []SlotsAccounted
<1>1. Init => SlotsAccounted
    <2> SUFFICES ASSUME Init PROVE SlotsAccounted
        OBVIOUS
    <2>1. Holders = {}
        BY WorkAssumption DEF Init, Holders, Callers, Workers
    <2> QED
        BY <2>1, FS_EmptySet, WorkAssumption DEF Init, SlotsAccounted
<1> QED
    BY <1>1, SoundInit, SoundStep, AccountedStep, PTL DEF Spec

\* The bookkeeping of the gate, for any number of calls, batches and slots
\* (BoundedWorkGate.call, run_many_bounded).
THEOREM GateIsSound == Spec => []GateSound
BY SlotConservation, KeysExclusive, RefusedNeverRan, PTL DEF GateSound
-----------------------------------------------------------------------------
(* What is left when nobody is under way.                                  *)

\* Every registered key belongs to a call that holds it, and no thread of a
\* call is left unstarted.
KeysOwned ==
    /\ \A k \in keys : \E c \in Calls : Keyed(c) /\ KeyOf[c] = k
    /\ \A c \in Calls : work[c] # "unstarted"

LEMMA OwnedStep == ASSUME Sound, KeysOwned, [Next]_vars PROVE KeysOwned'
<1> USE WorkAssumption DEF Sound, TypeOK, Callers, Workers, PCs
<1>1. ASSUME NEW c \in Calls, Begin(c) PROVE KeysOwned'
    BY <1>1 DEF Begin, Go, Return, KeysOwned, Keyed
<1>2. ASSUME NEW c \in Calls, CheckKey(c) PROVE KeysOwned'
    BY <1>2 DEF CheckKey, Go, Return, KeysOwned, Keyed
<1>3. ASSUME NEW c \in Calls, Admit(c) PROVE KeysOwned'
    BY <1>3 DEF Admit, Go, Return, KeysOwned, Keyed
<1>4. ASSUME NEW c \in Calls, CheckDeadline(c) PROVE KeysOwned'
    BY <1>4 DEF CheckDeadline, Go, Return, KeysOwned, Keyed
<1>5. ASSUME NEW c \in Calls, Register(c) PROVE KeysOwned'
    BY <1>5 DEF Register, Go, Return, KeysOwned, Keyed
<1>6. ASSUME NEW c \in Calls, Spawn(c) PROVE KeysOwned'
    BY <1>6 DEF Spawn, Go, KeysOwned, Keyed
<1>7. ASSUME NEW c \in Calls, SpawnFails(c) PROVE KeysOwned'
    BY <1>7 DEF SpawnFails, Go, KeysOwned, Keyed, KeysHeld
<1>8. ASSUME NEW c \in Calls, GiveBack(c) PROVE KeysOwned'
    BY <1>8 DEF GiveBack, Go, Return, KeysOwned, Keyed
<1>9. ASSUME NEW c \in Calls, Collect(c) \/ GiveUp(c) PROVE KeysOwned'
    BY <1>9 DEF Collect, GiveUp, Go, Return, KeysOwned, Keyed
<1>10. ASSUME NEW b \in Batches, BeginBatch(b) \/ StopLaunching(b) \/ Get(b) \/ GetTimesOut(b) \/ Finish(b)
       PROVE  KeysOwned'
    BY <1>10 DEF BeginBatch, StopLaunching, Get, GetTimesOut, Finish, Go, KeysOwned, Keyed
<1>11. ASSUME NEW b \in Batches, Launch(b) PROVE KeysOwned'
    BY <1>11 DEF Launch, Unlaunched, OpsOf, Go, KeysOwned, Keyed
<1>12. ASSUME NEW w \in Workers, Answer(w) PROVE KeysOwned'
    BY <1>12 DEF Answer, KeysOwned, Keyed
<1>13. ASSUME NEW c \in Workers, Unregister(c) PROVE KeysOwned'
    BY <1>13 DEF Unregister, KeysOwned, Keyed, KeysHeld
<1>14. ASSUME NEW w \in Workers, ReleaseSlot(w) \/ Put(w) PROVE KeysOwned'
    BY <1>14 DEF ReleaseSlot, Put, KeysOwned, Keyed
<1>15. ASSUME NEW c \in Callers, Expire(c) PROVE KeysOwned'
    BY <1>15 DEF Expire, KeysOwned, Keyed
<1>16. CASE UNCHANGED vars
    BY <1>16 DEF vars, KeysOwned, Keyed
<1> QED
    BY <1>1, <1>2, <1>3, <1>4, <1>5, <1>6, <1>7, <1>8, <1>9, <1>10, <1>11, <1>12, <1>13, <1>14, <1>15, <1>16
    DEF Next, CallStep, BatchStep, EndWorker

\* When no caller and no thread is under way, every key is free and every slot
\* but that of a batch whose thread did not start, whatever failed and in
\* whatever order calls and workers ended (BoundedWorkGate.call,
\* run_many_bounded).
THEOREM EverythingGivenBack == Spec => []StartedGivesBack
<1>1. Init => KeysOwned
    BY WorkAssumption DEF Init, KeysOwned, Workers
<1>2. Sound /\ KeysOwned /\ SlotsAccounted => StartedGivesBack
    <2> SUFFICES ASSUME Sound, KeysOwned, SlotsAccounted, Quiet
                 PROVE  keys = {} /\ free = MaxInflight - Cardinality({o \in Ops : work[o] = "unstarted"})
        BY DEF StartedGivesBack
    <2>1. keys = {}
        BY DEF Quiet, KeysOwned, Keyed, Callers, Workers
    <2>2. Holders = {o \in Ops : work[o] = "unstarted"}
        BY DEF Quiet, KeysOwned, Holders, Callers, Workers
    <2>3. Cardinality(Holders) \in Nat
        BY HoldersFinite
    <2> QED
        BY <2>1, <2>2, <2>3, WorkAssumption DEF SlotsAccounted, Sound, TypeOK
<1> QED
    BY <1>1, <1>2, OwnedStep, SoundInit, SoundStep, SlotConservation, PTL DEF Spec

=============================================================================
