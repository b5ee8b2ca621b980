----------------------------- MODULE A1Registry -----------------------------
(***************************************************************************)
(* The A1 generation registry (pipeline/a1_registry.py) and the processes  *)
(* that use it (workflow.py, runtime/research_update.py): maintenance      *)
(* builds a generation from the active one over hours, seals it and swaps  *)
(* the pointer with a compare-and-swap; the natural close makes sure that  *)
(* the active generation is of its day, refreshes it itself if it is not,  *)
(* and consumes it; a research update evaluates the active generation.     *)
(*                                                                         *)
(* A generation has the name of the process that builds it.  Time is an    *)
(* instant; SourceDay is the session that was last closed at that instant. *)
(***************************************************************************)
EXTENDS Integers

CONSTANTS
    Weekly,  \* run_a1_maintenance of a schedule: the evening of a session
    Closes,  \* natural closes: run_research with its _ensure_daily_a1
    Updates, \* A1 research updates from an exact seed
    Studies, \* A2_A3 research updates
    Full,    \* the weekly processes in FULL mode; the others are INCREMENTAL
    None,
    SourceDay(_), \* instant -> session
    MaxNow        \* bound on time

Builds == Weekly \cup Closes \cup Updates

ASSUME RegistryAssumption ==
    /\ Weekly \cap Closes = {} /\ Updates \cap (Weekly \cup Closes) = {}
    /\ Studies \cap Builds = {}
    /\ Full \subseteq Weekly
    /\ None \notin Builds
    /\ MaxNow \in Nat
    /\ \A t \in 0..MaxNow : SourceDay(t) \in Int
    /\ \A t, u \in 0..MaxNow : t <= u => SourceDay(t) <= SourceDay(u)

VARIABLES
    now,
    pc,        \* where each process is
    runAt,     \* the time of a close, current in run_research
    ensured,   \* the time it passed to _ensure_daily_a1
    current,   \* the time of a build, current in run_a1_maintenance
    base,      \* the active generation a process read: base_generation_id, expected_current_id, the binding
    status,    \* a1_generations.status
    asOf,      \* a1_generations.as_of
    completed, \* capture_completed_at of the closed session proof
    pointer,   \* a1_active_pointer
    used,      \* the generation a close consumes
    published  \* history: the generations that were ever active

vars == <<now, pc, runAt, ensured, current, base, status, asOf, completed, pointer, used, published>>

Processes == Builds \cup Studies

Init ==
    /\ now = 0
    /\ pc = [p \in Processes |-> "idle"]
    /\ runAt = [c \in Closes |-> 0]
    /\ current = [p \in Builds |-> 0]
    /\ ensured = [c \in Closes |-> 0]
    /\ base = [p \in Processes |-> None]
    /\ status = [g \in Builds |-> "none"]
    /\ asOf = [g \in Builds |-> 0]
    /\ completed = [g \in Builds |-> 0]
    /\ pointer = [id |-> None, previous |-> None]
    /\ used = [c \in Closes |-> None]
    /\ published = {}

Goto(p, next) == pc' = [pc EXCEPT ![p] = next]

registry == <<status, asOf, completed, pointer, published>>

-----------------------------------------------------------------------------
(* run_a1_maintenance.                                                     *)

\* The weekly process takes its clock and reads the active generation a little
\* later; no session closes in between.
StartWeekly(w) ==
    /\ pc[w] = "idle"
    /\ current' = [current EXCEPT ![w] = now]
    /\ Goto(w, "start")
    /\ UNCHANGED <<now, runAt, ensured, base, used, registry>>

\* Not due, or published today already: an incremental process stops.
PublishedToday(w) ==
    pointer.id # None /\ SourceDay(asOf[pointer.id]) = SourceDay(current[w])

ReadActive(w) ==
    /\ pc[w] = "start"
    /\ w \in Weekly => SourceDay(now) = SourceDay(current[w])
    /\ base' = [base EXCEPT ![w] = pointer.id]
    /\ \/ w \in Full \cup Closes /\ Goto(w, "prepare")
       \/ w \in Weekly \ Full /\ pointer.id # None /\ ~PublishedToday(w) /\ Goto(w, "prepare")
       \/ w \in Weekly \ Full /\ (pointer.id = None \/ PublishedToday(w)) /\ Goto(w, "noop")
    /\ UNCHANGED <<now, runAt, ensured, current, used, registry>>

\* An update is bound to the active generation and to a seed of the session that
\* is closed now; its generation has the time of the seed.
StartUpdate(u) ==
    /\ pc[u] = "idle" /\ pointer.id # None
    /\ base' = [base EXCEPT ![u] = pointer.id]
    /\ \E seed \in {t \in 0..now : SourceDay(t) = SourceDay(now)} : current' = [current EXCEPT ![u] = seed]
    /\ Goto(u, "prepare")
    /\ UNCHANGED <<now, runAt, ensured, used, registry>>

\* A snapshot that proves a closed session was captured within that session and
\* has the time of its last original.
CaptureTimes(g) ==
    IF g \in Closes THEN {t \in current[g]..now : SourceDay(now) = SourceDay(current[g])}
    ELSE {current[g]}

\* Preparing the snapshot of a close takes time, a seed is ready.
Create(g) ==
    /\ pc[g] = "prepare"
    /\ g \in Closes => current[g] < now
    /\ \E t \in CaptureTimes(g) : asOf' = [asOf EXCEPT ![g] = t]
    /\ completed' = [completed EXCEPT ![g] = IF g \in Closes THEN now ELSE current[g]]
    /\ status' = [status EXCEPT ![g] = "STAGING"]
    /\ Goto(g, "build")
    /\ UNCHANGED <<now, runAt, ensured, current, base, pointer, used, published>>

\* The capture is validated again before the generation is sealed, and an
\* update requires the generation it is bound to.
MaySeal(g) ==
    /\ g \in Closes \cup Updates => SourceDay(now) = SourceDay(asOf[g])
    /\ g \in Updates => pointer.id = base[g]

Seal(g) ==
    /\ pc[g] = "build" /\ MaySeal(g) /\ status[g] = "STAGING"
    /\ status' = [status EXCEPT ![g] = "SEALED"]
    /\ Goto(g, "sealed")
    /\ UNCHANGED <<now, runAt, ensured, current, base, asOf, completed, pointer, used, published>>

\* A bug: the swap expects whatever is active.
SwapAny(g) == TRUE

\* A bug: a generation that was overtaken by another build may still replace
\* the one that build replaced.
SwapPrevious(g) == base[g] \in {pointer.id, pointer.previous}

\* activate_generation compares the pointer with the one the process read.
SwapExpected(g) == pointer.id = base[g]

Activate(g) ==
    /\ pc[g] = "sealed" /\ status[g] = "SEALED" /\ SwapExpected(g)
    /\ pointer' = [id |-> g, previous |-> pointer.id]
    /\ published' = published \cup {g}
    /\ Goto(g, "activated")
    /\ UNCHANGED <<now, runAt, ensured, current, base, status, asOf, completed, used>>

\* Progress, resources and the summary are written; the result is PUBLISHED.
ReportPublished(g) ==
    /\ pc[g] = "activated"
    /\ Goto(g, IF g \in Closes THEN "refreshed" ELSE "published")
    /\ UNCHANGED <<now, runAt, ensured, current, base, used, registry>>

\* Anything may raise: the capture, the models, the contract, the swap, and what
\* is written after the swap.
Raise(g) ==
    /\ pc[g] \in {"prepare", "build", "sealed", "activated"}
    /\ Goto(g, IF pc[g] = "prepare" THEN "failed" ELSE "failing")
    /\ UNCHANGED <<now, runAt, ensured, current, base, used, registry>>

\* fail_generation refuses a sealed generation and the refusal is ignored.
RecordFailure(g) ==
    /\ pc[g] = "failing"
    /\ status' = [status EXCEPT ![g] = IF @ = "STAGING" THEN "FAILED" ELSE @]
    /\ Goto(g, "failed")
    /\ UNCHANGED <<now, runAt, ensured, current, base, asOf, completed, pointer, used, published>>

-----------------------------------------------------------------------------
(* run_research of the natural close.                                      *)

StartClose(c) ==
    /\ pc[c] = "idle"
    /\ runAt' = [runAt EXCEPT ![c] = now]
    /\ Goto(c, "ensure")
    /\ UNCHANGED <<now, ensured, current, base, used, registry>>

\* A bug: any generation that is not of the future counts as today's.
IsDailyPast(g, t) == g # None /\ (IF g \in Weekly THEN asOf[g] ELSE completed[g]) <= t

\* current_generation in _ensure_daily_a1 called at time t: a generation of the
\* session, and no original of it is later than t.
IsDaily(g, t) ==
    /\ g # None
    /\ SourceDay(asOf[g]) = SourceDay(t)
    /\ (IF g \in Weekly THEN asOf[g] ELSE completed[g]) <= t

EnsureDaily(c) ==
    /\ pc[c] = "ensure"
    /\ ensured' = [ensured EXCEPT ![c] = now]
    /\ Goto(c, IF IsDaily(pointer.id, now) THEN "consume" ELSE "refresh")
    /\ UNCHANGED <<now, runAt, current, base, used, registry>>

\* The refresh is a maintenance process with a clock of its own; the mode is
\* INCREMENTAL if there was a generation, and it is not when there is none.
Refresh(c) ==
    /\ pc[c] = "refresh"
    /\ current' = [current EXCEPT ![c] = now]
    /\ Goto(c, "start")
    /\ UNCHANGED <<now, runAt, ensured, base, used, registry>>

\* The refreshed generation is judged at the time the close came in.
VerifyRefresh(c) ==
    /\ pc[c] = "refreshed"
    /\ Goto(c, IF IsDaily(pointer.id, ensured[c]) THEN "consume" ELSE "blocked")
    /\ UNCHANGED <<now, runAt, ensured, current, base, used, registry>>

\* require_active refuses a generation of the future of the run.
Consume(c) ==
    /\ pc[c] = "consume"
    /\ IF asOf[pointer.id] <= runAt[c]
       THEN used' = [used EXCEPT ![c] = pointer.id] /\ Goto(c, "consumed")
       ELSE Goto(c, "blocked") /\ UNCHANGED used
    /\ UNCHANGED <<now, runAt, ensured, current, base, registry>>
-----------------------------------------------------------------------------
(* A2_A3 research updates.                                                 *)

\* The generation was built from the seed of the session that is closed now.
Bind(s) ==
    /\ pc[s] = "idle"
    /\ pointer.id \in Closes \cup Updates /\ SourceDay(asOf[pointer.id]) = SourceDay(now)
    /\ base' = [base EXCEPT ![s] = pointer.id]
    /\ Goto(s, "study")
    /\ UNCHANGED <<now, runAt, ensured, current, used, registry>>

\* A bug: the generation is only required when the study starts.
StillBoundAlways(s) == TRUE

\* require_active_generation
StillBound(s) == pointer.id = base[s]

Report(s) ==
    /\ pc[s] = "study" /\ StillBound(s) /\ SourceDay(asOf[base[s]]) = SourceDay(now)
    /\ Goto(s, "reported")
    /\ UNCHANGED <<now, runAt, ensured, current, base, used, registry>>

StudyFails(s) ==
    /\ pc[s] = "study"
    /\ Goto(s, "failed")
    /\ UNCHANGED <<now, runAt, ensured, current, base, used, registry>>

-----------------------------------------------------------------------------
Tick ==
    /\ now < MaxNow
    /\ now' = now + 1
    /\ UNCHANGED <<pc, runAt, ensured, current, base, used, registry>>

\* A process that is killed takes no further step.
Next ==
    \/ \E w \in Weekly : StartWeekly(w)
    \/ \E w \in Weekly \cup Closes : ReadActive(w)
    \/ \E u \in Updates : StartUpdate(u)
    \/ \E g \in Builds :
         Create(g) \/ Seal(g) \/ Activate(g) \/ ReportPublished(g) \/ Raise(g) \/ RecordFailure(g)
    \/ \E c \in Closes :
         StartClose(c) \/ EnsureDaily(c) \/ Refresh(c) \/ VerifyRefresh(c) \/ Consume(c)
    \/ \E s \in Studies : Bind(s) \/ Report(s) \/ StudyFails(s)
    \/ Tick

Spec == Init /\ [][Next]_vars

-----------------------------------------------------------------------------
PCs == {"idle", "start", "noop", "prepare", "build", "sealed", "activated", "published", "failing",
        "failed", "ensure", "refresh", "refreshed", "consume", "consumed", "blocked", "study", "reported"}

\* Every variable has its type.
TypeOK ==
    /\ now \in 0..MaxNow
    /\ pc \in [Processes -> PCs]
    /\ runAt \in [Closes -> 0..MaxNow] /\ ensured \in [Closes -> 0..MaxNow] /\ current \in [Builds -> 0..MaxNow]
    /\ base \in [Processes -> Builds \cup {None}]
    /\ status \in [Builds -> {"none", "STAGING", "SEALED", "FAILED"}]
    /\ asOf \in [Builds -> 0..MaxNow] /\ completed \in [Builds -> 0..MaxNow]
    /\ pointer \in [id : Builds \cup {None}, previous : Builds \cup {None}]
    /\ used \in [Closes -> Builds \cup {None}]
    /\ published \subseteq Builds

\* The active generation is sealed, and so is every one that was active:
\* fail_generation of a process that raised after the swap does not touch it.
ActiveSealed == \A g \in published \cup ({pointer.id} \ {None}) : status[g] = "SEALED"

\* A build that took hours does not replace a generation it was not derived
\* from: no two active generations ever had the same basis (activate_generation).
Unforked == \A g, h \in published : g # h => base[g] # base[h]

\* The generations that were ever active form one line of sealed generations.
ActiveLine == ActiveSealed /\ Unforked

\* The active generation is never replaced by one of an earlier session, although
\* a build may be activated days after it took its clock (run_a1_maintenance).
DayNeverBack ==
    [][pointer.id # None => SourceDay(asOf[pointer.id]) <= SourceDay(asOf'[pointer'.id])]_vars

\* A close consumes a generation of the session it researches and never one
\* captured after it began, although the pointer is read three times
\* (_ensure_daily_a1, run_research).
CloseUsesItsDay ==
    \A c \in Closes : used[c] # None =>
        SourceDay(asOf[used[c]]) = SourceDay(runAt[c]) /\ asOf[used[c]] <= runAt[c]

\* The registry and its users keep what GenerationLineage promises: a study that
\* only looks at the pointer first and last had one generation throughout.
Lineage == INSTANCE GenerationLineage WITH
    active <- pointer.id,
    parent <- [g \in Builds |-> base[g]],
    open <- {s \in Studies : pc[s] = "study" /\ base[s] = pointer.id},
    reported <- {s \in Studies : pc[s] = "reported"}

Implements == Lineage!Spec
=============================================================================
