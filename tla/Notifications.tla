--------------------------- MODULE Notifications ---------------------------
(***************************************************************************)
(* Notices on their way out (runtime/notification_policy.py,               *)
(* team_v2_internal.py, lark_notifications.py, lark.py).                   *)
(*                                                                         *)
(* A notice is first observed by the policy ledger, which either lets it   *)
(* through or merges it into a group that is summarised later.  Native     *)
(* alerts go to the internal outbox, a table of another database; flush    *)
(* commands claim its rows, post them outside any transaction and record   *)
(* the outcome.  Customer cards are posted by the publisher itself, which  *)
(* records the delivery afterwards.                                        *)
(*                                                                         *)
(* enqueue observes the policy inside its own open transaction, so the     *)
(* outbox is locked between the two commits; the policy ledger is not.     *)
(* Every other transaction is one step, and any process may die between    *)
(* two of its steps.  One trading day and one kind and symbol of each      *)
(* channel are modelled, neither of them of IMMEDIATE_KINDS or DUAL_KINDS: *)
(* kinds do not interact, and rows of another day are never read again.    *)
(* The day begins at 08:45, when flush commands do; after 17:55 notices    *)
(* are still produced and published, but no flush command runs any more.   *)
(***************************************************************************)
EXTENDS Naturals, FiniteSets, Sequences

CONSTANTS
    Alerts,       \* native internal notices
    Cards,        \* customer notices
    StateOf,      \* the state each notice reports
    MaxEarlier,   \* bound: alerts of the day observed before
    Flushers,     \* flush commands of the internal outbox
    Publishers,   \* workflow processes that publish cards
    Window,       \* 900 seconds, in ticks
    Budget,       \* alerts of a kind before the rest of the day is merged: 3
    Maximum,      \* rows a flush command posts at most: 3
    CloseAt,      \* 17:55: the last flush commands of the day, which summarise its groups
    MaxNow,       \* bound: the last tick explored
    MaxFaults     \* bound: deaths of processes and losses of the webhook

Notices == Alerts \cup Cards

ASSUME NotificationAssumption ==
    /\ Alerts \cap Cards = {}
    /\ MaxEarlier \in Nat /\ StateOf \in [Notices -> STRING]
    /\ Window \in Nat /\ Budget \in Nat /\ Maximum \in Nat \ {0} /\ CloseAt \in Nat
    /\ MaxNow \in Nat /\ MaxFaults \in Nat

\* A row of the outbox or a key of the customer ledger: a notice of its own,
\* or the summary of the group that a notice opened.
Keys(S) == {"event", "summary"} \X S

VARIABLES
    now,
    earlier,  \* how many alerts were observed before, none of them in an open group
    seen,     \* notice_events: the disposition and the group, by notice
    last,     \* notice_events: the state of the latest notice of each channel
    group,    \* notice_groups, by the notice that opened the group
    writer,   \* the alert whose enqueue holds the lock of the outbox, if any
    hook,     \* is the internal webhook configured?
    outbox,   \* team_notifications: the status of each row
    fl,       \* the flush commands
    pub,      \* the publishers
    ledger,   \* customer_notification_receipts: the recorded deliveries
    posts,    \* history: POSTs of each internal row
    calls,    \* history: times the customer notifier was called, by key
    wire,     \* history: outcomes of the POSTs of each key
    orphans,  \* history: notices and summaries whose process died with them
    faults

policy  == <<earlier, seen, last, group>>
box     == <<writer, hook, outbox>>
history == <<posts, calls, wire, orphans>>
vars    == <<now, policy, box, fl, pub, ledger, history, faults>>

None    == "none"
Free    == [disp |-> "NONE"]
Unseen  == [disp |-> "NONE"]
NoGroup == [summary |-> "NONE"]
Idle    == [pc |-> "idle"]

Channel(e) == IF e \in Alerts THEN Alerts ELSE Cards

-----------------------------------------------------------------------------
Init ==
    /\ now = 0
    /\ seen = [e \in Notices |-> Unseen]
    /\ earlier \in 0 .. MaxEarlier
    /\ \E s \in IF earlier = 0 THEN {None} ELSE {StateOf[e] : e \in Alerts} \cup {"other"} :
         last = [c \in {Alerts, Cards} |-> IF c = Alerts THEN s ELSE None]
    /\ group = [e \in Notices |-> NoGroup]
    /\ writer = Free
    /\ hook = TRUE
    /\ outbox = [r \in Keys(Alerts) |-> "ABSENT"]
    /\ fl = [f \in Flushers |-> Idle]
    /\ pub = [p \in Publishers |-> Idle]
    /\ ledger = [k \in Keys(Cards) |-> "ABSENT"]
    /\ posts = [r \in Keys(Alerts) |-> 0]
    /\ calls = [k \in Keys(Cards) |-> 0]
    /\ wire = [k \in Keys(Cards) |-> <<>>]
    /\ orphans = {}
    /\ faults = 0

Tick ==
    /\ now < MaxNow
    /\ now' = now + 1
    /\ UNCHANGED <<policy, box, fl, pub, ledger, history, faults>>

\* The operator writes or removes the destination, which is read at every use.
Configure ==
    /\ hook' = ~hook
    /\ faults' = IF hook THEN faults + 1 ELSE faults
    /\ faults' <= MaxFaults
    /\ UNCHANGED <<now, policy, writer, outbox, fl, pub, ledger, history>>

-----------------------------------------------------------------------------
(* NotificationPolicy.observe: one transaction of the policy ledger.       *)

Before(e) == {d \in Channel(e) : seen[d] # Unseen}

\* A notice whose state differs from the latest one is never merged.
Urgent(e) == last[Channel(e)] \notin {None, StateOf[e]}

Mode(e) == IF e \in Alerts /\ earlier + Cardinality(Before(e)) >= Budget THEN "DAY" ELSE "WINDOW"

Open(e, m) == {g \in Channel(e) : /\ group[g].summary = "OPEN" /\ group[g].mode = m
                                  /\ m = "WINDOW" => StateOf[g] = StateOf[e]}

Latest(G) == {g \in G : \A h \in G : group[h].first <= group[g].first}

\* The open group this notice joins; a window is judged by its latest group.
Joins(e) == {g \in Latest(Open(e, Mode(e))) : Mode(e) = "DAY" \/ now < group[g].first + Window}

\* A bug: what an earlier observation decided is decided again.
ObservedAgain(e) == IF seen[e] = Unseen THEN {"NONE"} ELSE {seen[e].disp, "DUPLICATE"}

\* A notice that was observed before is a duplicate, whatever came of it.
Observed(e) == IF seen[e] = Unseen THEN {"NONE"} ELSE {"DUPLICATE"}

\* d is the disposition that the caller gets.
Observe(e, d) ==
    IF seen[e] # Unseen
    THEN d \in Observed(e) /\ UNCHANGED policy
    ELSE /\ last' = [last EXCEPT ![Channel(e)] = StateOf[e]]
         /\ UNCHANGED earlier
         /\ \/ /\ Urgent(e) /\ d = "IMMEDIATE"
               /\ seen' = [seen EXCEPT ![e] = [disp |-> d, group |-> None]]
               /\ UNCHANGED group
            \/ /\ ~Urgent(e) /\ Joins(e) # {} /\ d = "MERGED"
               /\ \E g \in Joins(e) :
                    /\ seen' = [seen EXCEPT ![e] = [disp |-> d, group |-> g]]
                    /\ group' = [group EXCEPT ![g].count = @ + 1]
            \/ /\ ~Urgent(e) /\ Joins(e) = {}
               /\ d = IF Mode(e) = "DAY" THEN "MERGED" ELSE "IMMEDIATE"
               /\ seen' = [seen EXCEPT ![e] = [disp |-> d, group |-> e]]
               /\ group' = [group EXCEPT ![e] = [summary |-> "OPEN", mode |-> Mode(e), first |-> now, count |-> 1]]

\* NotificationPolicy.claim_summaries, for the groups of one channel.
Expired(c) == {g \in c : /\ group[g].summary = "OPEN"
                         /\ IF group[g].mode = "DAY" THEN now >= CloseAt
                            ELSE now >= group[g].first + Window}

\* A bug: a group of the day with one notice is taken for a lone window.
RepeatedOnly(c) == {g \in Expired(c) : group[g].count > 1}

\* A window without duplicates is closed without a second post.
Summarised(c) == {g \in Expired(c) : group[g].mode = "DAY" \/ group[g].count > 1}

Claim(c) ==
    /\ group' = [g \in Notices |-> IF g \in Summarised(c) THEN [group[g] EXCEPT !.summary = "CLAIMED"]
                                   ELSE IF g \in Expired(c) THEN [group[g] EXCEPT !.summary = "CLOSED"]
                                   ELSE group[g]]
    /\ UNCHANGED <<earlier, seen, last>>

-----------------------------------------------------------------------------
(* InternalOutbox.enqueue and flush.                                       *)

Unlocked == writer = Free

\* The row does not exist yet: the transaction is open, the policy decides
\* and commits.  An existing row ends the call.
EnqueueObserve(e) ==
    /\ Unlocked /\ outbox[<<"event", e>>] = "ABSENT"
    /\ \E d \in {"IMMEDIATE", "MERGED", "DUPLICATE"} :
         /\ Observe(e, d)
         /\ writer' = [alert |-> e, disp |-> d]
    /\ UNCHANGED <<now, hook, outbox, fl, pub, ledger, history, faults>>

RowStatus(d) == IF d = "MERGED" THEN "MERGED" ELSE "PENDING"

EnqueueCommit ==
    /\ ~Unlocked
    /\ outbox' = [outbox EXCEPT ![<<"event", writer.alert>>] = RowStatus(writer.disp)]
    /\ writer' = Free
    /\ UNCHANGED <<now, policy, hook, fl, pub, ledger, history, faults>>

\* The process dies and its transaction is rolled back; the policy ledger
\* keeps what it committed.
EnqueueDies ==
    /\ ~Unlocked /\ faults < MaxFaults
    /\ writer' = Free
    /\ orphans' = orphans \cup {<<"event", writer.alert>>}
    /\ faults' = faults + 1
    /\ UNCHANGED <<now, policy, hook, outbox, fl, pub, ledger, posts, calls, wire>>

\* A command does something from 08:45 to 17:55 of a trading day only.
Delivering == now <= CloseAt

\* flush claims the due groups of the native channel first.
FlushClaim(f) ==
    /\ fl[f] = Idle /\ Delivering
    /\ Claim(Alerts)
    /\ fl' = [fl EXCEPT ![f] = [pc |-> "summaries", todo |-> Summarised(Alerts), left |-> Maximum]]
    /\ UNCHANGED <<now, box, pub, ledger, history, faults>>

\* A summary skips the policy.
FlushSummary(f) ==
    /\ fl[f].pc = "summaries" /\ Unlocked
    /\ \E g \in fl[f].todo :
         /\ outbox' = IF outbox[<<"summary", g>>] = "ABSENT"
                      THEN [outbox EXCEPT ![<<"summary", g>>] = "PENDING"] ELSE outbox
         /\ fl' = [fl EXCEPT ![f].todo = @ \ {g}]
    /\ UNCHANGED <<now, policy, writer, hook, pub, ledger, history, faults>>

\* A bug: nothing is sent while an earlier row is not confirmed.
PendingUnlessSending ==
    {r \in DOMAIN outbox : outbox[r] = "PENDING" /\ \A q \in DOMAIN outbox : outbox[q] # "SENDING"}

PendingRows == {r \in DOMAIN outbox : outbox[r] = "PENDING"}

Taking(f) == (fl[f].pc = "summaries" /\ fl[f].todo = {}) \/ fl[f].pc = "next"

\* A bug: the row is only marked when its outcome is known.
TakeUnmarked(r) == outbox

TakeMarked(r) == [outbox EXCEPT ![r] = "SENDING"]

\* BEGIN IMMEDIATE: pick a pending row and mark it before it is sent.
FlushTake(f) ==
    /\ Taking(f) /\ fl[f].left > 0 /\ Unlocked
    /\ fl[f].pc = "summaries" => hook
    /\ \E r \in PendingRows :
         /\ outbox' = TakeMarked(r)
         /\ fl' = [fl EXCEPT ![f] = [pc |-> "post", row |-> r, left |-> @.left - 1]]
    /\ UNCHANGED <<now, policy, writer, hook, pub, ledger, history, faults>>

\* Nothing pending, the bound reached, or no webhook before the first row.
FlushEnd(f) ==
    /\ Taking(f)
    /\ \/ fl[f].left = 0
       \/ PendingRows = {} /\ Unlocked
       \/ ~hook /\ fl[f].pc = "summaries"
    /\ fl' = [fl EXCEPT ![f] = Idle]
    /\ UNCHANGED <<now, policy, box, pub, ledger, history, faults>>

\* The request: accepted, refused or of unknown effect (an answer that never
\* came; the status is REJECTED or UNKNOWN, which all readers treat alike), or
\* no destination any more.  An exception before the request is a doubt too.
FlushPost(f) ==
    /\ fl[f].pc = "post"
    /\ \E o \in (IF hook THEN {"SENT"} ELSE {"NOT_CONFIGURED"}) \cup {"DOUBT"} :
         /\ fl' = [fl EXCEPT ![f] = [pc |-> "record", row |-> @.row, left |-> @.left, out |-> o]]
         /\ \/ hook /\ posts' = [posts EXCEPT ![fl[f].row] = @ + 1]
            \/ o # "SENT" /\ UNCHANGED posts
    /\ UNCHANGED <<now, policy, box, pub, ledger, calls, wire, orphans, faults>>

\* Only a missing configuration gives the row back; any doubt ends it, and a
\* doubt or a rejection also ends this command.
FlushRecord(f) ==
    /\ fl[f].pc = "record" /\ Unlocked
    /\ LET r == fl[f].row
           o == fl[f].out
       IN  /\ outbox' = IF outbox[r] # "SENDING" THEN outbox
                        ELSE [outbox EXCEPT ![r] = IF o = "NOT_CONFIGURED" THEN "PENDING" ELSE o]
           /\ fl' = [fl EXCEPT ![f] = IF o = "SENT" THEN [pc |-> "next", left |-> @.left] ELSE Idle]
    /\ UNCHANGED <<now, policy, writer, hook, pub, ledger, history, faults>>

FlushDies(f) ==
    /\ fl[f] # Idle /\ faults < MaxFaults
    /\ fl' = [fl EXCEPT ![f] = Idle]
    /\ orphans' = orphans \cup (IF fl[f].pc = "summaries" THEN {"summary"} \X fl[f].todo ELSE {})
    /\ faults' = faults + 1
    /\ UNCHANGED <<now, policy, box, pub, ledger, posts, calls, wire>>

-----------------------------------------------------------------------------
(* The publisher of customer cards: _send, _send_legacy and                *)
(* flush_notification_summaries.                                           *)

\* A card without a recorded delivery is observed; only an immediate one is
\* sent.  A retry of a later minute has another title and is refused by the
\* ledger, which ends the call as a duplicate does.
PublishObserve(p, e) ==
    /\ pub[p] = Idle /\ ledger[<<"event", e>>] = "ABSENT"
    /\ \E d \in {"IMMEDIATE", "MERGED", "DUPLICATE"} :
         /\ Observe(e, d)
         /\ pub' = [pub EXCEPT ![p] = IF d = "IMMEDIATE" THEN [pc |-> "send", todo |-> {<<"event", e>>}] ELSE Idle]
    /\ UNCHANGED <<now, box, fl, ledger, history, faults>>

PublishClaim(p) ==
    /\ pub[p] = Idle /\ Expired(Cards) # {}
    /\ Claim(Cards)
    /\ pub' = [pub EXCEPT ![p] = IF Summarised(Cards) = {} THEN Idle
                                 ELSE [pc |-> "send", todo |-> {"summary"} \X Summarised(Cards)]]
    /\ UNCHANGED <<now, box, fl, ledger, history, faults>>

Remain(p, k) == IF pub[p].todo = {k} THEN Idle ELSE [pc |-> "send", todo |-> pub[p].todo \ {k}]

\* The notifier is called, unless the key was delivered or the notifier is
\* disabled.
PublishCall(p) ==
    /\ pub[p].pc = "send"
    /\ \E k \in pub[p].todo :
         \/ /\ pub' = [pub EXCEPT ![p] = Remain(p, k)]
            /\ UNCHANGED calls
         \/ /\ ledger[k] = "ABSENT"
            /\ calls' = [calls EXCEPT ![k] = @ + 1]
            /\ pub' = [pub EXCEPT ![p] = [pc |-> "call", key |-> k, todo |-> @.todo, attempt |-> 1]]
    /\ UNCHANGED <<now, policy, box, fl, ledger, posts, wire, orphans, faults>>

\* send_card posts again after a timeout, a network error or a server error,
\* once, and after no other answer.
Again(o, n) == o = "RETRYABLE" /\ n = 1

PublishPost(p) ==
    /\ pub[p].pc = "call"
    /\ \E o \in {"FINAL", "RETRYABLE"} :
         /\ wire' = [wire EXCEPT ![pub[p].key] = Append(@, o)]
         /\ pub' = [pub EXCEPT ![p] = IF Again(o, @.attempt) THEN [@ EXCEPT !.attempt = 2]
                                      ELSE [pc |-> "record", key |-> @.key, todo |-> @.todo]]
    /\ UNCHANGED <<now, policy, box, fl, ledger, posts, calls, orphans, faults>>

\* record_delivery keeps the row that came first, SENT or FAILED alike.
PublishRecord(p) ==
    /\ pub[p].pc = "record"
    /\ ledger' = [ledger EXCEPT ![pub[p].key] = "DONE"]
    /\ pub' = [pub EXCEPT ![p] = Remain(p, pub[p].key)]
    /\ UNCHANGED <<now, policy, box, fl, history, faults>>

PublishDies(p) ==
    /\ pub[p] # Idle /\ faults < MaxFaults
    /\ pub' = [pub EXCEPT ![p] = Idle]
    /\ orphans' = orphans \cup pub[p].todo
    /\ faults' = faults + 1
    /\ UNCHANGED <<now, policy, box, fl, ledger, posts, calls, wire>>

-----------------------------------------------------------------------------
Enqueue == EnqueueCommit \/ EnqueueDies \/ \E e \in Alerts : EnqueueObserve(e)

FlushStep(f) == FlushSummary(f) \/ FlushTake(f) \/ FlushEnd(f) \/ FlushPost(f) \/ FlushRecord(f)

Flush(f) == FlushClaim(f) \/ FlushStep(f) \/ FlushDies(f)

Publish(p) ==
    \/ \E e \in Cards : PublishObserve(p, e)
    \/ PublishClaim(p) \/ PublishCall(p) \/ PublishPost(p) \/ PublishRecord(p) \/ PublishDies(p)

Next == Tick \/ Configure \/ Enqueue \/ (\E f \in Flushers : Flush(f)) \/ (\E p \in Publishers : Publish(p))

\* While the scheduler is up it starts a flush command every minute of the
\* window of a trading day, and a process that is alive goes on: flush commands
\* never cease before the close.  Nothing is assumed after it, and nothing
\* obliges a producer to report, time to pass or a process not to die.
Fairness ==
    /\ WF_vars(EnqueueCommit)
    /\ WF_vars(\E f \in Flushers : FlushClaim(f))
    /\ \A f \in Flushers : WF_vars(FlushStep(f))

Spec == Init /\ [][Next]_vars /\ Fairness

-----------------------------------------------------------------------------
Rows      == Keys(Alerts)
CardKeys  == Keys(Cards)
RowStates == {"ABSENT", "PENDING", "MERGED", "SENDING", "SENT", "DOUBT"}
Writers   == {Free} \cup [alert : Alerts, disp : {"IMMEDIATE", "MERGED", "DUPLICATE"}]
Sightings == {Unseen} \cup [disp : {"IMMEDIATE", "MERGED"}, group : Notices \cup {None}]
Groups    == {NoGroup} \cup [summary : {"OPEN", "CLAIMED", "CLOSED"}, mode : {"DAY", "WINDOW"},
                             first : Nat, count : Nat \ {0}]
Commands  == {Idle} \cup [pc : {"summaries"}, todo : SUBSET Alerts, left : Nat]
                    \cup [pc : {"next"}, left : Nat]
                    \cup [pc : {"post"}, row : Rows, left : Nat]
                    \cup [pc : {"record"}, row : Rows, left : Nat, out : {"SENT", "DOUBT", "NOT_CONFIGURED"}]
Attempts  == Seq({"FINAL", "RETRYABLE"})
Senders   == {Idle} \cup [pc : {"send"}, todo : SUBSET CardKeys]
                    \cup [pc : {"call"}, key : CardKeys, todo : SUBSET CardKeys, attempt : {1, 2}]
                    \cup [pc : {"record"}, key : CardKeys, todo : SUBSET CardKeys]

\* Every variable has its type.
TypeOK ==
    /\ now \in Nat /\ faults \in Nat /\ hook \in BOOLEAN /\ earlier \in Nat
    /\ seen \in [Notices -> Sightings]
    /\ group \in [Notices -> Groups]
    /\ writer \in Writers
    /\ outbox \in [Rows -> RowStates]
    /\ fl \in [Flushers -> Commands]
    /\ pub \in [Publishers -> Senders]
    /\ ledger \in [CardKeys -> {"ABSENT", "DONE"}]
    /\ posts \in [Rows -> Nat]
    /\ calls \in [CardKeys -> Nat]
    /\ wire \in [CardKeys -> Attempts]
    /\ orphans \subseteq Keys(Notices)

\* What the status of a row says to the readers of the channel.
Promise(s) == CASE s = "ABSENT" -> "absent"
                [] s = "PENDING" -> "queued"
                [] s = "MERGED" -> "merged"
                [] s = "SENDING" -> "taken"
                [] OTHER -> "over"

\* The internal outbox is an at-most-once channel: however flush commands
\* overlap, die or lose their webhook, a row is posted at most once
\* (claim before transport; a doubtful row is never taken again).
Outbox == INSTANCE AtMostOnce WITH
              Messages <- Rows,
              box <- [r \in Rows |-> Promise(outbox[r])],
              wire <- posts

PostedOnce == Outbox!Spec

\* A notice that was merged is told by a summary, and only there: its group is
\* never closed as one without duplicates; once the group is claimed its summary
\* is a row of the outbox or in the hands of a process, unless that process
\* died; and the alert is not posted on its own as well, unless a process died
\* between the two ledgers and the retry was a duplicate.  That an open group is
\* ever claimed is not said here: one that opens after the last flush command of
\* the day never is.
MergedIsSummarised ==
    \A e \in Notices : (seen[e] # Unseen /\ seen[e].disp = "MERGED") =>
        LET g == seen[e].group
        IN  /\ group[g].summary # "CLOSED"
            /\ (g \in Alerts /\ group[g].summary = "CLAIMED") =>
                  \/ outbox[<<"summary", g>>] # "ABSENT" \/ <<"summary", g>> \in orphans
                  \/ \E f \in Flushers : fl[f].pc = "summaries" /\ g \in fl[f].todo
            /\ (e \in Alerts /\ <<"event", e>> \notin orphans) => posts[<<"event", e>>] = 0

\* The notifier is called at most once for a card or a summary, however often
\* its publication is retried, by however many processes at a time, and wherever
\* one dies.  A card is on the wire a second time only as that call's own retry
\* of an attempt whose answer was a timeout, a network or a server error: then
\* the first may have arrived, and the reader sees the card twice
\* (LarkNotifier.send_card).  "An uncertain send is never silently attempted
\* again", as notification_policy.py:4 has it, is true of calls, not of POSTs.
OneCallPerCard ==
    \A k \in Keys(Cards) :
        /\ calls[k] <= 1
        /\ Len(wire[k]) <= 2
        /\ Len(wire[k]) = 2 => wire[k][1] = "RETRYABLE"

\* While a webhook is configured and the window of the flush commands lasts, no
\* pending row waits for ever, whichever commands died and left their rows
\* unconfirmed: a rejection or a doubt ends a command, and the next command goes
\* on with the other rows.  After 17:55 nothing is promised: a row that is
\* pending then is never sent, because the commands of the next day read the
\* rows of their own day.
PendingIsTaken ==
    \A r \in Keys(Alerts) :
        outbox[r] = "PENDING" ~> (outbox[r] # "PENDING" \/ ~hook \/ ~Delivering)
=============================================================================
