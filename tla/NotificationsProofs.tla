------------------------ MODULE NotificationsProofs ------------------------
(***************************************************************************)
(* Safety of the notices, for any notices, flush commands, publishers,     *)
(* bounds and deaths of processes, in five layers:                         *)
(*                                                                         *)
(*   Types    every variable has its type;                                 *)
(*   Taken    a row between its claim and its outcome is marked SENDING    *)
(*            and belongs to one command, and what is not marked was not   *)
(*            posted;                                                      *)
(*   Told     the group of a merged notice is open, or claimed with its    *)
(*            summary on the way;                                          *)
(*   Owed     a card that a publisher is about to send was observed or     *)
(*            claimed, was not sent, and is in the hands of nobody else;   *)
(*   Wired    what is on the wire of a key is one call's attempts.         *)
(*                                                                         *)
(* Taken gives the refinement of AtMostOnce.                               *)
(***************************************************************************)
EXTENDS Notifications, TLAPS

\* An observation by the policy keeps the types of its tables.
LEMMA ObserveTypes ==
  ASSUME TypeOK, NEW e \in Notices, NEW d, Observe(e, d)
  PROVE  /\ seen' \in [Notices -> Sightings]
         /\ group' \in [Notices -> Groups]
         /\ earlier' \in Nat
<1>1. CASE seen[e] # Unseen
  BY <1>1 DEF Observe, policy, TypeOK
<1>2. CASE seen[e] = Unseen /\ Urgent(e) /\ d = "IMMEDIATE" /\ UNCHANGED <<group, earlier>>
             /\ seen' = [seen EXCEPT ![e] = [disp |-> d, group |-> None]]
  BY <1>2 DEF TypeOK, Sightings
<1>3. ASSUME seen[e] = Unseen, d = "MERGED", earlier' = earlier,
             NEW g \in Joins(e),
             seen' = [seen EXCEPT ![e] = [disp |-> d, group |-> g]],
             group' = [group EXCEPT ![g].count = @ + 1]
      PROVE  /\ seen' \in [Notices -> Sightings]
             /\ group' \in [Notices -> Groups]
             /\ earlier' \in Nat
  <2>1. g \in Notices /\ group[g] \in Groups /\ group[g].summary = "OPEN"
    BY <1>3 DEF Joins, Latest, Open, Channel, Notices, TypeOK
  <2>2. group[g] \in [summary : {"OPEN", "CLAIMED", "CLOSED"}, mode : {"DAY", "WINDOW"},
                      first : Nat, count : Nat \ {0}]
    BY <2>1 DEF Groups, NoGroup
  <2>3. [group[g] EXCEPT !.count = @ + 1] \in Groups
    BY <2>2 DEF Groups
  <2> QED
    BY <1>3, <2>1, <2>3 DEF TypeOK, Sightings
<1>4. ASSUME seen[e] = Unseen, d \in {"MERGED", "IMMEDIATE"}, earlier' = earlier,
             seen' = [seen EXCEPT ![e] = [disp |-> d, group |-> e]],
             group' = [group EXCEPT ![e] = [summary |-> "OPEN", mode |-> Mode(e), first |-> now, count |-> 1]]
      PROVE  /\ seen' \in [Notices -> Sightings]
             /\ group' \in [Notices -> Groups]
             /\ earlier' \in Nat
  BY <1>4 DEF TypeOK, Sightings, Groups, Mode
<1> QED
  BY <1>1, <1>2, <1>3, <1>4, Zenon DEF Observe

\* So does a claim of the summaries of a channel, and it claims its own groups.
LEMMA ClaimTypes ==
  ASSUME TypeOK, NEW c \in {Alerts, Cards}, Claim(c)
  PROVE  /\ group' \in [Notices -> Groups]
         /\ earlier' = earlier /\ seen' = seen
         /\ Summarised(c) \subseteq Expired(c) /\ Expired(c) \subseteq c
         /\ \A g \in Expired(c) : group[g] \in Groups \ {NoGroup}
<1>1. Summarised(c) \subseteq Expired(c) /\ Expired(c) \subseteq c /\ Expired(c) \subseteq Notices
  BY DEF Summarised, Expired, Notices
<1>2. ASSUME NEW g \in Expired(c)
      PROVE  group[g] \in [summary : {"OPEN", "CLAIMED", "CLOSED"}, mode : {"DAY", "WINDOW"},
                           first : Nat, count : Nat \ {0}]
  <2>1. group[g] \in Groups /\ group[g].summary = "OPEN"
    BY <1>1, <1>2 DEF Expired, TypeOK
  <2> QED
    BY <2>1 DEF Groups, NoGroup
<1>3. ASSUME NEW g \in Expired(c), NEW s \in {"CLAIMED", "CLOSED"}
      PROVE  [group[g] EXCEPT !.summary = s] \in Groups
  BY <1>2 DEF Groups
<1>4. \A g \in Notices : group[g] \in Groups
  BY DEF TypeOK
<1>5. group' \in [Notices -> Groups]
  BY <1>1, <1>3, <1>4 DEF Claim
<1>6. \A g \in Expired(c) : group[g] # NoGroup
  BY DEF Expired, NoGroup
<1> QED
  BY <1>1, <1>2, <1>4, <1>5, <1>6 DEF Claim, Groups

\* A command that is at a step has the fields of that step.
LEMMA CommandSteps ==
  ASSUME TypeOK, NEW f \in Flushers
  PROVE  /\ fl[f].pc = "summaries" => fl[f] \in [pc : {"summaries"}, todo : SUBSET Alerts, left : Nat]
         /\ fl[f].pc = "next" => fl[f] \in [pc : {"next"}, left : Nat]
         /\ fl[f].pc = "post" => fl[f] \in [pc : {"post"}, row : Rows, left : Nat]
         /\ fl[f].pc = "record" => fl[f] \in [pc : {"record"}, row : Rows, left : Nat,
                                              out : {"SENT", "DOUBT", "NOT_CONFIGURED"}]
         /\ fl[f].pc \in {"idle", "summaries", "next", "post", "record"}
<1>1. fl[f] \in Commands
  BY DEF TypeOK
<1> QED
  BY <1>1 DEF Commands, Idle

LEMMA SenderSteps ==
  ASSUME TypeOK, NEW p \in Publishers
  PROVE  /\ pub[p].pc = "send" => pub[p] \in [pc : {"send"}, todo : SUBSET CardKeys]
         /\ pub[p].pc = "call" => pub[p] \in [pc : {"call"}, key : CardKeys, todo : SUBSET CardKeys, attempt : {1, 2}]
         /\ pub[p].pc = "record" => pub[p] \in [pc : {"record"}, key : CardKeys, todo : SUBSET CardKeys]
         /\ pub[p].pc \in {"idle", "send", "call", "record"}
<1>1. pub[p] \in Senders
  BY DEF TypeOK
<1> QED
  BY <1>1 DEF Senders, Idle

\* Every reachable state of the policy, the outbox, the commands and the
\* publishers has its type.
THEOREM TypeCorrect == Spec => []TypeOK
<1>1. Init => TypeOK
  <2> SUFFICES ASSUME Init PROVE TypeOK
    OBVIOUS
  <2>1. earlier \in Nat /\ now \in Nat /\ faults \in Nat /\ hook \in BOOLEAN
    BY NotificationAssumption DEF Init
  <2>2. /\ seen \in [Notices -> Sightings] /\ group \in [Notices -> Groups] /\ writer \in Writers
        /\ fl \in [Flushers -> Commands] /\ pub \in [Publishers -> Senders]
    BY DEF Init, Sightings, Groups, Writers, Commands, Senders
  <2>3. /\ outbox \in [Rows -> RowStates] /\ ledger \in [CardKeys -> {"ABSENT", "DONE"}]
        /\ posts \in [Rows -> Nat] /\ calls \in [CardKeys -> Nat] /\ orphans \subseteq Keys(Notices)
    BY DEF Init, Rows, CardKeys, RowStates
  <2>4. <<>> \in Attempts
    BY DEF Attempts
  <2>5. wire \in [CardKeys -> Attempts]
    BY <2>4 DEF Init, CardKeys
  <2> QED
    BY <2>1, <2>2, <2>3, <2>5 DEF TypeOK
<1>2. TypeOK /\ [Next]_vars => TypeOK'
  <2> SUFFICES ASSUME TypeOK, [Next]_vars PROVE TypeOK'
    OBVIOUS
  <2> USE NotificationAssumption DEF TypeOK, box, history
  <2>1. CASE UNCHANGED vars
    BY <2>1 DEF vars, policy
  <2>2. CASE Tick
    BY <2>2 DEF Tick, policy
  <2>3. CASE Configure
    BY <2>3 DEF Configure, policy
  <2>4. ASSUME NEW e \in Alerts, EnqueueObserve(e) PROVE TypeOK'
    <3>1. PICK d \in {"IMMEDIATE", "MERGED", "DUPLICATE"} :
             Observe(e, d) /\ writer' = [alert |-> e, disp |-> d]
      BY <2>4 DEF EnqueueObserve
    <3>2. /\ seen' \in [Notices -> Sightings] /\ group' \in [Notices -> Groups] /\ earlier' \in Nat
      BY <3>1, ObserveTypes DEF Notices
    <3>3. writer' \in Writers
      BY <3>1 DEF Writers
    <3> QED
      BY <2>4, <3>2, <3>3 DEF EnqueueObserve
  <2>5. CASE EnqueueCommit
    <3>1. RowStatus(writer.disp) \in RowStates
      BY DEF RowStatus, RowStates
    <3>2. outbox' \in [Rows -> RowStates]
      BY <2>5, <3>1 DEF EnqueueCommit
    <3> QED
      BY <2>5, <3>2 DEF EnqueueCommit, policy, Writers
  <2>6. CASE EnqueueDies
    <3>1. writer \in [alert : Alerts, disp : {"IMMEDIATE", "MERGED", "DUPLICATE"}]
      BY <2>6 DEF EnqueueDies, Writers, Unlocked
    <3>2. <<"event", writer.alert>> \in Keys(Notices)
      BY <3>1 DEF Keys, Notices
    <3> QED
      BY <2>6, <3>2 DEF EnqueueDies, policy, Writers
  <2>7. ASSUME NEW f \in Flushers, FlushClaim(f) PROVE TypeOK'
    <3>1. Claim(Alerts)
      BY <2>7 DEF FlushClaim
    <3>2. group' \in [Notices -> Groups] /\ earlier' = earlier /\ seen' = seen /\ Summarised(Alerts) \subseteq Alerts
      BY <3>1, ClaimTypes
    <3>3. [pc |-> "summaries", todo |-> Summarised(Alerts), left |-> Maximum] \in Commands
      BY <3>2 DEF Commands
    <3> QED
      BY <2>7, <3>2, <3>3 DEF FlushClaim
  <2>8. ASSUME NEW f \in Flushers, FlushSummary(f) PROVE TypeOK'
    <3>1. PICK g \in fl[f].todo :
            /\ outbox' = IF outbox[<<"summary", g>>] = "ABSENT"
                         THEN [outbox EXCEPT ![<<"summary", g>>] = "PENDING"] ELSE outbox
            /\ fl' = [fl EXCEPT ![f].todo = @ \ {g}]
      BY <2>8 DEF FlushSummary
    <3>2. fl[f] \in [pc : {"summaries"}, todo : SUBSET Alerts, left : Nat]
      BY <2>8, CommandSteps DEF FlushSummary
    <3>3. fl'[f] \in Commands
      BY <3>1, <3>2 DEF Commands
    <3>4. fl' \in [Flushers -> Commands]
      BY <3>1, <3>3
    <3>5. outbox' \in [Rows -> RowStates]
      BY <3>1 DEF RowStates
    <3> QED
      BY <2>8, <3>4, <3>5 DEF FlushSummary, policy
  <2>9. ASSUME NEW f \in Flushers, FlushTake(f) PROVE TypeOK'
    <3>1. PICK r \in PendingRows :
            outbox' = TakeMarked(r) /\ fl' = [fl EXCEPT ![f] = [pc |-> "post", row |-> r, left |-> @.left - 1]]
      BY <2>9 DEF FlushTake
    <3>2. fl[f].left \in Nat /\ fl[f].left > 0
      BY <2>9, CommandSteps DEF FlushTake, Taking
    <3>3. r \in Rows
      BY <3>1 DEF PendingRows
    <3>4. [pc |-> "post", row |-> r, left |-> fl[f].left - 1] \in Commands
      BY <3>2, <3>3 DEF Commands
    <3>5. outbox' \in [Rows -> RowStates]
      BY <3>1 DEF RowStates, TakeMarked
    <3> QED
      BY <2>9, <3>1, <3>4, <3>5 DEF FlushTake, policy
  <2>10. ASSUME NEW f \in Flushers, FlushEnd(f) PROVE TypeOK'
    BY <2>10 DEF FlushEnd, policy, Commands
  <2>11. ASSUME NEW f \in Flushers, FlushPost(f) PROVE TypeOK'
    <3>1. PICK o \in {"SENT", "DOUBT", "NOT_CONFIGURED"} :
            /\ fl' = [fl EXCEPT ![f] = [pc |-> "record", row |-> @.row, left |-> @.left, out |-> o]]
            /\ posts' = posts \/ (o # "NOT_CONFIGURED" /\ posts' = [posts EXCEPT ![fl[f].row] = @ + 1])
      BY <2>11 DEF FlushPost
    <3>2. fl[f].row \in Rows /\ fl[f].left \in Nat
      BY <2>11, CommandSteps DEF FlushPost
    <3>3. [pc |-> "record", row |-> fl[f].row, left |-> fl[f].left, out |-> o] \in Commands
      BY <3>1, <3>2 DEF Commands
    <3>4. posts' \in [Rows -> Nat]
      BY <3>1, <3>2
    <3> QED
      BY <2>11, <3>1, <3>3, <3>4 DEF FlushPost, policy
  <2>12. ASSUME NEW f \in Flushers, FlushRecord(f) PROVE TypeOK'
    <3>1. fl[f].row \in Rows /\ fl[f].left \in Nat /\ fl[f].out \in {"SENT", "DOUBT", "NOT_CONFIGURED"}
      BY <2>12, CommandSteps DEF FlushRecord
    <3>2. outbox' \in [Rows -> RowStates]
      BY <2>12, <3>1 DEF FlushRecord, RowStates
    <3>3. [pc |-> "next", left |-> fl[f].left] \in Commands /\ Idle \in Commands
      BY <3>1 DEF Commands
    <3>4. fl' \in [Flushers -> Commands]
      BY <2>12, <3>3 DEF FlushRecord
    <3> QED
      BY <2>12, <3>2, <3>4 DEF FlushRecord, policy
  <2>13. ASSUME NEW f \in Flushers, FlushDies(f) PROVE TypeOK'
    <3>1. fl[f].pc = "summaries" => {"summary"} \X fl[f].todo \subseteq Keys(Notices)
      BY CommandSteps DEF Keys, Notices
    <3> QED
      BY <2>13, <3>1 DEF FlushDies, policy, Commands
  <2>14. ASSUME NEW p \in Publishers, NEW e \in Cards, PublishObserve(p, e) PROVE TypeOK'
    <3>1. PICK d \in {"IMMEDIATE", "MERGED", "DUPLICATE"} :
            /\ Observe(e, d)
            /\ pub' = [pub EXCEPT ![p] = IF d = "IMMEDIATE" THEN [pc |-> "send", todo |-> {<<"event", e>>}] ELSE Idle]
      BY <2>14 DEF PublishObserve
    <3>2. /\ seen' \in [Notices -> Sightings] /\ group' \in [Notices -> Groups] /\ earlier' \in Nat
      BY <3>1, ObserveTypes DEF Notices
    <3>3. [pc |-> "send", todo |-> {<<"event", e>>}] \in Senders /\ Idle \in Senders
      BY DEF Senders, CardKeys, Keys
    <3> QED
      BY <2>14, <3>1, <3>2, <3>3 DEF PublishObserve
  <2>15. ASSUME NEW p \in Publishers, PublishClaim(p) PROVE TypeOK'
    <3>1. Claim(Cards)
      BY <2>15 DEF PublishClaim
    <3>2. group' \in [Notices -> Groups] /\ earlier' = earlier /\ seen' = seen /\ Summarised(Cards) \subseteq Cards
      BY <3>1, ClaimTypes
    <3>3. [pc |-> "send", todo |-> {"summary"} \X Summarised(Cards)] \in Senders /\ Idle \in Senders
      BY <3>2 DEF Senders, CardKeys, Keys
    <3> QED
      BY <2>15, <3>2, <3>3 DEF PublishClaim
  <2>16. ASSUME NEW p \in Publishers, PublishCall(p) PROVE TypeOK'
    <3>1. pub[p] \in [pc : {"send"}, todo : SUBSET CardKeys]
      BY <2>16, SenderSteps DEF PublishCall
    <3>2. PICK k \in pub[p].todo :
             \/ pub' = [pub EXCEPT ![p] = Remain(p, k)] /\ calls' = calls
             \/ /\ calls' = [calls EXCEPT ![k] = @ + 1]
                /\ pub' = [pub EXCEPT ![p] = [pc |-> "call", key |-> k, todo |-> @.todo, attempt |-> 1]]
      BY <2>16 DEF PublishCall
    <3>3. Remain(p, k) \in Senders /\ [pc |-> "call", key |-> k, todo |-> pub[p].todo, attempt |-> 1] \in Senders
      BY <3>1, <3>2 DEF Remain, Senders
    <3>4. pub' \in [Publishers -> Senders] /\ calls' \in [CardKeys -> Nat]
      BY <3>1, <3>2, <3>3
    <3> QED
      BY <2>16, <3>4 DEF PublishCall, policy
  <2>19. ASSUME NEW p \in Publishers, PublishPost(p) PROVE TypeOK'
    <3>1. PICK o \in {"FINAL", "RETRYABLE"} :
            /\ wire' = [wire EXCEPT ![pub[p].key] = Append(@, o)]
            /\ pub' = [pub EXCEPT ![p] = IF Again(o, @.attempt) THEN [@ EXCEPT !.attempt = 2]
                                         ELSE [pc |-> "record", key |-> @.key, todo |-> @.todo]]
      BY <2>19 DEF PublishPost
    <3>2. pub[p] \in [pc : {"call"}, key : CardKeys, todo : SUBSET CardKeys, attempt : {1, 2}]
      BY <2>19, SenderSteps DEF PublishPost
    <3>3. [pub[p] EXCEPT !.attempt = 2] \in Senders /\ [pc |-> "record", key |-> pub[p].key, todo |-> pub[p].todo] \in Senders
      BY <3>2 DEF Senders
    <3>4. pub' \in [Publishers -> Senders]
      BY <3>1, <3>3
    <3>7. wire[pub[p].key] \in Attempts
      BY <3>2
    <3>5. Append(wire[pub[p].key], o) \in Attempts
      BY <3>7 DEF Attempts
    <3>6. wire' \in [CardKeys -> Attempts]
      BY <3>1, <3>5
    <3> QED
      BY <2>19, <3>4, <3>6 DEF PublishPost, policy
  <2>17. ASSUME NEW p \in Publishers, PublishRecord(p) PROVE TypeOK'
    <3>1. pub[p] \in [pc : {"record"}, key : CardKeys, todo : SUBSET CardKeys]
      BY <2>17, SenderSteps DEF PublishRecord
    <3>2. Remain(p, pub[p].key) \in Senders
      BY <3>1 DEF Remain, Senders
    <3> QED
      BY <2>17, <3>1, <3>2 DEF PublishRecord, policy
  <2>18. ASSUME NEW p \in Publishers, PublishDies(p) PROVE TypeOK'
    <3>1. pub[p].todo \subseteq Keys(Notices)
      BY <2>18, SenderSteps DEF PublishDies, CardKeys, Keys, Notices, Senders
    <3> QED
      BY <2>18, <3>1 DEF PublishDies, policy, Senders
  <2> HIDE NotificationAssumption DEF TypeOK, box, history
  <2> QED
    BY <2>1, <2>2, <2>3, <2>4, <2>5, <2>6, <2>7, <2>8, <2>9, <2>10, <2>11, <2>12, <2>13, <2>14,
       <2>15, <2>16, <2>17, <2>18, <2>19
       DEF Next, Enqueue, Flush, FlushStep, Publish
<1> QED
  BY <1>1, <1>2, PTL DEF Spec

-----------------------------------------------------------------------------
Holding(f) == fl[f].pc \in {"post", "record"}

\* Nothing of the row was sent by the command that holds it.
Unsent(f) == fl[f].pc = "post" \/ (fl[f].pc = "record" /\ fl[f].out = "NOT_CONFIGURED")

Taken ==
    /\ writer # Free => outbox[<<"event", writer.alert>>] = "ABSENT"
    /\ \A f \in Flushers : Holding(f) => outbox[fl[f].row] = "SENDING"
    /\ \A f, g \in Flushers : Holding(f) /\ Holding(g) /\ fl[f].row = fl[g].row => f = g
    /\ \A r \in Rows : outbox[r] \in {"ABSENT", "PENDING", "MERGED"} => posts[r] = 0
    /\ \A f \in Flushers : Unsent(f) => posts[fl[f].row] = 0

Promised == [r \in Rows |-> Promise(outbox[r])]

OutboxStep == Outbox!Next \/ UNCHANGED <<Promised, posts>>

\* A change of one row is a change of its promise.
LEMMA PromiseChanges ==
  ASSUME TypeOK, NEW r \in Rows, NEW s, outbox' = [outbox EXCEPT ![r] = s]
  PROVE  Promised' = [Promised EXCEPT ![r] = Promise(s)]
BY DEF TypeOK, Promised

\* What leaves the rows, their posts and the commands alone is a stutter.
LEMMA TakenElsewhere ==
  ASSUME TypeOK, Taken, outbox' = outbox, posts' = posts, fl' = fl,
         writer' = writer \/ writer' = Free
  PROVE  Taken' /\ OutboxStep
BY DEF Taken, Holding, Unsent, OutboxStep, Promised

\* A command that lets go of what it had, or takes up something else, leaves
\* the rows alone.
LEMMA TakenLetGo ==
  ASSUME TypeOK, Taken, outbox' = outbox, posts' = posts, writer' = writer,
         NEW f \in Flushers, NEW c, fl' = [fl EXCEPT ![f] = c], c.pc \in {"idle", "summaries", "next"}
  PROVE  Taken' /\ OutboxStep
<1>1. \A g \in Flushers : g # f => fl'[g] = fl[g]
  BY DEF TypeOK
<1>2. fl'[f].pc \in {"idle", "summaries", "next"}
  BY DEF TypeOK
<1> QED
  BY <1>1, <1>2 DEF Taken, Holding, Unsent, OutboxStep, Promised

\* Every step keeps Taken and is a step of the abstract outbox or a stutter.
LEMMA TakenStep ==
  ASSUME TypeOK, TypeOK', Taken, [Next]_vars
  PROVE  Taken' /\ OutboxStep
<1> USE DEF box, history
<1>1. CASE UNCHANGED vars
  BY <1>1, TakenElsewhere DEF vars
<1>2. CASE Tick \/ Configure \/ EnqueueDies
  BY <1>2, TakenElsewhere DEF Tick, Configure, EnqueueDies
<1>3. ASSUME NEW e \in Alerts, EnqueueObserve(e) PROVE Taken' /\ OutboxStep
  <2>1. writer'.alert = e /\ outbox[<<"event", e>>] = "ABSENT" /\ outbox' = outbox /\ posts' = posts /\ fl' = fl
    BY <1>3 DEF EnqueueObserve
  <2> QED
    BY <2>1 DEF Taken, Holding, Unsent, OutboxStep, Promised
<1>4. CASE EnqueueCommit
  <2> DEFINE r == <<"event", writer.alert>>
             s == RowStatus(writer.disp)
  <2>1. r \in Rows /\ outbox[r] = "ABSENT" /\ outbox' = [outbox EXCEPT ![r] = s] /\ writer' = Free
        /\ fl' = fl /\ posts' = posts
    BY <1>4 DEF EnqueueCommit, Unlocked, Taken, TypeOK, Writers, Rows, Keys
  <2>2. s \in {"PENDING", "MERGED"}
    BY DEF RowStatus
  <2> HIDE DEF r, s
  <2>3. posts[r] = 0
    BY <2>1 DEF Taken
  <2>4. ASSUME NEW f \in Flushers, Holding(f) PROVE fl[f].row # r
    BY <2>1, <2>4 DEF Taken
  <2>5. Taken'
    BY <2>1, <2>2, <2>3, <2>4 DEF Taken, Holding, Unsent, TypeOK
  <2>6. Promised[r] = "absent" /\ Promise(s) \in {"queued", "merged"}
    BY <2>1, <2>2 DEF Promised, Promise
  <2>7. Outbox!Accept(r)
    BY <2>1, <2>6, PromiseChanges DEF Outbox!Accept, Outbox!Put, Promised
  <2> QED
    BY <2>1, <2>5, <2>7 DEF OutboxStep, Outbox!Next
<1>5. ASSUME NEW f \in Flushers, FlushClaim(f) PROVE Taken' /\ OutboxStep
  BY <1>5, TakenLetGo DEF FlushClaim
<1>6. ASSUME NEW f \in Flushers, FlushSummary(f) PROVE Taken' /\ OutboxStep
  <2>1. PICK g \in fl[f].todo :
            /\ outbox' = IF outbox[<<"summary", g>>] = "ABSENT"
                         THEN [outbox EXCEPT ![<<"summary", g>>] = "PENDING"] ELSE outbox
            /\ fl' = [fl EXCEPT ![f].todo = @ \ {g}]
    BY <1>6 DEF FlushSummary
  <2>2. fl[f] \in [pc : {"summaries"}, todo : SUBSET Alerts, left : Nat]
    BY <1>6, CommandSteps DEF FlushSummary
  <2>3. fl'[f].pc = "summaries" /\ \A h \in Flushers : h # f => fl'[h] = fl[h]
    BY <2>1, <2>2 DEF TypeOK
  <2>4. writer = Free /\ writer' = writer /\ posts' = posts
    BY <1>6 DEF FlushSummary, Unlocked
  <2> DEFINE r == <<"summary", g>>
  <2>5. CASE outbox[r] = "ABSENT"
    <3>1. r \in Rows /\ outbox' = [outbox EXCEPT ![r] = "PENDING"]
      BY <2>1, <2>2, <2>5 DEF Rows, Keys
    <3> HIDE DEF r
    <3>2. ASSUME NEW h \in Flushers, Holding(h) PROVE fl[h].row # r
      BY <2>5, <3>2 DEF Taken
    <3>3. Taken'
      BY <2>3, <2>4, <2>5, <3>1, <3>2 DEF Taken, Holding, Unsent, TypeOK
    <3>4. Promised[r] = "absent" /\ Promise("PENDING") = "queued"
      BY <2>5, <3>1 DEF Promised, Promise
    <3>5. Outbox!Accept(r)
      BY <2>4, <3>1, <3>4, PromiseChanges DEF Outbox!Accept, Outbox!Put, Promised
    <3> QED
      BY <3>1, <3>3, <3>5 DEF OutboxStep, Outbox!Next
  <2>6. CASE outbox[r] # "ABSENT"
    BY <2>1, <2>3, <2>4, <2>6 DEF Taken, Holding, Unsent, OutboxStep, Promised
  <2> QED
    BY <2>5, <2>6
<1>7. ASSUME NEW f \in Flushers, FlushTake(f) PROVE Taken' /\ OutboxStep
  <2>1. PICK r \in PendingRows :
            /\ outbox' = [outbox EXCEPT ![r] = "SENDING"]
            /\ fl' = [fl EXCEPT ![f] = [pc |-> "post", row |-> r, left |-> @.left - 1]]
    BY <1>7 DEF FlushTake, TakeMarked
  <2>2. r \in Rows /\ outbox[r] = "PENDING" /\ posts[r] = 0
    BY DEF PendingRows, TypeOK, Taken
  <2>3. writer = Free /\ writer' = writer /\ posts' = posts
    BY <1>7 DEF FlushTake, Unlocked
  <2>4. fl'[f].pc = "post" /\ fl'[f].row = r /\ \A h \in Flushers : h # f => fl'[h] = fl[h]
    BY <2>1 DEF TypeOK
  <2>5. ASSUME NEW h \in Flushers, Holding(h) PROVE fl[h].row # r
    BY <2>2, <2>5 DEF Taken
  <2>6. Taken'
    <3>1. \A h \in Flushers : Holding(h)' => outbox'[fl'[h].row] = "SENDING"
      BY <2>1, <2>2, <2>4 DEF Taken, Holding, TypeOK
    <3>2. \A h, g \in Flushers : Holding(h)' /\ Holding(g)' /\ fl'[h].row = fl'[g].row => h = g
      BY <2>4, <2>5 DEF Taken, Holding
    <3>3. \A q \in Rows : outbox'[q] \in {"ABSENT", "PENDING", "MERGED"} => posts'[q] = 0
      BY <2>1, <2>2, <2>3 DEF Taken, TypeOK
    <3>4. \A h \in Flushers : Unsent(h)' => posts'[fl'[h].row] = 0
      BY <2>2, <2>3, <2>4 DEF Taken, Unsent
    <3> QED
      BY <2>3, <3>1, <3>2, <3>3, <3>4 DEF Taken, Holding, Unsent
  <2>7. Promised[r] = "queued" /\ Promise("SENDING") = "taken"
    BY <2>2 DEF Promised, Promise
  <2>8. Outbox!Take(r)
    <3>1. Promised' = [Promised EXCEPT ![r] = "taken"]
      BY <2>1, <2>2, <2>7, PromiseChanges
    <3> QED
      BY <2>3, <2>7, <3>1 DEF Outbox!Take, Outbox!Put, Promised
  <2> QED
    BY <2>2, <2>6, <2>8 DEF OutboxStep, Outbox!Next
<1>8. ASSUME NEW f \in Flushers, FlushEnd(f) PROVE Taken' /\ OutboxStep
  BY <1>8, TakenLetGo DEF FlushEnd, Idle
<1>9. ASSUME NEW f \in Flushers, FlushPost(f) PROVE Taken' /\ OutboxStep
  <2>1. PICK o \in {"SENT", "DOUBT", "NOT_CONFIGURED"} :
            /\ fl' = [fl EXCEPT ![f] = [pc |-> "record", row |-> @.row, left |-> @.left, out |-> o]]
            /\ posts' = posts \/ (o # "NOT_CONFIGURED" /\ posts' = [posts EXCEPT ![fl[f].row] = @ + 1])
    BY <1>9 DEF FlushPost
  <2> DEFINE r == fl[f].row
  <2>2. r \in Rows /\ fl[f].pc = "post" /\ outbox[r] = "SENDING" /\ posts[r] = 0
    BY <1>9, CommandSteps DEF FlushPost, Taken, Holding, Unsent
  <2>3. writer' = writer /\ outbox' = outbox
    BY <1>9 DEF FlushPost
  <2>4. fl'[f].pc = "record" /\ fl'[f].row = r /\ fl'[f].out = o /\ \A h \in Flushers : h # f => fl'[h] = fl[h]
    BY <2>1 DEF TypeOK
  <2> HIDE DEF r
  <2>5. posts' = posts \/ (o # "NOT_CONFIGURED" /\ posts' = [posts EXCEPT ![r] = 1])
    BY <2>1, <2>2 DEF r
  <2>6. ASSUME NEW h \in Flushers, Holding(h), h # f PROVE fl[h].row # r
    BY <2>2, <2>6 DEF Taken, Holding, r
  <2>7. Taken'
    <3>1. \A h \in Flushers : Holding(h)' => outbox'[fl'[h].row] = "SENDING"
      BY <2>2, <2>3, <2>4 DEF Taken, Holding
    <3>2. \A h, g \in Flushers : Holding(h)' /\ Holding(g)' /\ fl'[h].row = fl'[g].row => h = g
      BY <2>4, <2>6 DEF Taken, Holding
    <3>3. \A q \in Rows : outbox'[q] \in {"ABSENT", "PENDING", "MERGED"} => posts'[q] = 0
      BY <2>2, <2>3, <2>5 DEF Taken, TypeOK
    <3>4. \A h \in Flushers : Unsent(h)' => posts'[fl'[h].row] = 0
      <4> SUFFICES ASSUME NEW h \in Flushers, Unsent(h)' PROVE posts'[fl'[h].row] = 0
        OBVIOUS
      <4>1. CASE h = f
        BY <2>2, <2>4, <2>5, <4>1 DEF Unsent
      <4>2. CASE h # f
        <5>1. Holding(h) /\ Unsent(h)
          BY <2>4, <4>2 DEF Unsent, Holding
        <5>2. fl[h].row \in Rows /\ fl[h].row # r /\ posts[fl[h].row] = 0
          BY <2>6, <4>2, <5>1, CommandSteps DEF Taken, Holding
        <5> QED
          BY <2>4, <2>5, <4>2, <5>2 DEF TypeOK
      <4> QED
        BY <4>1, <4>2
    <3> QED
      BY <2>3, <3>1, <3>2, <3>3, <3>4 DEF Taken, Holding, Unsent
  <2>8. CASE posts' = posts
    BY <2>3, <2>7, <2>8 DEF OutboxStep, Promised
  <2>9. CASE posts' = [posts EXCEPT ![r] = 1]
    <3>1. Promised[r] = "taken"
      BY <2>2 DEF Promised, Promise
    <3>2. Outbox!Post(r)
      BY <2>2, <2>3, <2>9, <3>1 DEF Outbox!Post, Promised
    <3> QED
      BY <2>2, <2>7, <3>2 DEF OutboxStep, Outbox!Next
  <2> QED
    BY <2>5, <2>8, <2>9
<1>10. ASSUME NEW f \in Flushers, FlushRecord(f) PROVE Taken' /\ OutboxStep
  <2> DEFINE r == fl[f].row
             s == IF fl[f].out = "NOT_CONFIGURED" THEN "PENDING" ELSE fl[f].out
  <2>1. /\ r \in Rows /\ fl[f].pc = "record" /\ outbox[r] = "SENDING"
        /\ fl[f].out \in {"SENT", "DOUBT", "NOT_CONFIGURED"}
        /\ fl[f].out = "NOT_CONFIGURED" => posts[r] = 0
    BY <1>10, CommandSteps DEF FlushRecord, Taken, Holding, Unsent
  <2>2. /\ outbox' = [outbox EXCEPT ![r] = s]
        /\ fl' = [fl EXCEPT ![f] = IF fl[f].out = "SENT" THEN [pc |-> "next", left |-> @.left] ELSE Idle]
        /\ writer = Free /\ writer' = writer /\ posts' = posts
    BY <1>10, <2>1 DEF FlushRecord, Unlocked
  <2>3. fl'[f].pc \in {"next", "idle"} /\ \A h \in Flushers : h # f => fl'[h] = fl[h]
    BY <2>2 DEF TypeOK, Idle
  <2>4. s \in {"PENDING", "SENT", "DOUBT"} /\ (s = "PENDING" => posts[r] = 0)
    BY <2>1
  <2>5. ASSUME NEW h \in Flushers, Holding(h), h # f PROVE fl[h].row # r
    BY <2>1, <2>5 DEF Taken, Holding
  <2> HIDE DEF r, s
  <2>6. Taken'
    <3>1. \A h \in Flushers : Holding(h)' => h # f /\ Holding(h)
      BY <2>3 DEF Holding
    <3>2. \A h \in Flushers : Holding(h)' => outbox'[fl'[h].row] = "SENDING"
      BY <2>2, <2>3, <2>5, <3>1, CommandSteps DEF Taken, Holding, TypeOK
    <3>3. \A h, g \in Flushers : Holding(h)' /\ Holding(g)' /\ fl'[h].row = fl'[g].row => h = g
      BY <2>3, <3>1 DEF Taken
    <3>4. \A q \in Rows : outbox'[q] \in {"ABSENT", "PENDING", "MERGED"} => posts'[q] = 0
      BY <2>1, <2>2, <2>4 DEF Taken, TypeOK
    <3>5. \A h \in Flushers : Unsent(h)' => posts'[fl'[h].row] = 0
      BY <2>2, <2>3 DEF Taken, Unsent
    <3> QED
      BY <2>2, <3>2, <3>3, <3>4, <3>5 DEF Taken, Holding, Unsent
  <2>7. Promised[r] = "taken" /\ Promise(s) = IF s = "PENDING" THEN "queued" ELSE "over"
    BY <2>1, <2>4 DEF Promised, Promise
  <2>8. Outbox!HandBack(r) \/ Outbox!End(r)
    <3>1. Promised' = [Promised EXCEPT ![r] = IF s = "PENDING" THEN "queued" ELSE "over"]
      <4>1. Promised' = [Promised EXCEPT ![r] = Promise(s)]
        BY <2>1, <2>2, PromiseChanges
      <4> QED
        BY <2>7, <4>1
    <3>2. CASE s = "PENDING"
      BY <2>2, <2>4, <2>7, <3>1, <3>2 DEF Outbox!HandBack, Outbox!Put, Promised
    <3>3. CASE s # "PENDING"
      BY <2>2, <2>7, <3>1, <3>3 DEF Outbox!End, Outbox!Put, Promised
    <3> QED
      BY <3>2, <3>3
  <2> QED
    BY <2>1, <2>6, <2>8 DEF OutboxStep, Outbox!Next
<1>11. ASSUME NEW f \in Flushers, FlushDies(f) PROVE Taken' /\ OutboxStep
  BY <1>11, TakenLetGo DEF FlushDies, Idle
<1>12. ASSUME NEW p \in Publishers, Publish(p) PROVE Taken' /\ OutboxStep
  BY <1>12, TakenElsewhere
     DEF Publish, PublishObserve, PublishClaim, PublishCall, PublishPost, PublishRecord, PublishDies
<1> QED
  BY <1>1, <1>2, <1>3, <1>4, <1>5, <1>6, <1>7, <1>8, <1>9, <1>10, <1>11, <1>12
     DEF Next, Enqueue, Flush, FlushStep

LEMMA TakenAlways == Spec => []Taken
<1>1. Init => Taken
  BY DEF Init, Taken, Holding, Unsent, Rows, Idle
<1>2. TypeOK /\ TypeOK' /\ Taken /\ [Next]_vars => Taken'
  BY TakenStep
<1> QED
  BY <1>1, <1>2, TypeCorrect, PTL DEF Spec

\* The internal outbox implements AtMostOnce: every step of an enqueue, of a
\* flush command and of their deaths is a step of the abstract channel or
\* leaves it alone.
THEOREM AtMostOncePosted == Spec => PostedOnce
<1>1. Init => Outbox!Init
  BY DEF Init, Outbox!Init, Rows, Promise
<1>2. TypeOK /\ TypeOK' /\ Taken /\ [Next]_vars => [Outbox!Next]_<<[r \in Rows |-> Promise(outbox[r])], posts>>
  BY TakenStep DEF OutboxStep, Promised
<1> QED
  BY <1>1, <1>2, TypeCorrect, TakenAlways, PTL DEF Spec, PostedOnce, Outbox!Spec

-----------------------------------------------------------------------------
Merged(e) == seen[e] # Unseen /\ seen[e].disp = "MERGED"

\* The members of a group are more than the one that opened it, or it is a
\* group of the day, which is summarised whatever its size.
Repeated(g) == group[g].mode = "DAY" \/ group[g].count > 1

InHand(g) == \E f \in Flushers : fl[f].pc = "summaries" /\ g \in fl[f].todo

Placed(e) ==
    /\ seen[e].group \in Notices
    /\ group[seen[e].group].summary \in {"OPEN", "CLAIMED"}
    /\ Repeated(seen[e].group)

Grouped ==
    /\ \A e \in Notices : seen[e] = Unseen => group[e] = NoGroup
    /\ \A e \in Notices : Merged(e) => Placed(e)

Told ==
    /\ Grouped
    /\ \A g \in Alerts : group[g].summary = "CLAIMED" =>
          \/ outbox[<<"summary", g>>] # "ABSENT" \/ <<"summary", g>> \in orphans
          \/ InHand(g)
    /\ \A e \in Alerts : (Merged(e) /\ <<"event", e>> \notin orphans) =>
          \/ outbox[<<"event", e>>] = "MERGED"
          \/ writer # Free /\ writer.alert = e /\ writer.disp = "MERGED"

\* What an observation does to the tables of the policy.
LEMMA ObserveChanges ==
  ASSUME TypeOK, NEW e \in Notices, NEW d, Observe(e, d)
  PROVE  /\ \A h \in Notices : h # e => seen'[h] = seen[h]
         /\ seen[e] # Unseen => d = "DUPLICATE" /\ seen' = seen /\ group' = group
         /\ seen[e] = Unseen =>
              /\ d \in {"IMMEDIATE", "MERGED"} /\ seen'[e] # Unseen /\ seen'[e].disp = d
              /\ \A h \in Notices \ {e} : /\ group'[h].summary = group[h].summary
                                          /\ Repeated(h) => Repeated(h)'
                                          /\ group[h] = NoGroup => group'[h] = NoGroup
              /\ group'[e].summary \in {group[e].summary, "OPEN"}
              /\ d = "MERGED" => Placed(e)'
<1>1. CASE seen[e] # Unseen
  BY <1>1 DEF Observe, Observed, policy
<1>2. CASE seen[e] = Unseen /\ d = "IMMEDIATE" /\ group' = group
             /\ seen' = [seen EXCEPT ![e] = [disp |-> d, group |-> None]]
  BY <1>2 DEF TypeOK, Repeated, Unseen
<1>3. ASSUME seen[e] = Unseen, d = "MERGED",
             NEW g \in Joins(e),
             seen' = [seen EXCEPT ![e] = [disp |-> d, group |-> g]],
             group' = [group EXCEPT ![g].count = @ + 1]
      PROVE  /\ \A h \in Notices : h # e => seen'[h] = seen[h]
             /\ seen'[e] # Unseen /\ seen'[e].disp = d /\ seen'[e].group = g /\ g \in Notices
             /\ \A h \in Notices \ {e} : /\ group'[h].summary = group[h].summary
                                         /\ Repeated(h) => Repeated(h)'
                                         /\ group[h] = NoGroup => group'[h] = NoGroup
             /\ group'[e].summary = group[e].summary
             /\ group'[g].summary = "OPEN" /\ Repeated(g)' /\ Placed(e)'
  <2>1. g \in Notices /\ group[g] \in Groups /\ group[g].summary = "OPEN"
    BY <1>3 DEF Joins, Latest, Open, Channel, Notices, TypeOK
  <2>2. group[g] \in [summary : {"OPEN", "CLAIMED", "CLOSED"}, mode : {"DAY", "WINDOW"},
                      first : Nat, count : Nat \ {0}]
    BY <2>1 DEF Groups, NoGroup
  <2>3. group'[g] = [group[g] EXCEPT !.count = @ + 1] /\ \A h \in Notices \ {g} : group'[h] = group[h]
    BY <1>3, <2>1 DEF TypeOK
  <2>4. group'[g].summary = "OPEN" /\ group'[g].count > 1 /\ group[g] # NoGroup
    BY <2>1, <2>2, <2>3 DEF NoGroup
  <2>5. seen'[e] = [disp |-> d, group |-> g] /\ \A h \in Notices : h # e => seen'[h] = seen[h]
    BY <1>3 DEF TypeOK
  <2> QED
    BY <1>3, <2>1, <2>3, <2>4, <2>5 DEF Repeated, Unseen, Placed
<1>4. ASSUME seen[e] = Unseen, d = IF Mode(e) = "DAY" THEN "MERGED" ELSE "IMMEDIATE",
             seen' = [seen EXCEPT ![e] = [disp |-> d, group |-> e]],
             group' = [group EXCEPT ![e] = [summary |-> "OPEN", mode |-> Mode(e), first |-> now, count |-> 1]]
      PROVE  /\ \A h \in Notices : h # e => seen'[h] = seen[h]
             /\ seen'[e] # Unseen /\ seen'[e].disp = d /\ seen'[e].group = e
             /\ \A h \in Notices \ {e} : group'[h] = group[h]
             /\ group'[e].summary = "OPEN"
             /\ d = "MERGED" => Placed(e)'
  BY <1>4 DEF TypeOK, Repeated, Unseen, Placed
<1>5. CASE seen[e] = Unseen
  <2>1. \/ d = "IMMEDIATE" /\ group' = group /\ seen' = [seen EXCEPT ![e] = [disp |-> d, group |-> None]]
        \/ \E g \in Joins(e) : /\ d = "MERGED"
                               /\ seen' = [seen EXCEPT ![e] = [disp |-> d, group |-> g]]
                               /\ group' = [group EXCEPT ![g].count = @ + 1]
        \/ /\ d = IF Mode(e) = "DAY" THEN "MERGED" ELSE "IMMEDIATE"
           /\ seen' = [seen EXCEPT ![e] = [disp |-> d, group |-> e]]
           /\ group' = [group EXCEPT ![e] = [summary |-> "OPEN", mode |-> Mode(e), first |-> now, count |-> 1]]
    BY <1>5 DEF Observe
  <2>2. CASE d = "IMMEDIATE" /\ group' = group /\ seen' = [seen EXCEPT ![e] = [disp |-> d, group |-> None]]
    BY <1>2, <1>5, <2>2
  <2>3. CASE \E g \in Joins(e) : /\ d = "MERGED"
                                 /\ seen' = [seen EXCEPT ![e] = [disp |-> d, group |-> g]]
                                 /\ group' = [group EXCEPT ![g].count = @ + 1]
    <3>1. PICK g \in Joins(e) : /\ d = "MERGED"
                                /\ seen' = [seen EXCEPT ![e] = [disp |-> d, group |-> g]]
                                /\ group' = [group EXCEPT ![g].count = @ + 1]
      BY <2>3
    <3>2. d \in {"IMMEDIATE", "MERGED"}
      BY <3>1
    <3> QED
      BY <1>3, <1>5, <3>1, <3>2
  <2>4. CASE /\ d = IF Mode(e) = "DAY" THEN "MERGED" ELSE "IMMEDIATE"
             /\ seen' = [seen EXCEPT ![e] = [disp |-> d, group |-> e]]
             /\ group' = [group EXCEPT ![e] = [summary |-> "OPEN", mode |-> Mode(e), first |-> now, count |-> 1]]
    BY <1>4, <1>5, <2>4 DEF Repeated
  <2> QED
    BY <2>1, <2>2, <2>3, <2>4
<1> QED
  BY <1>1, <1>5

\* An observation keeps the part of Told that is about the policy.
LEMMA ToldObserve ==
  ASSUME TypeOK, Told, NEW e \in Notices, NEW d, Observe(e, d)
  PROVE  /\ Grouped'
         /\ \A g \in Notices : group'[g].summary = "CLAIMED" => group[g].summary = "CLAIMED"
         /\ \A h \in Notices : Merged(h)' => Merged(h) \/ (h = e /\ d = "MERGED")
<1>1. CASE seen[e] # Unseen
  BY <1>1, ObserveChanges DEF Told, Grouped, Merged, Placed, Repeated
<1>2. CASE seen[e] = Unseen
  <2>1. \A h \in Notices : Merged(h) => h # e /\ seen'[h] = seen[h] /\ seen[h].group # e
    BY <1>2, ObserveChanges DEF Told, Grouped, Placed, Merged, NoGroup
  <2> QED
    BY <1>2, <2>1, ObserveChanges DEF Told, Grouped, Placed, Merged, NoGroup
<1> QED
  BY <1>1, <1>2

\* A claim keeps it, too: a group with a merged member is never closed.
LEMMA ToldClaim ==
  ASSUME TypeOK, Told, NEW c \in {Alerts, Cards}, Claim(c)
  PROVE  /\ Grouped'
         /\ \A g \in Notices : group'[g].summary = "CLAIMED" => group[g].summary = "CLAIMED" \/ g \in Summarised(c)
         /\ \A h \in Notices : Merged(h)' => Merged(h)
<1>1. seen' = seen
  BY ClaimTypes
<1>2. \A g \in Expired(c) : group[g] \in [summary : {"OPEN", "CLAIMED", "CLOSED"}, mode : {"DAY", "WINDOW"},
                                          first : Nat, count : Nat \ {0}]
  BY ClaimTypes DEF Groups
<1>3. ASSUME NEW g \in Notices
      PROVE  /\ g \notin Expired(c) => group'[g] = group[g]
             /\ g \in Expired(c) => /\ group[g] # NoGroup
                                    /\ group'[g].mode = group[g].mode /\ group'[g].count = group[g].count
                                    /\ group'[g].summary = IF g \in Summarised(c) THEN "CLAIMED" ELSE "CLOSED"
  BY <1>2, ClaimTypes DEF Claim
<1>4. \A g \in Expired(c) : Repeated(g) => g \in Summarised(c)
  BY DEF Summarised, Repeated
<1> QED
  BY <1>1, <1>3, <1>4 DEF Told, Grouped, Placed, Merged, Repeated

\* The tables of the policy are unchanged.
LEMMA ToldElsewhere ==
  ASSUME Told, seen' = seen, group' = group
  PROVE  /\ Grouped'
         /\ \A g \in Notices : group'[g].summary = "CLAIMED" => group[g].summary = "CLAIMED"
         /\ \A h \in Notices : Merged(h)' => Merged(h)
BY DEF Told, Grouped, Placed, Merged, Repeated

\* A step that leaves the outbox, its lock and the commands alone.
LEMMA ToldBox ==
  ASSUME Told, outbox' = outbox, fl' = fl, writer' = writer, orphans \subseteq orphans',
         Grouped',
         \A g \in Alerts : group'[g].summary = "CLAIMED" => group[g].summary = "CLAIMED",
         \A h \in Alerts : Merged(h)' => Merged(h)
  PROVE  Told'
BY DEF Told, InHand, Merged

\* A step of a flush command: what is recorded of a row stays recorded, and a
\* summary only leaves a command for the outbox or dies with it.
LEMMA ToldFlush ==
  ASSUME TypeOK, Told, seen' = seen, group' = group, writer' = writer, orphans \subseteq orphans',
         \A r \in Rows : outbox[r] = "MERGED" => outbox'[r] = "MERGED",
         \A r \in Rows : outbox[r] # "ABSENT" => outbox'[r] # "ABSENT",
         \A g \in Alerts : InHand(g) => \/ InHand(g)' \/ <<"summary", g>> \in orphans'
                                        \/ outbox'[<<"summary", g>>] # "ABSENT"
  PROVE  Told'
<1>1. Grouped' /\ (\A h \in Notices : Merged(h)' => Merged(h))
  BY ToldElsewhere
<1>2. \A g \in Alerts : <<"summary", g>> \in Rows /\ <<"event", g>> \in Rows
  BY DEF Rows, Keys
<1>3. Alerts \subseteq Notices
  BY DEF Notices
<1> QED
  BY <1>1, <1>2, <1>3 DEF Told

LEMMA ToldStep ==
  ASSUME TypeOK, TypeOK', Taken, Told, [Next]_vars
  PROVE  Told'
<1> USE DEF box, history, policy
<1>1. CASE UNCHANGED vars
  BY <1>1, ToldElsewhere, ToldBox DEF vars, Notices
<1>2. CASE Tick
  BY <1>2, ToldElsewhere, ToldBox DEF Tick, Notices
<1>3. CASE Configure
  BY <1>3, ToldElsewhere, ToldBox DEF Configure, Notices
<1>4. ASSUME NEW e \in Alerts, EnqueueObserve(e) PROVE Told'
  <2>1. PICK d \in {"IMMEDIATE", "MERGED", "DUPLICATE"} :
           Observe(e, d) /\ writer' = [alert |-> e, disp |-> d]
    BY <1>4 DEF EnqueueObserve
  <2>2. writer = Free /\ outbox' = outbox /\ fl' = fl /\ orphans' = orphans
    BY <1>4 DEF EnqueueObserve, Unlocked
  <2>3. /\ Grouped'
        /\ \A g \in Notices : group'[g].summary = "CLAIMED" => group[g].summary = "CLAIMED"
        /\ \A h \in Notices : Merged(h)' => Merged(h) \/ (h = e /\ d = "MERGED")
    BY <2>1, ToldObserve DEF Notices
  <2>4. writer' # Free /\ writer'.alert = e /\ writer'.disp = d
    BY <2>1 DEF Free
  <2> QED
    BY <2>2, <2>3, <2>4 DEF Told, InHand, Notices
<1>5. CASE EnqueueCommit
  <2> DEFINE r == <<"event", writer.alert>>
  <2>1. writer # Free /\ outbox[r] = "ABSENT" /\ outbox' = [outbox EXCEPT ![r] = RowStatus(writer.disp)]
        /\ seen' = seen /\ group' = group /\ fl' = fl /\ orphans' = orphans
    BY <1>5 DEF EnqueueCommit, Unlocked, Taken
  <2>2. writer.alert \in Alerts /\ (writer.disp = "MERGED" => RowStatus(writer.disp) = "MERGED")
    BY <2>1 DEF TypeOK, Writers, RowStatus
  <2>3. RowStatus(writer.disp) # "ABSENT"
    BY DEF RowStatus
  <2>4. Grouped' /\ (\A h \in Notices : Merged(h)' => Merged(h))
        /\ (\A g \in Notices : group'[g].summary = "CLAIMED" => group[g].summary = "CLAIMED")
    BY <2>1, ToldElsewhere
  <2>5. \A g \in Alerts : <<"summary", g>> \in Rows /\ <<"event", g>> \in Rows /\ g \in Notices
    BY DEF Rows, Keys, Notices
  <2>6. \A g \in Alerts : outbox'[<<"summary", g>>] = outbox[<<"summary", g>>]
    BY <2>1, <2>5 DEF TypeOK
  <2>7. \A g \in Alerts : outbox'[<<"event", g>>] = IF g = writer.alert THEN RowStatus(writer.disp)
                                                    ELSE outbox[<<"event", g>>]
    BY <2>1, <2>2, <2>5 DEF TypeOK
  <2>8. \A g \in Alerts : InHand(g) <=> InHand(g)'
    BY <2>1 DEF InHand
  <2> QED
    BY <2>1, <2>2, <2>4, <2>5, <2>6, <2>7, <2>8 DEF Told
<1>6. CASE EnqueueDies
  <2>1. seen' = seen /\ group' = group /\ outbox' = outbox /\ fl' = fl /\ writer' = Free
        /\ orphans' = orphans \cup {<<"event", writer.alert>>}
    BY <1>6 DEF EnqueueDies
  <2>2. Grouped' /\ (\A h \in Notices : Merged(h)' => Merged(h))
        /\ (\A g \in Notices : group'[g].summary = "CLAIMED" => group[g].summary = "CLAIMED")
    BY <2>1, ToldElsewhere
  <2> QED
    BY <2>1, <2>2 DEF Told, InHand, Notices
<1>7. ASSUME NEW f \in Flushers, FlushClaim(f) PROVE Told'
  <2>1. Claim(Alerts) /\ fl[f] = Idle /\ outbox' = outbox /\ writer' = writer /\ orphans' = orphans
        /\ fl' = [fl EXCEPT ![f] = [pc |-> "summaries", todo |-> Summarised(Alerts), left |-> Maximum]]
    BY <1>7 DEF FlushClaim
  <2>2. Grouped' /\ (\A h \in Notices : Merged(h)' => Merged(h))
        /\ (\A g \in Notices : group'[g].summary = "CLAIMED" => group[g].summary = "CLAIMED" \/ g \in Summarised(Alerts))
    BY <2>1, ToldClaim
  <2>3. fl'[f].pc = "summaries" /\ fl'[f].todo = Summarised(Alerts) /\ fl[f].pc # "summaries"
        /\ \A h \in Flushers : h # f => fl'[h] = fl[h]
    BY <2>1 DEF TypeOK, Idle
  <2>4. \A g \in Alerts : InHand(g) \/ g \in Summarised(Alerts) => InHand(g)'
    BY <2>3 DEF InHand
  <2> QED
    BY <2>1, <2>2, <2>4 DEF Told, Notices
<1>8. ASSUME NEW f \in Flushers, FlushSummary(f) PROVE Told'
  <2>1. PICK g \in fl[f].todo :
            /\ outbox' = IF outbox[<<"summary", g>>] = "ABSENT"
                         THEN [outbox EXCEPT ![<<"summary", g>>] = "PENDING"] ELSE outbox
            /\ fl' = [fl EXCEPT ![f].todo = @ \ {g}]
    BY <1>8 DEF FlushSummary
  <2>2. fl[f] \in [pc : {"summaries"}, todo : SUBSET Alerts, left : Nat]
    BY <1>8, CommandSteps DEF FlushSummary
  <2>3. fl'[f].pc = "summaries" /\ fl'[f].todo = fl[f].todo \ {g} /\ \A h \in Flushers : h # f => fl'[h] = fl[h]
    BY <2>1, <2>2 DEF TypeOK
  <2>4. <<"summary", g>> \in Rows
    BY <2>1, <2>2 DEF Rows, Keys
  <2>5. \A r \in Rows : outbox'[r] = IF r = <<"summary", g>> /\ outbox[r] = "ABSENT" THEN "PENDING" ELSE outbox[r]
    BY <2>1, <2>4 DEF TypeOK
  <2>6. ASSUME NEW h \in Alerts, InHand(h)
        PROVE  InHand(h)' \/ outbox'[<<"summary", h>>] # "ABSENT"
    <3>1. CASE h = g
      BY <2>4, <2>5, <3>1
    <3>2. CASE h # g
      BY <2>3, <2>6, <3>2 DEF InHand
    <3> QED
      BY <3>1, <3>2
  <2> QED
    BY <1>8, <2>5, <2>6, ToldFlush DEF FlushSummary
<1>9. ASSUME NEW f \in Flushers, FlushTake(f) PROVE Told'
  <2>1. PICK r \in PendingRows :
            /\ outbox' = [outbox EXCEPT ![r] = "SENDING"]
            /\ fl' = [fl EXCEPT ![f] = [pc |-> "post", row |-> r, left |-> @.left - 1]]
    BY <1>9 DEF FlushTake, TakeMarked
  <2>2. r \in Rows /\ outbox[r] = "PENDING"
    BY DEF PendingRows, TypeOK
  <2>3. \A q \in Rows : outbox'[q] = IF q = r THEN "SENDING" ELSE outbox[q]
    BY <2>1, <2>2 DEF TypeOK
  <2>4. \A g \in Alerts : InHand(g) => InHand(g)'
    BY <1>9, <2>1 DEF FlushTake, Taking, InHand, TypeOK
  <2> QED
    BY <1>9, <2>2, <2>3, <2>4, ToldFlush DEF FlushTake
<1>10. ASSUME NEW f \in Flushers, FlushEnd(f) PROVE Told'
  <2>1. \A g \in Alerts : InHand(g) => InHand(g)'
    BY <1>10 DEF FlushEnd, Taking, InHand, TypeOK
  <2> QED
    BY <1>10, <2>1, ToldFlush DEF FlushEnd
<1>11. ASSUME NEW f \in Flushers, FlushPost(f) PROVE Told'
  <2>1. \A g \in Alerts : InHand(g) => InHand(g)'
    BY <1>11 DEF FlushPost, InHand, TypeOK
  <2> QED
    BY <1>11, <2>1, ToldFlush DEF FlushPost
<1>12. ASSUME NEW f \in Flushers, FlushRecord(f) PROVE Told'
  <2>1. \A g \in Alerts : InHand(g) => InHand(g)'
    BY <1>12 DEF FlushRecord, InHand, TypeOK
  <2>2. fl[f].row \in Rows /\ outbox[fl[f].row] = "SENDING" /\ fl[f].out # "ABSENT"
    BY <1>12, CommandSteps DEF FlushRecord, Taken, Holding
  <2>3. \A q \in Rows : q # fl[f].row => outbox'[q] = outbox[q]
    BY <1>12, <2>2 DEF FlushRecord, TypeOK
  <2>4. outbox'[fl[f].row] # "ABSENT"
    BY <1>12, <2>2 DEF FlushRecord, TypeOK
  <2> QED
    BY <1>12, <2>1, <2>2, <2>3, <2>4, ToldFlush DEF FlushRecord
<1>13. ASSUME NEW f \in Flushers, FlushDies(f) PROVE Told'
  <2>1. fl[f].pc = "summaries" => fl[f].todo \subseteq Alerts
    BY CommandSteps
  <2>2. \A g \in Alerts : InHand(g) => InHand(g)' \/ <<"summary", g>> \in orphans'
    BY <1>13, <2>1 DEF FlushDies, InHand, TypeOK
  <2> QED
    BY <1>13, <2>2, ToldFlush DEF FlushDies
<1>14. ASSUME NEW p \in Publishers, NEW e \in Cards, PublishObserve(p, e) PROVE Told'
  <2>1. PICK d \in {"IMMEDIATE", "MERGED", "DUPLICATE"} : Observe(e, d)
    BY <1>14 DEF PublishObserve
  <2>2. \A h \in Alerts : h \in Notices /\ h # e
    BY NotificationAssumption DEF Notices
  <2>3. /\ Grouped'
        /\ \A g \in Notices : group'[g].summary = "CLAIMED" => group[g].summary = "CLAIMED"
        /\ \A h \in Notices : Merged(h)' => Merged(h) \/ (h = e /\ d = "MERGED")
    BY <2>1, ToldObserve DEF Notices
  <2> QED
    BY <1>14, <2>2, <2>3, ToldBox DEF PublishObserve
<1>15. ASSUME NEW p \in Publishers, PublishClaim(p) PROVE Told'
  <2>1. Claim(Cards) /\ Summarised(Cards) \subseteq Cards
    BY <1>15, ClaimTypes DEF PublishClaim
  <2>2. Grouped' /\ (\A h \in Notices : Merged(h)' => Merged(h))
        /\ (\A g \in Notices : group'[g].summary = "CLAIMED" => group[g].summary = "CLAIMED" \/ g \in Summarised(Cards))
    BY <2>1, ToldClaim
  <2>3. \A h \in Alerts : h \in Notices /\ h \notin Cards
    BY NotificationAssumption DEF Notices
  <2> QED
    BY <1>15, <2>1, <2>2, <2>3, ToldBox DEF PublishClaim
<1>16. ASSUME NEW p \in Publishers, PublishCall(p) \/ PublishPost(p) \/ PublishRecord(p) \/ PublishDies(p) PROVE Told'
  <2>1. seen' = seen /\ group' = group /\ outbox' = outbox /\ fl' = fl /\ writer' = writer /\ orphans \subseteq orphans'
    BY <1>16 DEF PublishCall, PublishPost, PublishRecord, PublishDies
  <2> QED
    BY <2>1, ToldElsewhere, ToldBox DEF Notices
<1> QED
  BY <1>1, <1>2, <1>3, <1>4, <1>5, <1>6, <1>7, <1>8, <1>9, <1>10, <1>11, <1>12, <1>13, <1>14, <1>15, <1>16
     DEF Next, Enqueue, Flush, FlushStep, Publish

LEMMA ToldAlways == Spec => []Told
<1>1. Init => Told
  BY DEF Init, Told, Grouped, Merged, Unseen, NoGroup, Notices
<1>2. TypeOK /\ TypeOK' /\ Taken /\ Told /\ [Next]_vars => Told'
  BY ToldStep
<1> QED
  BY <1>1, <1>2, TypeCorrect, TakenAlways, PTL DEF Spec

\* A notice that was merged is told by a summary, and an alert only there.
THEOREM MergedTold == Spec => []MergedIsSummarised
<1>1. TypeOK /\ Taken /\ Told => MergedIsSummarised
  <2> SUFFICES ASSUME TypeOK, Taken, Told, NEW e \in Notices, Merged(e)
               PROVE  LET g == seen[e].group
                      IN  /\ group[g].summary # "CLOSED"
                          /\ (g \in Alerts /\ group[g].summary = "CLAIMED") =>
                                \/ outbox[<<"summary", g>>] # "ABSENT" \/ <<"summary", g>> \in orphans
                                \/ InHand(g)
                          /\ (e \in Alerts /\ <<"event", e>> \notin orphans) => posts[<<"event", e>>] = 0
    BY DEF MergedIsSummarised, Merged, InHand
  <2>1. group[seen[e].group].summary # "CLOSED"
    BY DEF Told, Grouped, Placed
  <2>2. ASSUME e \in Alerts, <<"event", e>> \notin orphans PROVE posts[<<"event", e>>] = 0
    <3>1. outbox[<<"event", e>>] \in {"ABSENT", "MERGED"}
      BY <2>2 DEF Told, Taken
    <3>2. <<"event", e>> \in Rows
      BY <2>2 DEF Rows, Keys
    <3> QED
      BY <3>1, <3>2 DEF Taken
  <2> QED
    BY <2>1, <2>2 DEF Told
<1> QED
  BY <1>1, TypeCorrect, TakenAlways, ToldAlways, PTL

-----------------------------------------------------------------------------
\* What a publisher still has to send, the key it is recording included.
Hands(p) == IF pub[p].pc = "idle" THEN {} ELSE pub[p].todo

\* The notifier was called for the key, and its outcome is not recorded yet.
Sent(p, k) == pub[p].pc \in {"call", "record"} /\ pub[p].key = k

Untold(k) == calls[k] = 0 /\ \A p \in Publishers : k \notin Hands(p)

Owed ==
    /\ \A p, q \in Publishers : \A k \in Hands(p) \cap Hands(q) : p = q
    /\ \A p \in Publishers : \A k \in Hands(p) : ~Sent(p, k) => calls[k] = 0
    /\ \A k \in CardKeys : calls[k] <= 1
    /\ \A e \in Cards : seen[e] = Unseen => Untold(<<"event", e>>)
    /\ \A g \in Cards : group[g].summary \in {"NONE", "OPEN"} => Untold(<<"summary", g>>)

\* Steps of the internal channel leave the cards alone.
LEMMA OwedElsewhere ==
  ASSUME Owed, pub' = pub, calls' = calls,
         \A e \in Cards : seen'[e] = Unseen => seen[e] = Unseen,
         \A g \in Cards : group'[g].summary \in {"NONE", "OPEN"} => group[g].summary \in {"NONE", "OPEN"}
  PROVE  Owed'
BY DEF Owed, Hands, Untold, Sent

\* A publisher that only lets keys go.
LEMMA OwedLess ==
  ASSUME TypeOK, Owed, seen' = seen, group' = group, calls' = calls, NEW p \in Publishers,
         \A q \in Publishers : q # p => pub'[q] = pub[q],
         pub'[p].pc \in {"idle", "send"},
         Hands(p)' \subseteq Hands(p),
         \A k \in Hands(p)' : ~Sent(p, k)
  PROVE  Owed'
<1>1. \A q \in Publishers : Hands(q)' \subseteq Hands(q)
  BY DEF Hands
<1>2. \A q \in Publishers : q # p => Hands(q)' = Hands(q)
  BY DEF Hands
<1>3. \A q \in Publishers : \A k \in Hands(q)' : ~Sent(q, k)' => calls'[k] = 0
  BY <1>1 DEF Owed, Sent
<1>4. \A k : Untold(k) => Untold(k)'
  BY <1>1 DEF Untold
<1> QED
  BY <1>1, <1>3, <1>4 DEF Owed

\* A publisher that takes up keys that nobody had and that were never sent.
LEMMA OwedMore ==
  ASSUME TypeOK, Owed, calls' = calls, NEW p \in Publishers, NEW T \in SUBSET CardKeys,
         pub[p] = Idle, pub' = [pub EXCEPT ![p] = [pc |-> "send", todo |-> T]],
         \A k \in T : Untold(k),
         \A e \in Cards : seen'[e] = Unseen => seen[e] = Unseen /\ <<"event", e>> \notin T,
         \A g \in Cards : group'[g].summary \in {"NONE", "OPEN"} =>
             group[g].summary \in {"NONE", "OPEN"} /\ <<"summary", g>> \notin T
  PROVE  Owed'
<1>1. Hands(p)' = T /\ pub'[p].pc = "send" /\ \A q \in Publishers : q # p => Hands(q)' = Hands(q) /\ pub'[q] = pub[q]
  BY DEF Hands, TypeOK
<1>2. \A q \in Publishers : \A k \in T : k \notin Hands(q) /\ calls[k] = 0
  BY DEF Untold
<1>3. \A k : Untold(k) /\ k \notin T => Untold(k)'
  BY <1>1 DEF Untold
<1>4. \A q, r \in Publishers : \A k \in Hands(q)' \cap Hands(r)' : q = r
  BY <1>1, <1>2 DEF Owed
<1>5. \A q \in Publishers : \A k \in Hands(q)' : ~Sent(q, k)' => calls'[k] = 0
  BY <1>1, <1>2 DEF Owed, Sent
<1> QED
  BY <1>3, <1>4, <1>5 DEF Owed

LEMMA OwedStep ==
  ASSUME TypeOK, TypeOK', Told, Owed, [Next]_vars
  PROVE  Owed'
<1> USE DEF box, history, policy
<1>1. CASE UNCHANGED vars
  BY <1>1, OwedElsewhere DEF vars
<1>2. CASE Tick \/ Configure \/ EnqueueCommit \/ EnqueueDies
  BY <1>2, OwedElsewhere DEF Tick, Configure, EnqueueCommit, EnqueueDies
<1>3. ASSUME NEW e \in Alerts, EnqueueObserve(e) PROVE Owed'
  <2>1. PICK d : Observe(e, d)
    BY <1>3 DEF EnqueueObserve
  <2>2. \A h \in Cards : h \in Notices /\ h # e
    BY NotificationAssumption DEF Notices
  <2>3. \A h \in Cards : seen'[h] = seen[h] /\ group'[h].summary = group[h].summary
    BY <2>1, <2>2, ObserveChanges DEF Notices
  <2> QED
    BY <1>3, <2>3, OwedElsewhere DEF EnqueueObserve
<1>4. ASSUME NEW f \in Flushers, FlushClaim(f) PROVE Owed'
  <2>1. Claim(Alerts)
    BY <1>4 DEF FlushClaim
  <2>2. \A g \in Cards : g \in Notices /\ g \notin Expired(Alerts) /\ g \notin Summarised(Alerts)
    BY <2>1, ClaimTypes, NotificationAssumption DEF Notices
  <2>3. \A g \in Cards : group'[g] = group[g]
    BY <2>1, <2>2 DEF Claim
  <2> QED
    BY <1>4, <2>1, <2>3, ClaimTypes, OwedElsewhere DEF FlushClaim
<1>5. ASSUME NEW f \in Flushers, FlushStep(f) \/ FlushDies(f) PROVE Owed'
  BY <1>5, OwedElsewhere
     DEF FlushStep, FlushSummary, FlushTake, FlushEnd, FlushPost, FlushRecord, FlushDies
<1>6. ASSUME NEW p \in Publishers, NEW e \in Cards, PublishObserve(p, e) PROVE Owed'
  <2> DEFINE k == <<"event", e>>
  <2>1. PICK d \in {"IMMEDIATE", "MERGED", "DUPLICATE"} :
            /\ Observe(e, d)
            /\ pub' = [pub EXCEPT ![p] = IF d = "IMMEDIATE" THEN [pc |-> "send", todo |-> {k}] ELSE Idle]
    BY <1>6 DEF PublishObserve
  <2>2. e \in Notices /\ k \in CardKeys /\ Cards \subseteq Notices
    BY DEF Notices, CardKeys, Keys
  <2>3. pub[p] = Idle /\ calls' = calls
    BY <1>6 DEF PublishObserve
  <2>4. \A h \in Cards : seen'[h] = Unseen => seen[h] = Unseen /\ h # e
    BY <2>1, <2>2, ObserveChanges
  <2>5. \A g \in Cards : group'[g].summary \in {"NONE", "OPEN"} => group[g].summary \in {"NONE", "OPEN"} \/ g = e
    BY <2>1, <2>2, ObserveChanges
  <2>6. seen[e] = Unseen => group[e].summary = "NONE"
    BY <2>2 DEF Told, Grouped, NoGroup
  <2>7. seen[e] # Unseen => d = "DUPLICATE" /\ group' = group
    BY <2>1, <2>2, ObserveChanges
  <2>8. \A g \in Cards : group'[g].summary \in {"NONE", "OPEN"} => group[g].summary \in {"NONE", "OPEN"}
    BY <2>5, <2>6, <2>7
  <2>9. CASE d # "IMMEDIATE"
    <3>1. pub' = pub
      BY <2>1, <2>3, <2>9 DEF TypeOK
    <3> QED
      BY <2>3, <2>4, <2>8, <3>1, OwedElsewhere
  <2>10. CASE d = "IMMEDIATE"
    <3>1. seen[e] = Unseen
      BY <2>7, <2>10
    <3>2. Untold(k)
      BY <3>1 DEF Owed
    <3>3. pub' = [pub EXCEPT ![p] = [pc |-> "send", todo |-> {k}]]
      BY <2>1, <2>10
    <3>4. \A h \in Cards : seen'[h] = Unseen => seen[h] = Unseen /\ <<"event", h>> \notin {k}
      BY <2>4
    <3>5. \A g \in Cards : group'[g].summary \in {"NONE", "OPEN"} =>
             group[g].summary \in {"NONE", "OPEN"} /\ <<"summary", g>> \notin {k}
      BY <2>8
    <3> HIDE DEF k
    <3> QED
      BY <2>2, <2>3, <3>2, <3>3, <3>4, <3>5, OwedMore
  <2> QED
    BY <2>9, <2>10
<1>7. ASSUME NEW p \in Publishers, PublishClaim(p) PROVE Owed'
  <2> DEFINE T == {"summary"} \X Summarised(Cards)
  <2>1. /\ Claim(Cards) /\ pub[p] = Idle /\ calls' = calls
        /\ pub' = [pub EXCEPT ![p] = IF Summarised(Cards) = {} THEN Idle ELSE [pc |-> "send", todo |-> T]]
    BY <1>7 DEF PublishClaim
  <2>2. Summarised(Cards) \subseteq Expired(Cards) /\ Expired(Cards) \subseteq Cards /\ seen' = seen
    BY <2>1, ClaimTypes
  <2>3. \A g \in Cards : g \in Notices
    BY DEF Notices
  <2>4. ASSUME NEW g \in Cards, group'[g].summary \in {"NONE", "OPEN"}
        PROVE  group'[g] = group[g] /\ g \notin Expired(Cards)
    <3>1. g \in Expired(Cards) => group[g] \in Groups \ {NoGroup}
      BY <2>1, ClaimTypes
    <3>2. g \in Expired(Cards) => group'[g].summary \in {"CLAIMED", "CLOSED"}
      BY <2>1, <2>3, <3>1 DEF Claim, Groups
    <3> QED
      BY <2>1, <2>2, <2>3, <2>4, <3>2 DEF Claim
  <2>5. \A g \in Cards : group'[g].summary \in {"NONE", "OPEN"} =>
             group[g].summary \in {"NONE", "OPEN"} /\ <<"summary", g>> \notin T
    BY <2>2, <2>4
  <2>6. CASE Summarised(Cards) = {}
    <3>1. pub' = pub
      BY <2>1, <2>6 DEF TypeOK
    <3> QED
      BY <2>1, <2>2, <2>5, <3>1, OwedElsewhere
  <2>7. CASE Summarised(Cards) # {}
    <3>1. T \subseteq CardKeys
      BY <2>2 DEF CardKeys, Keys
    <3>2. \A k \in T : Untold(k)
      BY <2>2 DEF Expired, Owed
    <3>3. \A e \in Cards : seen'[e] = Unseen => seen[e] = Unseen /\ <<"event", e>> \notin T
      BY <2>2
    <3>4. pub' = [pub EXCEPT ![p] = [pc |-> "send", todo |-> T]]
      BY <2>1, <2>7
    <3> HIDE DEF T
    <3> QED
      BY <2>1, <2>5, <3>1, <3>2, <3>3, <3>4, OwedMore
  <2> QED
    BY <2>6, <2>7
<1>8. ASSUME NEW p \in Publishers, PublishCall(p) PROVE Owed'
  <2>1. pub[p] \in [pc : {"send"}, todo : SUBSET CardKeys] /\ seen' = seen /\ group' = group
    BY <1>8, SenderSteps DEF PublishCall
  <2>2. PICK k \in pub[p].todo :
             \/ pub' = [pub EXCEPT ![p] = Remain(p, k)] /\ calls' = calls
             \/ /\ calls' = [calls EXCEPT ![k] = @ + 1]
                /\ pub' = [pub EXCEPT ![p] = [pc |-> "call", key |-> k, todo |-> @.todo, attempt |-> 1]]
    BY <1>8 DEF PublishCall
  <2>3. CASE pub' = [pub EXCEPT ![p] = Remain(p, k)] /\ calls' = calls
    <3>1. pub'[p] = Remain(p, k) /\ \A q \in Publishers : q # p => pub'[q] = pub[q]
      BY <2>3 DEF TypeOK
    <3>2. pub'[p].pc \in {"idle", "send"} /\ Hands(p)' \subseteq Hands(p) /\ pub[p].pc = "send"
      BY <2>1, <3>1 DEF Remain, Hands, Idle
    <3> QED
      BY <2>1, <2>3, <3>1, <3>2, OwedLess DEF Sent
  <2>4. CASE /\ calls' = [calls EXCEPT ![k] = @ + 1]
             /\ pub' = [pub EXCEPT ![p] = [pc |-> "call", key |-> k, todo |-> @.todo, attempt |-> 1]]
    <3>1. pub'[p] = [pc |-> "call", key |-> k, todo |-> pub[p].todo, attempt |-> 1] /\ \A q \in Publishers : q # p => pub'[q] = pub[q]
      BY <2>4 DEF TypeOK
    <3>2. \A q \in Publishers : Hands(q)' = Hands(q)
      BY <2>1, <3>1 DEF Hands
    <3>3. k \in Hands(p) /\ k \in CardKeys /\ calls[k] = 0
      BY <2>1 DEF Hands, Owed, Sent
    <3>4. calls'[k] = 1 /\ \A c \in CardKeys : c # k => calls'[c] = calls[c]
      BY <2>4, <3>3 DEF TypeOK
    <3>5. \A q \in Publishers : q # p => k \notin Hands(q)
      BY <3>3 DEF Owed
    <3>6. \A q \in Publishers : Hands(q) \subseteq CardKeys
      BY SenderSteps DEF Hands
    <3>7. \A q \in Publishers : \A c \in Hands(q)' : ~Sent(q, c)' => calls'[c] = 0
      <4> SUFFICES ASSUME NEW q \in Publishers, NEW c \in Hands(q), ~Sent(q, c)'
                   PROVE  calls'[c] = 0
        BY <3>2
      <4>1. c # k
        BY <3>1, <3>5 DEF Sent
      <4>2. calls[c] = 0
        BY <2>1, <3>1 DEF Owed, Sent
      <4> QED
        BY <3>4, <3>6, <4>1, <4>2
    <3>8. \A c \in CardKeys : Untold(c) => Untold(c)'
      BY <3>2, <3>3, <3>4 DEF Untold
    <3>9. \A e \in Cards : <<"event", e>> \in CardKeys /\ <<"summary", e>> \in CardKeys
      BY DEF CardKeys, Keys
    <3>10. \A q, r \in Publishers : \A c \in Hands(q)' \cap Hands(r)' : q = r
      BY <3>2 DEF Owed
    <3>11. \A c \in CardKeys : calls'[c] <= 1
      BY <3>4 DEF Owed
    <3>12. \A e \in Cards : seen'[e] = Unseen => Untold(<<"event", e>>)'
      BY <2>1, <3>8, <3>9 DEF Owed
    <3>13. \A g \in Cards : group'[g].summary \in {"NONE", "OPEN"} => Untold(<<"summary", g>>)'
      BY <2>1, <3>8, <3>9 DEF Owed
    <3> QED
      BY <3>7, <3>10, <3>11, <3>12, <3>13 DEF Owed
  <2> QED
    BY <2>2, <2>3, <2>4
<1>11. ASSUME NEW p \in Publishers, PublishPost(p) PROVE Owed'
  <2>1. /\ pub[p] \in [pc : {"call"}, key : CardKeys, todo : SUBSET CardKeys, attempt : {1, 2}]
        /\ seen' = seen /\ group' = group /\ calls' = calls
    BY <1>11, SenderSteps DEF PublishPost
  <2>2. pub'[p].pc \in {"call", "record"} /\ pub'[p].key = pub[p].key /\ pub'[p].todo = pub[p].todo
    BY <1>11, <2>1 DEF PublishPost, TypeOK
  <2>3. \A q \in Publishers : q # p => pub'[q] = pub[q]
    BY <1>11 DEF PublishPost, TypeOK
  <2>4. \A q \in Publishers : Hands(q)' = Hands(q) /\ \A k : Sent(q, k)' <=> Sent(q, k)
    BY <2>1, <2>2, <2>3 DEF Hands, Sent
  <2>5. \A k : Untold(k) => Untold(k)'
    BY <2>1, <2>4 DEF Untold
  <2> QED
    BY <2>1, <2>4, <2>5 DEF Owed
<1>9. ASSUME NEW p \in Publishers, PublishRecord(p) PROVE Owed'
  <2>1. pub[p] \in [pc : {"record"}, key : CardKeys, todo : SUBSET CardKeys] /\ seen' = seen /\ group' = group /\ calls' = calls
    BY <1>9, SenderSteps DEF PublishRecord
  <2>2. pub'[p] = Remain(p, pub[p].key) /\ \A q \in Publishers : q # p => pub'[q] = pub[q]
    BY <1>9 DEF PublishRecord, TypeOK
  <2>3. pub'[p].pc \in {"idle", "send"} /\ Hands(p)' \subseteq Hands(p) \ {pub[p].key}
    BY <2>1, <2>2 DEF Remain, Hands, Idle
  <2> QED
    BY <2>1, <2>2, <2>3, OwedLess DEF Sent
<1>10. ASSUME NEW p \in Publishers, PublishDies(p) PROVE Owed'
  <2>1. pub'[p] = Idle /\ (\A q \in Publishers : q # p => pub'[q] = pub[q]) /\ seen' = seen /\ group' = group /\ calls' = calls
    BY <1>10 DEF PublishDies, TypeOK
  <2>2. pub'[p].pc = "idle" /\ Hands(p)' = {}
    BY <2>1 DEF Hands, Idle
  <2> QED
    BY <2>1, <2>2, OwedLess
<1> QED
  BY <1>1, <1>2, <1>3, <1>4, <1>5, <1>6, <1>7, <1>8, <1>9, <1>10, <1>11 DEF Next, Enqueue, Flush, Publish

LEMMA OwedAlways == Spec => []Owed
<1>1. Init => Owed
  BY DEF Init, Owed, Hands, Untold, Idle, CardKeys, Keys
<1>2. TypeOK /\ TypeOK' /\ Told /\ Owed /\ [Next]_vars => Owed'
  BY OwedStep
<1> QED
  BY <1>1, <1>2, TypeCorrect, ToldAlways, PTL DEF Spec

-----------------------------------------------------------------------------
Tried(k) == Len(wire[k]) <= 2 /\ (Len(wire[k]) = 2 => wire[k][1] = "RETRYABLE")

\* What the call that is going on has put on the wire so far.
SoFar(n) == IF n = 1 THEN <<>> ELSE <<"RETRYABLE">>

Wired ==
    /\ \A k \in CardKeys : calls[k] = 0 => wire[k] = <<>>
    /\ \A k \in CardKeys : Tried(k)
    /\ \A p \in Publishers : pub[p].pc = "call" => /\ pub[p].key \in pub[p].todo
                                                   /\ calls[pub[p].key] # 0
                                                   /\ wire[pub[p].key] = SoFar(pub[p].attempt)

\* Steps that neither call nor post.
LEMMA WiredElsewhere ==
  ASSUME Wired, calls' = calls, wire' = wire,
         \A p \in Publishers : pub'[p].pc = "call" => pub'[p] = pub[p]
  PROVE  Wired'
BY DEF Wired, Tried

LEMMA WiredStep ==
  ASSUME TypeOK, TypeOK', Owed, Wired, [Next]_vars
  PROVE  Wired'
<1> USE DEF box, history
<1>1. CASE UNCHANGED vars
  BY <1>1, WiredElsewhere DEF vars
<1>2. CASE Tick \/ Configure \/ Enqueue
  BY <1>2, WiredElsewhere DEF Tick, Configure, Enqueue, EnqueueObserve, EnqueueCommit, EnqueueDies
<1>3. ASSUME NEW f \in Flushers, Flush(f) PROVE Wired'
  BY <1>3, WiredElsewhere
     DEF Flush, FlushStep, FlushClaim, FlushSummary, FlushTake, FlushEnd, FlushPost, FlushRecord, FlushDies
<1>4. ASSUME NEW p \in Publishers, NEW e \in Cards, PublishObserve(p, e) PROVE Wired'
  BY <1>4, WiredElsewhere DEF PublishObserve, TypeOK, Idle
<1>5. ASSUME NEW p \in Publishers, PublishClaim(p) \/ PublishRecord(p) \/ PublishDies(p) PROVE Wired'
  BY <1>5, WiredElsewhere DEF PublishClaim, PublishRecord, PublishDies, Remain, TypeOK, Idle
<1>6. ASSUME NEW p \in Publishers, PublishCall(p) PROVE Wired'
  <2>1. pub[p] \in [pc : {"send"}, todo : SUBSET CardKeys] /\ wire' = wire
    BY <1>6, SenderSteps DEF PublishCall
  <2>2. PICK k \in pub[p].todo :
             \/ pub' = [pub EXCEPT ![p] = Remain(p, k)] /\ calls' = calls
             \/ /\ calls' = [calls EXCEPT ![k] = @ + 1]
                /\ pub' = [pub EXCEPT ![p] = [pc |-> "call", key |-> k, todo |-> @.todo, attempt |-> 1]]
    BY <1>6 DEF PublishCall
  <2>3. CASE pub' = [pub EXCEPT ![p] = Remain(p, k)] /\ calls' = calls
    BY <2>1, <2>3, WiredElsewhere DEF Remain, TypeOK, Idle
  <2>4. CASE /\ calls' = [calls EXCEPT ![k] = @ + 1]
             /\ pub' = [pub EXCEPT ![p] = [pc |-> "call", key |-> k, todo |-> @.todo, attempt |-> 1]]
    <3>1. k \in CardKeys /\ k \in Hands(p) /\ ~Sent(p, k)
      BY <2>1 DEF Hands, Sent
    <3>2. calls[k] = 0 /\ wire[k] = <<>>
      BY <3>1 DEF Owed, Wired
    <3>3. \A c \in CardKeys : calls'[c] = 0 => calls[c] = 0
      BY <2>4, <3>1, <3>2 DEF TypeOK
    <3>4. pub'[p] = [pc |-> "call", key |-> k, todo |-> pub[p].todo, attempt |-> 1] /\ \A q \in Publishers : q # p => pub'[q] = pub[q]
      BY <2>4 DEF TypeOK
    <3>5. calls'[k] = 1 /\ \A c \in CardKeys : c # k => calls'[c] = calls[c]
      BY <2>4, <3>1, <3>2 DEF TypeOK
    <3>6. pub'[p].key \in pub'[p].todo /\ calls'[pub'[p].key] # 0 /\ wire'[pub'[p].key] = SoFar(pub'[p].attempt)
      BY <2>1, <2>2, <3>2, <3>4, <3>5 DEF SoFar
    <3>7. ASSUME NEW q \in Publishers, q # p, pub'[q].pc = "call"
          PROVE  pub'[q].key \in pub'[q].todo /\ calls'[pub'[q].key] # 0 /\ wire'[pub'[q].key] = SoFar(pub'[q].attempt)
      BY <2>1, <3>3, <3>4, <3>7, SenderSteps DEF Wired
    <3>8. \A c \in CardKeys : (calls'[c] = 0 => wire'[c] = <<>>) /\ Tried(c)'
      BY <2>1, <3>3 DEF Wired, Tried
    <3> QED
      BY <3>6, <3>7, <3>8 DEF Wired
  <2> QED
    BY <2>2, <2>3, <2>4
<1>7. ASSUME NEW p \in Publishers, PublishPost(p) PROVE Wired'
  <2>1. PICK o \in {"FINAL", "RETRYABLE"} :
            /\ wire' = [wire EXCEPT ![pub[p].key] = Append(@, o)]
            /\ pub' = [pub EXCEPT ![p] = IF Again(o, @.attempt) THEN [@ EXCEPT !.attempt = 2]
                                         ELSE [pc |-> "record", key |-> @.key, todo |-> @.todo]]
    BY <1>7 DEF PublishPost
  <2>2. pub[p] \in [pc : {"call"}, key : CardKeys, todo : SUBSET CardKeys, attempt : {1, 2}] /\ calls' = calls
    BY <1>7, SenderSteps DEF PublishPost
  <2>3. PICK k \in CardKeys : k = pub[p].key /\ k \in Hands(p) /\ wire[k] = SoFar(pub[p].attempt)
    BY <2>2 DEF Wired, Hands
  <2>4. wire'[k] = Append(wire[k], o) /\ \A c \in CardKeys : c # k => wire'[c] = wire[c]
    BY <2>1, <2>3 DEF TypeOK
  <2>5. wire'[k] = IF pub[p].attempt = 1 THEN <<o>> ELSE <<"RETRYABLE", o>>
    BY <2>2, <2>3, <2>4 DEF SoFar
  <2>6. calls[k] # 0
    BY <2>2, <2>3 DEF Wired
  <2>7. pub'[p] = (IF Again(o, pub[p].attempt) THEN [pub[p] EXCEPT !.attempt = 2]
                   ELSE [pc |-> "record", key |-> k, todo |-> pub[p].todo])
        /\ \A q \in Publishers : q # p => pub'[q] = pub[q]
    BY <2>1, <2>3 DEF TypeOK
  <2>8. \A c \in CardKeys : calls'[c] = 0 => wire'[c] = <<>>
    BY <2>2, <2>4, <2>6 DEF Wired
  <2>9. pub[p].attempt = 2 => wire'[k][1] = "RETRYABLE"
    BY <2>5
  <2>10. Len(wire'[k]) = pub[p].attempt
    BY <2>2, <2>5
  <2>11. ASSUME NEW c \in CardKeys PROVE Tried(c)'
    <3>1. CASE c = k
      BY <2>2, <2>9, <2>10, <3>1 DEF Tried
    <3>2. CASE c # k
      BY <2>4, <3>2 DEF Wired, Tried
    <3> QED
      BY <3>1, <3>2
  <2>12. ASSUME NEW q \in Publishers, pub'[q].pc = "call"
         PROVE  /\ pub'[q].key \in pub'[q].todo
                /\ calls'[pub'[q].key] # 0
                /\ wire'[pub'[q].key] = SoFar(pub'[q].attempt)
    <3>1. CASE q = p
      <4>1. o = "RETRYABLE" /\ pub[p].attempt = 1 /\ pub'[p] = [pub[p] EXCEPT !.attempt = 2]
        BY <2>7, <2>12, <3>1 DEF Again
      <4>2. pub'[p].key = k /\ pub'[p].todo = pub[p].todo /\ pub'[p].attempt = 2
        BY <2>2, <2>3, <4>1
      <4> QED
        BY <2>2, <2>3, <2>5, <2>6, <3>1, <4>1, <4>2 DEF SoFar, Hands
    <3>2. CASE q # p
      <4>1. pub'[q] = pub[q] /\ pub[q].pc = "call" /\ pub[q].key \in CardKeys /\ pub[q].key \in Hands(q)
        BY <2>7, <2>12, <3>2, SenderSteps DEF Wired, Hands
      <4>2. pub[q].key # k
        BY <2>3, <3>2, <4>1 DEF Owed
      <4> QED
        BY <2>2, <2>4, <4>1, <4>2 DEF Wired
    <3> QED
      BY <3>1, <3>2
  <2> QED
    BY <2>8, <2>11, <2>12 DEF Wired
<1> QED
  BY <1>1, <1>2, <1>3, <1>4, <1>5, <1>6, <1>7 DEF Next, Publish

\* The customer notifier is called at most once for a card or a summary,
\* whatever publishers overlap or die between the call and its record, and the
\* card is on the wire twice only as the retry of that call.
THEOREM CalledOnce == Spec => []OneCallPerCard
<1>1. Init => Wired
  BY DEF Init, Wired, Tried, Idle, CardKeys, Keys
<1>2. TypeOK /\ TypeOK' /\ Owed /\ Wired /\ [Next]_vars => Wired'
  BY WiredStep
<1>3. Owed /\ Wired => OneCallPerCard
  BY DEF Owed, Wired, Tried, OneCallPerCard, CardKeys
<1> QED
  BY <1>1, <1>2, <1>3, TypeCorrect, OwedAlways, PTL DEF Spec
=============================================================================
