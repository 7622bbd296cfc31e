---------------------------- MODULE Notification ----------------------------
(***************************************************************************)
(* Notification channels and the dispatcher. One goroutine tails the audit *)
(* log from a cursor, queues one delivery per matching event and           *)
(* subscribed channel in the transaction that moves the cursor, and then   *)
(* sends what is due. Channels are edited, disabled and deleted while a    *)
(* pass works on what it read, the keyring can be sealed under it, and the *)
(* process can stop between a send and the mark that it was sent.          *)
(***************************************************************************)
EXTENDS Naturals, SequencesExt

CONSTANTS
    MaxChannels,   \* bound on the channels created
    Kinds,         \* KnownEventKinds
    Quiet,         \* an audit event classify maps to ""
    MaxEvents,     \* bound on the audit log
    FanoutBatch,   \* fanoutBatch, audit rows scanned per tick
    DeliverBatch,  \* deliverBatch, deliveries attempted per tick
    MaxAttempts,   \* maxAttempts
    NotifyFaults,  \* bound on disturbances: stops, seals, failed statements
    MaxEdits,      \* bound on updates and deletions of channels
    MaxNotices     \* bound on channels times notifiable events

ASSUME NotificationAssumption ==
    /\ Quiet \notin Kinds /\ MaxChannels \in Nat /\ MaxEvents \in Nat /\ NotifyFaults \in Nat /\ MaxEdits \in Nat /\ MaxNotices \in Nat
    /\ FanoutBatch \in Nat \ {0} /\ DeliverBatch \in Nat \ {0} /\ MaxAttempts \in Nat \ {0}

\* Channel ids, in the order they are handed out.
Channels == 1 .. MaxChannels

VARIABLES
    log,        \* the kind of every audit event, by seq
    pruned,     \* audit retention has deleted the events up to this seq
    channel,    \* the notification_channels rows
    cursor,     \* notification_cursor.last_seq
    delivery,   \* the notification_deliveries rows, by (channel_id, audit_seq)
    queue,      \* the pending deliveries whose next_attempt_at has come, oldest first
    pass,       \* the local state of the dispatcher
    krSealed,   \* Keyring.Sealed
    notifyFaults, edits,
    owed,       \* history: (channel, event) pairs the channel subscribed to when the
                \* event was recorded and has subscribed to since
    arrived     \* history: how often each message reached its destination

notifyVars == <<log, pruned, channel, cursor, delivery, queue, pass, krSealed, notifyFaults, edits, owed, arrived>>
adminVars == <<log, pruned, cursor, pass, krSealed, notifyFaults>>
outboxVars == <<log, pruned, channel, cursor, krSealed, edits, owed>>

Notices == Channels \X (1 .. MaxEvents)
NoDelivery == [status |-> "none", attempts |-> 0]
\* The queue q without the entries of G.
Without(q, G) ==
    LET kept == {i \in DOMAIN q : q[i] \notin G}
        position(n) == CHOOSE i \in kept : Cardinality({j \in kept : j <= i}) = n
    IN [n \in 1 .. Cardinality(kept) |-> q[position(n)]]
IdlePass == [at |-> "idle", seqs |-> {}, listed |-> [c \in Channels |-> {}], due |-> <<>>,
             seen |-> [c \in Channels |-> {}]]
NoChannel == [row |-> "none", events |-> {}]

NotifyTypeOK ==
    /\ log \in Seq(Kinds \cup {Quiet}) /\ Len(log) <= MaxEvents
    /\ pruned \in 0 .. Len(log) /\ cursor \in 0 .. Len(log)
    /\ channel \in [Channels -> [row : {"none", "enabled", "disabled", "gone"}, events : SUBSET Kinds]]
    /\ delivery \in [Notices -> [status : {"none", "pending", "delivered", "failed"},
                                 attempts : 0 .. MaxAttempts]]
    /\ \A i \in DOMAIN queue : delivery[queue[i]].status = "pending"
    /\ pass.at \in {"idle", "tailed", "listed", "queued", "delivering", "sent"}
    /\ \A d \in Notices : delivery[d].status # "none" => channel[d[1]].row \notin {"none", "gone"}
    /\ arrived \in [Notices -> Nat] /\ owed \subseteq Notices /\ notifyFaults \in 0 .. NotifyFaults /\ edits \in 0 .. MaxEdits

NotifyInit ==
    /\ log = <<>> /\ pruned = 0 /\ cursor = 0
    /\ channel = [c \in Channels |-> NoChannel]
    /\ delivery = [d \in Notices |-> NoDelivery] /\ queue = <<>> /\ pass = IdlePass
    /\ krSealed = FALSE /\ notifyFaults = 0 /\ edits = 0
    /\ owed = {} /\ arrived = [d \in Notices |-> 0]

-----------------------------------------------------------------------------
(* The audit log, written by every handler, and the channel handlers. The  *)
(* handlers' own events come after the change, in a transaction of their   *)
(* own, and no channel can subscribe to them: they are RecordEvent(Quiet). *)
(* A test message bypasses the outbox and leaves only such an event.       *)

Subscribers(k) == {c \in Channels : channel[c].row = "enabled" /\ k \in channel[c].events}

Present == {c \in Channels : channel[c].row \in {"enabled", "disabled"}}
Loud == {s \in DOMAIN log : log[s] # Quiet}

\* Any operation that records an event.
RecordEvent(k) ==
    /\ Len(log) < MaxEvents
    /\ k # Quiet => Cardinality(Present) * (Cardinality(Loud) + 1) <= MaxNotices
    /\ log' = Append(log, k)
    /\ owed' = owed \cup (Subscribers(k) \X {Len(log) + 1})
    /\ UNCHANGED <<pruned, channel, cursor, delivery, queue, pass, krSealed, notifyFaults, edits, arrived>>

\* Retention prunes without asking the notification cursor: an event not yet
\* scanned is not owed any more. Pruning events already scanned concerns nobody here.
PruneLog(n) ==
    /\ n > cursor
    /\ pruned' = n
    /\ owed' = {d \in owed : d[2] > n \/ d[2] <= cursor}
    /\ UNCHANGED <<log, channel, cursor, delivery, queue, pass, krSealed, notifyFaults, edits, arrived>>

\* Waiting deliveries that have no row yet are dropped when the channel stops asking.
StillOwed(c, events) ==
    {d \in owed : d[1] # c \/ delivery[d].status # "none" \/ log[d[2]] \in events}

CreateChannel(c, events) ==
    /\ channel[c].row = "none" /\ (\A b \in 1 .. c - 1 : channel[b].row # "none") /\ ~krSealed
    /\ (Cardinality(Present) + 1) * Cardinality(Loud) <= MaxNotices
    /\ channel' = [channel EXCEPT ![c] = [row |-> "enabled", events |-> events]]
    /\ UNCHANGED <<adminVars, delivery, queue, edits, owed, arrived>>

Edit(c) == c \in Present /\ edits < MaxEdits /\ edits' = edits + 1

UpdateChannel(c, row, events) ==
    /\ Edit(c)
    /\ channel' = [channel EXCEPT ![c] = [row |-> row, events |-> events]]
    /\ owed' = StillOwed(c, IF row = "enabled" THEN events ELSE {})
    /\ UNCHANGED <<adminVars, delivery, queue, arrived>>

\* The queued deliveries go with the row (ON DELETE CASCADE).
DeleteChannel(c) ==
    /\ Edit(c)
    /\ channel' = [channel EXCEPT ![c] = [row |-> "gone", events |-> {}]]
    /\ delivery' = [d \in Notices |-> IF d[1] = c THEN NoDelivery ELSE delivery[d]]
    /\ queue' = Without(queue, {c} \X (1 .. MaxEvents))
    /\ owed' = {d \in owed : d[1] # c}
    /\ arrived' = [d \in Notices |-> IF d[1] = c THEN 0 ELSE arrived[d]]
    /\ UNCHANGED adminVars

-----------------------------------------------------------------------------
(* A pass: fanOut.                                                         *)

\* RunDue is a no-op while sealed. GetCursor and ListSince: only this goroutine
\* moves the cursor.
Unscanned == {s \in (pruned + 1) .. Len(log) : s > cursor}
NotifyTick ==
    LET batch == {s \in Unscanned : Cardinality({t \in Unscanned : t < s}) < FanoutBatch}
    IN /\ pass.at = "idle" /\ ~krSealed
       /\ pass' = [IdlePass EXCEPT !.at = IF batch = {} THEN "queued" ELSE "tailed", !.seqs = batch]
       /\ UNCHANGED <<outboxVars, delivery, queue, notifyFaults, arrived>>

ListEnabledChannels ==
    /\ pass.at = "tailed"
    /\ pass' = [pass EXCEPT !.at = "listed",
                   !.listed = [c \in Channels |-> IF channel[c].row = "enabled" THEN channel[c].events ELSE {}]]
    /\ UNCHANGED <<outboxVars, delivery, queue, notifyFaults, arrived>>

Matched == {d \in Channels \X pass.seqs : log[d[2]] \in pass.listed[d[1]]}

\* Mutant of FanOut: the cursor moves although the insert failed.
FanOutAdvancesAnyway ==
    LET new == {d \in Matched : delivery[d].status = "none"}
        aborts == \E d \in Matched : channel[d[1]].row = "gone"
    IN /\ delivery' = [d \in Notices |-> IF d \in new /\ ~aborts THEN [status |-> "pending", attempts |-> 0]
                                          ELSE delivery[d]]
       /\ queue' \in {queue \o q : q \in SetToSeqs(IF aborts THEN {} ELSE new)}
       /\ cursor' = Max(pass.seqs \cup {cursor})
\* One transaction: a listed channel that has been deleted since fails the foreign
\* key and with it the whole batch; a row that exists already is left alone; the
\* cursor only rises.
FanOut ==
    LET new == {d \in Matched : delivery[d].status = "none"}
        aborts == \E d \in Matched : channel[d[1]].row = "gone"
    IN IF aborts THEN UNCHANGED <<delivery, queue, cursor>>
       ELSE /\ delivery' = [d \in Notices |-> IF d \in new THEN [status |-> "pending", attempts |-> 0]
                                              ELSE delivery[d]]
            /\ queue' \in {queue \o q : q \in SetToSeqs(new)}
            /\ cursor' = Max(pass.seqs \cup {cursor})
FanOutStep ==
    /\ pass.at = "listed"
    /\ FanOut
    /\ pass' = [IdlePass EXCEPT !.at = "queued"]
    /\ UNCHANGED <<log, pruned, channel, krSealed, edits, owed, notifyFaults, arrived>>

-----------------------------------------------------------------------------
(* A pass: deliver.                                                        *)

ClaimDueDeliveries ==
    LET due == SubSeq(queue, 1, IF Len(queue) < DeliverBatch THEN Len(queue) ELSE DeliverBatch)
    IN /\ pass.at = "queued"
       /\ pass' = [pass EXCEPT !.at = IF due = <<>> THEN "idle" ELSE "delivering", !.due = due]
       /\ UNCHANGED <<outboxVars, delivery, queue, notifyFaults, arrived>>

Current == Head(pass.due)
Seen == pass.seen[Current[1]]
NextDue == pass' = IF Len(pass.due) = 1 THEN IdlePass
                   ELSE [pass EXCEPT !.at = "delivering", !.due = Tail(pass.due)]

\* FailDelivery and RescheduleDelivery; the row may have gone with its channel.
Settle(d, status) ==
    /\ delivery' = IF delivery[d].status = "none" THEN delivery
                   ELSE [delivery EXCEPT ![d] = [status |-> status, attempts |-> @.attempts + 1]]
    /\ queue' = Without(queue, {d})
Reschedule(d) ==
    Settle(d, IF delivery[d].attempts + 1 >= MaxAttempts THEN "failed" ELSE "pending")

SkipGone ==
    /\ pass.at = "delivering" /\ Seen = {} /\ channel[Current[1]].row = "gone"
    /\ NextDue
    /\ UNCHANGED <<outboxVars, delivery, queue, notifyFaults, arrived>>

\* The row is read once per pass and channel; when its config does not open the
\* attempt counts, and the pass keeps the row without a config.
OpenChannel ==
    LET read == {"read"} \cup {channel[Current[1]].row} \cup (IF krSealed THEN {} ELSE {"opened"})
        remember(p) == [p EXCEPT !.seen[Current[1]] = read]
    IN /\ pass.at = "delivering" /\ Seen = {} /\ channel[Current[1]].row # "gone"
       /\ \/ /\ ~krSealed /\ pass' = remember(pass)
             /\ UNCHANGED <<delivery, queue>>
          \/ /\ krSealed /\ Reschedule(Current)
             /\ pass' = IF Len(pass.due) = 1 THEN IdlePass
                        ELSE [remember(pass) EXCEPT !.due = Tail(pass.due)]
       /\ UNCHANGED <<outboxVars, notifyFaults, arrived>>

\* Mutant of DropDisabled: the delivery of a disabled channel is passed over.
DropDisabledSkips ==
    /\ pass.at = "delivering" /\ "disabled" \in Seen
    /\ NextDue
    /\ UNCHANGED <<outboxVars, delivery, queue, notifyFaults, arrived>>
DropDisabled ==
    /\ pass.at = "delivering" /\ "disabled" \in Seen
    /\ Settle(Current, "failed") /\ NextDue
    /\ UNCHANGED <<outboxVars, notifyFaults, arrived>>

\* send: the destination takes the message and says so, or it does not answer 2xx
\* in time, whether or not it took the message. Without a config nothing is reached.
SendAccepted ==
    /\ pass.at = "delivering" /\ {"enabled", "opened"} \subseteq Seen
    /\ arrived' = [arrived EXCEPT ![Current] = @ + 1]
    /\ pass' = [pass EXCEPT !.at = "sent"]
    /\ UNCHANGED <<outboxVars, delivery, queue, notifyFaults>>
SendFails ==
    /\ pass.at = "delivering" /\ "enabled" \in Seen
    /\ \/ UNCHANGED arrived
       \/ "opened" \in Seen /\ arrived' = [arrived EXCEPT ![Current] = @ + 1]
    /\ Reschedule(Current) /\ NextDue
    /\ UNCHANGED <<outboxVars, notifyFaults>>
MarkDelivered ==
    /\ pass.at = "sent"
    /\ Settle(Current, "delivered") /\ NextDue
    /\ UNCHANGED <<outboxVars, notifyFaults, arrived>>

\* The backoff of a rescheduled delivery ends: it is due after those already due.
Elapse(d) ==
    /\ delivery[d].status = "pending" /\ ~Contains(queue, d)
    /\ queue' = Append(queue, d)
    /\ UNCHANGED <<outboxVars, delivery, pass, notifyFaults, arrived>>

-----------------------------------------------------------------------------
(* Disturbances.                                                           *)

Disturb == notifyFaults < NotifyFaults /\ notifyFaults' = notifyFaults + 1

\* A failed read or transaction of fanOut goes on to deliver, a failed claim ends
\* the pass, a failed mark leaves the delivery pending and due.
StatementFails ==
    /\ Disturb
    /\ \/ pass.at \in {"tailed", "listed"} /\ pass' = [IdlePass EXCEPT !.at = "queued"]
       \/ pass.at = "queued" /\ pass' = IdlePass
       \/ pass.at = "sent" /\ NextDue
    /\ UNCHANGED <<outboxVars, delivery, queue, arrived>>
SealKeyring ==
    /\ Disturb /\ ~krSealed /\ krSealed' = TRUE
    /\ UNCHANGED <<log, pruned, channel, cursor, edits, owed, delivery, queue, pass, arrived>>
NotifyUnseal ==
    /\ krSealed /\ krSealed' = FALSE
    /\ UNCHANGED <<log, pruned, channel, cursor, edits, owed, delivery, queue, pass, notifyFaults, arrived>>
\* The process stops and comes back sealed.
Stop ==
    /\ Disturb /\ pass.at # "idle" /\ pass' = IdlePass /\ krSealed' = TRUE
    /\ UNCHANGED <<log, pruned, channel, cursor, edits, owed, delivery, queue, arrived>>

Dispatch ==
    NotifyTick \/ ListEnabledChannels \/ FanOutStep \/ ClaimDueDeliveries \/ SkipGone \/ OpenChannel
    \/ DropDisabled \/ SendAccepted \/ SendFails \/ MarkDelivered
Administer ==
    \/ \E c \in Channels : DeleteChannel(c)
    \/ \E c \in Channels, events \in SUBSET Kinds \ {{}} :
          CreateChannel(c, events) \/ \E row \in {"enabled", "disabled"} : UpdateChannel(c, row, events)
NotifyNext ==
    \/ Dispatch \/ Administer
    \/ \E k \in Kinds \cup {Quiet} : RecordEvent(k)
    \/ \E n \in pruned + 1 .. Len(log) : PruneLog(n)
    \/ \E d \in Notices : Elapse(d)
    \/ StatementFails \/ SealKeyring \/ NotifyUnseal \/ Stop

\* The ticker keeps ticking, a started pass runs on, backoffs end and an operator
\* unseals in the end.
NotifyFairness ==
    WF_notifyVars(Dispatch) /\ WF_notifyVars(NotifyUnseal) /\ WF_notifyVars(\E d \in Notices : Elapse(d))
NotifySpec == NotifyInit /\ [][NotifyNext]_notifyVars /\ NotifyFairness

-----------------------------------------------------------------------------
(* Properties.                                                             *)

\* The cursor never passes an event that a channel, subscribed since before it was
\* recorded, has no delivery for: neither a deletion that aborts the batch nor a
\* stop between reading and queueing loses one.
NothingPassesUnqueued ==
    \A d \in owed : d[2] <= cursor => delivery[d].status # "none"

\* "delivered" is only ever said of a message its destination took.
DeliveredMeansArrived ==
    \A d \in Notices : delivery[d].status = "delivered" => arrived[d] > 0

\* A destination gets a message again only after an attempt that was recorded as
\* failed or a disturbance that kept a send from being recorded.
RepeatsAreAccountedFor ==
    \A d \in Notices : delivery[d].status # "none" =>
        arrived[d] <= delivery[d].attempts + notifyFaults
                      + (IF pass.at = "sent" /\ Current = d THEN 1 ELSE 0)

\* What is owed is delivered, or given up on after its attempts, in the end, unless
\* the channel stops asking for it or retention takes the event first.
EveryNoticeIsSettled ==
    \A d \in Notices : (d \in owed) ~> (d \notin owed \/ delivery[d].status \in {"delivered", "failed"})

\* The outbox is faithful: nothing the cursor has passed is missing from the queue, what is
\* marked delivered has arrived, and a message repeats no oftener than stops and retries
\* account for.
NoticesAreAccountedFor ==
    NotifyTypeOK /\ NothingPassesUnqueued /\ DeliveredMeansArrived /\ RepeatsAreAccountedFor

=============================================================================
