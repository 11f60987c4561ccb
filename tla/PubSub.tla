------------------------------- MODULE PubSub -------------------------------
(***************************************************************************)
(* A Pub/Sub pull subscription with a dead-letter topic: publish, pull,    *)
(* acknowledge, modify deadline, snapshot and seek                         *)
(* (internal/gcp/provider/pubsub/pubsub.go, service/pubsub/seek.go; the    *)
(* unary calls of internal/gcp/grpc/pubsub/service.go do the same).  Every *)
(* call into the message store is a step of its own, and other handlers    *)
(* run in between.                                                         *)
(*                                                                         *)
(* A long poll is a Pull that is repeated until it finds something.  An    *)
(* ack request carries one ack id: a list of them is a sequence of such    *)
(* requests.                                                               *)
(***************************************************************************)
EXTENDS PubSubStore

CONSTANTS
    Clients,
    Publishers,
    ExactlyOnce,            \* enableExactlyOnceDelivery
    Matches,                \* whether published messages match the filter
    AckDeadline,            \* ackDeadlineSeconds
    Extensions,             \* the deadlines ModifyAckDeadline is called with
    Retention,              \* of the topic, 0 for none
    MaxMessages,            \* maxMessages
    MaxDeliveryAttempts,    \* of the dead-letter policy
    HasDeadSub,             \* whether the dead-letter topic has pull subscriptions
    MaxPublished,           \* bound: the last id publishers get
    BatchSize,              \* bound: messages in one publish request
    FirstSeq,               \* the message-id counter at the start
    MaxVersion,             \* bound: claims and seeks of one message
    MaxSeeks,               \* bound: seeks
    MaxTime                 \* bound: the clock stops there

ASSUME PubSubAssumption ==
    /\ {ExactlyOnce, HasDeadSub} \subseteq BOOLEAN /\ Matches \subseteq BOOLEAN
    /\ Extensions \subseteq Nat
    /\ {AckDeadline, Retention, FirstSeq, MaxSeeks, MaxPublished} \subseteq Nat
    /\ {MaxMessages, MaxDeliveryAttempts, BatchSize, MaxVersion, MaxTime} \subseteq Nat \ {0}
    /\ FirstSeq <= MaxId /\ MaxPublished <= MaxId

VARIABLES
    now,
    seq,        \* the message-id counter
    sub,        \* the messages of the subscription
    dead,       \* the messages of each of the dead-letter topic's subscriptions
    drawing,    \* the request whose messages a publisher has still to number
    publishing, \* what each publisher has still to put
    pc,         \* where each client's request is
    batch,      \* the claimed messages a pull has still to handle
    arg,        \* the ack or modify request that passed its check
    issued,     \* ack ids clients have been given
    snapshot,   \* the snapshot resource
    seeking,    \* where the seek is
    target,     \* the time it seeks to, or the snapshot's
    listed,     \* the messages the last seek listed
    todo,       \* the messages its loop has still to handle
    seeks,      \* counts seeks
    put,        \* history: ids of messages put into the subscription
    settled     \* history: messages that left the subscription and are done with

publisherVars == <<drawing, publishing>>
clientVars == <<pc, batch, arg, issued>>
seekVars == <<snapshot, seeking, target, listed, todo, seeks>>
vars == <<now, seq, sub, dead, publisherVars, clientVars, seekVars, put, settled>>

NoSnapshot == [status |-> "none", createdAt |-> 0, backlog |-> EmptyBox]
AckIds == Ids \X Nat
NoArg == [id |-> 0, seconds |-> 0, at |-> 0]
NoRequest == [left |-> 0, at |-> 0, key |-> NoKey, match |-> TRUE]

PubSubTypeOK ==
    /\ now \in 1..MaxTime /\ seq \in 0..MaxId /\ seeks \in 0..MaxSeeks
    /\ IsBox(sub) /\ IsBox(dead) /\ DOMAIN sub \cup DOMAIN dead \subseteq 1..seq
    /\ drawing \in [Publishers -> [left : Nat, at : Nat, key : Keys \cup {NoKey}, match : BOOLEAN]]
    /\ DOMAIN publishing = Publishers /\ \A p \in Publishers : IsBox(publishing[p])
    /\ pc \in [Clients -> {"idle", "handling", "forwarding", "acking", "modifying"}]
    /\ DOMAIN batch = Clients /\ \A c \in Clients : IsBox(batch[c])
    /\ arg \in [Clients -> [id : Nat, seconds : Nat, at : Nat]]
    /\ issued \subseteq AckIds
    /\ snapshot.status \in {"none", "listed", "created"}
    /\ snapshot.createdAt \in Nat /\ IsBox(snapshot.backlog)
    /\ seeking \in {"idle", "trimming", "releasing", "clearing", "restoring", "replaying"}
    /\ target \in Nat /\ IsBox(listed) /\ IsBox(todo)
    /\ put \subseteq Ids
    /\ settled \subseteq Ids \X (Keys \cup {NoKey})

PubSubInit ==
    /\ now = 1 /\ seq = FirstSeq /\ sub = EmptyBox /\ dead = EmptyBox
    /\ drawing = [p \in Publishers |-> NoRequest]
    /\ publishing = [p \in Publishers |-> EmptyBox]
    /\ pc = [c \in Clients |-> "idle"] /\ batch = [c \in Clients |-> EmptyBox]
    /\ arg = [c \in Clients |-> NoArg]
    /\ issued = {} /\ put = {} /\ settled = {}
    /\ snapshot = NoSnapshot /\ seeking = "idle" /\ target = 0
    /\ listed = EmptyBox /\ todo = EmptyBox /\ seeks = 0

\* The first message of a list.
First(b) == CHOOSE i \in DOMAIN b : \A j \in DOMAIN b \ {i} : Before(b, i, j)
Rest(b) == AfterRemove(b, {First(b)})

\* History: what is kept of messages that leave the subscription.
Entries(S) == {<<i, sub[i].key>> : i \in S}

-----------------------------------------------------------------------------
(* Publish *)

NewMessage(i, r) ==
    [key |-> r.key, at |-> r.at, src |-> i, match |-> r.match,
     visibleAt |-> 0, attempt |-> 0, version |-> 0, acked |-> FALSE, held |-> FALSE]

\* TopicPublish reads the clock once for its messages ...
TopicPublish(p, n, k, m) ==
    /\ drawing[p].left = 0 /\ publishing[p] = EmptyBox /\ seq + n <= MaxPublished
    /\ drawing' = [drawing EXCEPT ![p] = [left |-> n, at |-> now, key |-> k, match |-> m]]
    /\ UNCHANGED <<now, seq, sub, dead, publishing, clientVars, seekVars, put, settled>>

AfterDraw(r) == IF r.left = 1 THEN NoRequest ELSE [r EXCEPT !.left = @ - 1]

\* Mutant of PublishDraw: the counter is not advanced.
PublishDrawSameId(p) ==
    /\ drawing[p].left > 0 /\ seq < MaxPublished
    /\ publishing' = [publishing EXCEPT ![p] =
                        AfterPut(@, seq + 1, NewMessage(seq + 1, drawing[p]))]
    /\ drawing' = [drawing EXCEPT ![p] = AfterDraw(@)]
    /\ UNCHANGED <<now, seq, sub, dead, clientVars, seekVars, put, settled>>

\* ... then numbers them one by one: requests at the same time draw from the
\* same counter, and the smaller id may have the later time ...
PublishDraw(p) ==
    /\ drawing[p].left > 0 /\ seq < MaxPublished
    /\ seq' = seq + 1
    /\ publishing' = [publishing EXCEPT ![p] =
                        AfterPut(@, seq + 1, NewMessage(seq + 1, drawing[p]))]
    /\ drawing' = [drawing EXCEPT ![p] = AfterDraw(@)]
    /\ UNCHANGED <<now, sub, dead, clientVars, seekVars, put, settled>>

\* (a message cannot be encrypted: the request fails, and its ids are not used)
PublishFails(p) ==
    /\ drawing[p].left > 0 /\ seq < MaxPublished
    /\ seq' = seq + 1
    /\ publishing' = [publishing EXCEPT ![p] = EmptyBox]
    /\ drawing' = [drawing EXCEPT ![p] = NoRequest]
    /\ UNCHANGED <<now, sub, dead, clientVars, seekVars, put, settled>>

\* ... and puts them one by one, in the order of the request.
NextToPut(p) == CHOOSE i \in DOMAIN publishing[p] : \A j \in DOMAIN publishing[p] : i <= j

PublishPut(p) ==
    /\ drawing[p].left = 0 /\ publishing[p] # EmptyBox
    /\ sub' = AfterPut(sub, NextToPut(p), publishing[p][NextToPut(p)])
    /\ publishing' = [publishing EXCEPT ![p] = AfterRemove(@, {NextToPut(p)})]
    /\ put' = put \cup {NextToPut(p)}
    /\ UNCHANGED <<now, seq, dead, drawing, clientVars, seekVars, settled>>

-----------------------------------------------------------------------------
(* Pull *)

\* SubscriptionPull: the claim.  A pull that finds nothing answers an empty
\* list, or tries again.
SubscriptionPull(c) ==
    LET claimed == Claimed(sub, MaxMessages, Retention, now) IN
    /\ pc[c] = "idle"
    /\ \A i \in claimed : sub[i].version < MaxVersion
    /\ sub' = AfterPull(sub, MaxMessages, AckDeadline, Retention, now)
    /\ settled' = settled \cup Entries(Lapsed(sub, MaxMessages, Retention, now))
    /\ batch' = [batch EXCEPT ![c] = [i \in claimed |-> sub'[i]]]
    /\ pc' = [pc EXCEPT ![c] = IF claimed = {} THEN "idle" ELSE "handling"]
    /\ UNCHANGED <<now, seq, dead, publisherVars, arg, issued, seekVars, put>>

\* What the pull has still to take out of its batch before it can answer.
Exhausted(m) == m.attempt > MaxDeliveryAttempts
Undeliverable(b) == {i \in DOMAIN b : ~b[i].match \/ Exhausted(b[i])}
Handling(c, i) ==
    /\ pc[c] = "handling" /\ i \in Undeliverable(batch[c])
    /\ \A j \in Undeliverable(batch[c]) \ {i} : Before(batch[c], i, j)

\* A message that does not match the filter is deleted.
PullFiltered(c, i) ==
    /\ Handling(c, i) /\ ~batch[c][i].match
    /\ sub' = AfterRemove(sub, {i})
    /\ settled' = settled \cup Entries({i} \cap DOMAIN sub)
    /\ batch' = [batch EXCEPT ![c] = AfterRemove(@, {i})]
    /\ UNCHANGED <<now, seq, dead, publisherVars, pc, arg, issued, seekVars, put>>

\* After too many attempts it is deleted ...
PullExhausted(c, i) ==
    /\ Handling(c, i) /\ batch[c][i].match
    /\ sub' = AfterRemove(sub, {i})
    /\ pc' = [pc EXCEPT ![c] = "forwarding"] /\ arg' = [arg EXCEPT ![c].id = i]
    /\ UNCHANGED <<now, seq, dead, publisherVars, batch, issued, seekVars, put, settled>>

\* Mutant of ForwardedMessage: the copy has no data.
ForwardedMessageEmpty(m) ==
    [m EXCEPT !.src = seq + 1, !.at = now, !.visibleAt = 0, !.attempt = 0,
              !.version = 0, !.acked = FALSE, !.held = FALSE]

\* ... and a copy with a new id is put into the dead-letter subscription.
ForwardedMessage(m) ==
    [m EXCEPT !.at = now, !.visibleAt = 0, !.attempt = 0,
              !.version = 0, !.acked = FALSE, !.held = FALSE]

\* A topic without pull subscriptions drops the copy.
PullForward(c) ==
    /\ pc[c] = "forwarding" /\ seq < MaxId
    /\ seq' = seq + 1
    /\ \/ /\ HasDeadSub
          /\ dead' = AfterPut(dead, seq + 1, ForwardedMessage(batch[c][arg[c].id]))
          /\ settled' = settled
       \/ /\ ~HasDeadSub
          /\ settled' = settled \cup {<<arg[c].id, batch[c][arg[c].id].key>>}
          /\ dead' = dead
    /\ batch' = [batch EXCEPT ![c] = AfterRemove(@, {arg[c].id})]
    /\ pc' = [pc EXCEPT ![c] = "handling"] /\ arg' = [arg EXCEPT ![c] = NoArg]
    /\ UNCHANGED <<now, sub, publisherVars, issued, seekVars, put>>

\* The key of a message cannot be unwrapped: the request fails before it comes
\* to the messages after it, and what it claimed stays hidden until its deadline.
PullFails(c) ==
    /\ pc[c] = "handling"
    /\ \E i \in DOMAIN batch[c] \ Undeliverable(batch[c]) :
          \A j \in Undeliverable(batch[c]) : Before(batch[c], i, j)
    /\ batch' = [batch EXCEPT ![c] = EmptyBox]
    /\ pc' = [pc EXCEPT ![c] = "idle"]
    /\ UNCHANGED <<now, seq, sub, dead, publisherVars, arg, issued, seekVars, put, settled>>

PullAnswers(c) ==
    /\ pc[c] = "handling" /\ Undeliverable(batch[c]) = {}
    /\ issued' = issued \cup {<<i, batch[c][i].version>> : i \in DOMAIN batch[c]}
    /\ batch' = [batch EXCEPT ![c] = EmptyBox]
    /\ pc' = [pc EXCEPT ![c] = "idle"]
    /\ UNCHANGED <<now, seq, sub, dead, publisherVars, arg, seekVars, put, settled>>

-----------------------------------------------------------------------------
(* Acknowledge and ModifyAckDeadline *)

\* On an exactly-once subscription a superseded or lapsed ack id is refused.
\* The check and what follows it are two calls into the store.
Refused(i, v) ==
    ExactlyOnce /\ i \in DOMAIN sub /\ ~AckIDCurrent(sub[i], v, now)

AckChecked(c, i, v) ==
    /\ pc[c] = "idle" /\ <<i, v>> \in issued /\ ~Refused(i, v)
    /\ pc' = [pc EXCEPT ![c] = "acking"]
    /\ arg' = [arg EXCEPT ![c] = [id |-> i, seconds |-> 0, at |-> now]]
    /\ UNCHANGED <<now, seq, sub, dead, publisherVars, batch, issued, seekVars, put, settled>>

\* An ack of a message that is not there is answered OK as well.
AckApplied(c) ==
    /\ pc[c] = "acking"
    /\ sub' = AfterAck(sub, arg[c].id)
    /\ settled' = settled \cup Entries(DOMAIN sub \ DOMAIN sub')
    /\ pc' = [pc EXCEPT ![c] = "idle"] /\ arg' = [arg EXCEPT ![c] = NoArg]
    /\ UNCHANGED <<now, seq, dead, publisherVars, batch, issued, seekVars, put>>

ModAckChecked(c, i, v, s) ==
    /\ pc[c] = "idle" /\ <<i, v>> \in issued /\ ~Refused(i, v)
    /\ pc' = [pc EXCEPT ![c] = "modifying"]
    /\ arg' = [arg EXCEPT ![c] = [id |-> i, seconds |-> s, at |-> now]]
    /\ UNCHANGED <<now, seq, sub, dead, publisherVars, batch, issued, seekVars, put, settled>>

\* The new deadline counts from the time the handler read before the check.
ModAckApplied(c) ==
    /\ pc[c] = "modifying"
    /\ sub' = AfterModAck(sub, arg[c].id, arg[c].seconds, arg[c].at)
    /\ pc' = [pc EXCEPT ![c] = "idle"] /\ arg' = [arg EXCEPT ![c] = NoArg]
    /\ UNCHANGED <<now, seq, dead, publisherVars, batch, issued, seekVars, put, settled>>

-----------------------------------------------------------------------------
(* CreateSnapshot and Seek *)

\* CreateSnapshot lists the backlog ...
SnapshotList ==
    /\ snapshot = NoSnapshot /\ MaxSeeks > 0
    /\ snapshot' = [snapshot EXCEPT !.status = "listed", !.backlog = sub]
    /\ UNCHANGED <<now, seq, sub, dead, publisherVars, clientVars, seeking, target, listed, todo, seeks, put, settled>>

\* ... and reads the clock: what was put in between is not in the backlog and may
\* be older than the snapshot.
CreateSnapshot ==
    /\ snapshot.status = "listed"
    /\ snapshot' = [snapshot EXCEPT !.status = "created", !.createdAt = now]
    /\ UNCHANGED <<now, seq, sub, dead, publisherVars, clientVars, seeking, target, listed, todo, seeks, put, settled>>

SeekBegins ==
    /\ seeking = "idle" /\ seeks < MaxSeeks
    /\ \A i \in DOMAIN sub : sub[i].version < MaxVersion
    /\ listed' = sub /\ seeks' = seeks + 1
    /\ UNCHANGED <<now, seq, sub, dead, publisherVars, clientVars, snapshot, put, settled>>

PublishedSince(b, t) == [i \in {j \in DOMAIN b : b[j].at >= t} |-> b[i]]

\* seekToTime lists the subscription and deletes what was published before t ...
SeekToTime(t) ==
    /\ SeekBegins
    /\ seeking' = "trimming" /\ target' = t
    /\ todo' = AfterRemove(sub, DOMAIN PublishedSince(sub, t))

SeekTrim ==
    /\ seeking = "trimming" /\ todo # EmptyBox
    /\ sub' = AfterRemove(sub, {First(todo)})
    /\ settled' = settled \cup Entries({First(todo)} \cap DOMAIN sub)
    /\ todo' = Rest(todo)
    /\ UNCHANGED <<now, seq, dead, publisherVars, clientVars, snapshot, seeking, target, listed, seeks, put>>

\* Mutant of SeekBump: the versions stay as they are.
SeekBumpSkipped ==
    /\ seeking = "trimming" /\ todo = EmptyBox
    /\ seeking' = "releasing" /\ todo' = PublishedSince(listed, target)
    /\ UNCHANGED <<now, seq, sub, dead, publisherVars, clientVars, snapshot, target, listed, seeks, put, settled>>

\* ... advances the versions of the others, and only then makes them visible.
SeekBump ==
    /\ seeking = "trimming" /\ todo = EmptyBox
    /\ sub' = AfterBump(sub, DOMAIN PublishedSince(listed, target))
    /\ seeking' = "releasing" /\ todo' = PublishedSince(listed, target)
    /\ UNCHANGED <<now, seq, dead, publisherVars, clientVars, snapshot, target, listed, seeks, put, settled>>

SeekRelease ==
    /\ seeking = "releasing" /\ todo # EmptyBox
    /\ sub' = AfterModAck(sub, First(todo), 0, now)
    /\ todo' = Rest(todo)
    /\ UNCHANGED <<now, seq, dead, publisherVars, clientVars, snapshot, seeking, target, listed, seeks, put, settled>>

\* restoreSnapshot lists the subscription and deletes all of it ...
SeekToSnapshot ==
    /\ snapshot.status = "created"
    /\ SeekBegins
    /\ seeking' = "clearing" /\ target' = snapshot.createdAt /\ todo' = sub

\* What the seek is going to put back.
Restored == DOMAIN snapshot.backlog \cup DOMAIN PublishedSince(listed, target)

SeekClear ==
    /\ seeking = "clearing" /\ todo # EmptyBox
    /\ sub' = AfterRemove(sub, {First(todo)})
    /\ settled' = settled \cup Entries(({First(todo)} \cap DOMAIN sub) \ Restored)
    /\ todo' = Rest(todo)
    /\ UNCHANGED <<now, seq, dead, publisherVars, clientVars, snapshot, seeking, target, listed, seeks, put>>

\* ... puts the snapshot's backlog back, and then the messages it listed that
\* are no older than the snapshot.
SeekCleared ==
    /\ seeking = "clearing" /\ todo = EmptyBox
    /\ seeking' = "restoring" /\ todo' = snapshot.backlog
    /\ UNCHANGED <<now, seq, sub, dead, publisherVars, clientVars, snapshot, target, listed, seeks, put, settled>>

\* restore: unacknowledged, visible, and with a version no ack id has.
Restore(i, m) ==
    LET v == IF i \in DOMAIN listed /\ listed[i].version > m.version
             THEN listed[i].version ELSE m.version
    IN [m EXCEPT !.visibleAt = 0, !.acked = FALSE, !.held = FALSE, !.version = v + 1]

SeekRestore ==
    /\ seeking \in {"restoring", "replaying"} /\ todo # EmptyBox
    /\ sub' = AfterPut(sub, First(todo), Restore(First(todo), todo[First(todo)]))
    /\ todo' = Rest(todo)
    /\ UNCHANGED <<now, seq, dead, publisherVars, clientVars, snapshot, seeking, target, listed, seeks, put, settled>>

\* Mutant of SeekRestored: the messages published since are not put back.
SeekRestoredOnly ==
    /\ seeking = "restoring" /\ todo = EmptyBox
    /\ seeking' = "replaying"
    /\ UNCHANGED <<now, seq, sub, dead, publisherVars, clientVars, snapshot, target, listed, todo, seeks, put, settled>>

SeekRestored ==
    /\ seeking = "restoring" /\ todo = EmptyBox
    /\ seeking' = "replaying" /\ todo' = PublishedSince(listed, target)
    /\ UNCHANGED <<now, seq, sub, dead, publisherVars, clientVars, snapshot, target, listed, seeks, put, settled>>

SeekEnds ==
    /\ seeking \in {"releasing", "replaying"} /\ todo = EmptyBox
    /\ seeking' = "idle" /\ target' = 0
    /\ UNCHANGED <<now, seq, sub, dead, publisherVars, clientVars, snapshot, listed, todo, seeks, put, settled>>

-----------------------------------------------------------------------------
Tick ==
    /\ now < MaxTime /\ now' = now + 1
    /\ UNCHANGED <<seq, sub, dead, publisherVars, clientVars, seekVars, put, settled>>

PublisherNext(p) ==
    \/ \E n \in 1..BatchSize, k \in Keys \cup {NoKey}, m \in Matches : TopicPublish(p, n, k, m)
    \/ PublishDraw(p) \/ PublishFails(p) \/ PublishPut(p)

ClientNext(c) ==
    \/ SubscriptionPull(c) \/ PullForward(c) \/ PullFails(c) \/ PullAnswers(c)
    \/ \E i \in DOMAIN batch[c] : PullFiltered(c, i) \/ PullExhausted(c, i)
    \/ \E a \in issued : AckChecked(c, a[1], a[2])
    \/ AckApplied(c)
    \/ \E a \in issued, s \in Extensions : ModAckChecked(c, a[1], a[2], s)
    \/ ModAckApplied(c)

SeekNext ==
    \/ SnapshotList \/ CreateSnapshot \/ SeekToSnapshot
    \/ \E t \in 1..MaxTime : SeekToTime(t)
    \/ SeekTrim \/ SeekBump \/ SeekRelease
    \/ SeekClear \/ SeekCleared \/ SeekRestore \/ SeekRestored \/ SeekEnds

PubSubNext ==
    \/ Tick \/ SeekNext
    \/ \E p \in Publishers : PublisherNext(p)
    \/ \E c \in Clients : ClientNext(c)

PubSubSpec == PubSubInit /\ [][PubSubNext]_vars

-----------------------------------------------------------------------------
(* Properties *)

ClaimedNow(i) == sub'[i].attempt > sub[i].attempt /\ sub'[i].visibleAt # 0

\* Pull hands out an ordering key from its first unacknowledged message on: with
\* a message of a key, every one before it in the order of the store (publish
\* time, then id) that is not acknowledged yet is claimed by the same call.
PullsKeyPrefix ==
    [][\A i, j \in DOMAIN sub :
        /\ Before(sub, i, j) /\ sub[i].key = sub[j].key /\ sub[i].key # NoKey
        /\ {i, j} \subseteq DOMAIN sub' /\ ~sub'[i].acked
        /\ ClaimedNow(j)
        => ClaimedNow(i)]_vars

\* Acks are applied in key order whatever order clients send them in, nacks and
\* expiry in between included: the acknowledged messages of a key are the first
\* ones it still has, as long as ids have the same number of digits (IdBefore)
\* and requests to publish follow each other: of two at once, the later ids may
\* be put and acknowledged first.  A seek may restore an older message beside one
\* that was published and acknowledged while it ran.
AckedPrefix ==
    seeks = 0 =>
        \A i, j \in DOMAIN sub :
            (i < j /\ sub[i].key = sub[j].key /\ sub[j].acked) => sub[i].acked

\* An ack waits for a reason: a message with a held ack has an earlier message
\* of its key that is unacknowledged, or one that left the subscription in
\* another way than by an ack (then nothing applies the held ack any more).  This
\* too is for requests to publish that follow each other: the cascade of an ack
\* stops at a message acknowledged before it.
HeldHasBlocker ==
    \A j \in DOMAIN sub : sub[j].held =>
        /\ ~sub[j].acked
        /\ \/ \E i \in Earlier(sub, j) : ~sub[i].acked
           \/ \E e \in settled : e[1] < j /\ e[2] = sub[j].key
           \/ \E i \in DOMAIN dead : dead[i].src < j /\ dead[i].key = sub[j].key
           \/ \E c \in Clients : pc[c] = "forwarding" /\ arg[c].id < j
                                /\ batch[c][arg[c].id].key = sub[j].key

\* A message that was put into the subscription stays there until it is
\* acknowledged, filtered out, expired or sought past, or reaches the
\* dead-letter subscriptions, if there are any; meanwhile a forwarding pull or
\* the seek that is going to restore it has it.
MessageKept ==
    \A i \in put :
        \/ i \in DOMAIN sub \cup {e[1] : e \in settled}
        \/ \E c \in Clients : pc[c] = "forwarding" /\ arg[c].id = i
        \/ \E j \in DOMAIN dead : dead[j].src = i
        \/ seeking \in {"clearing", "restoring", "replaying"} /\ i \in Restored

\* A seek leaves each message it listed with a version above the listed one: the
\* ack ids of deliveries up to the listing are superseded, whatever pulls run
\* meanwhile.  This says nothing of a delivery after the listing, nor of a message
\* acknowledged before the seek that comes back from a snapshot: restore counts
\* from the version in the snapshot, which an old ack id may be ahead of
\* (seek.go:127-129).
SeekInvalidates ==
    seeking = "idle" =>
        \A i \in DOMAIN listed \cap DOMAIN sub : sub[i].version > listed[i].version
=============================================================================
