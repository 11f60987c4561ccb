---------------------------- MODULE PubSubStream ----------------------------
(***************************************************************************)
(* StreamingPull (internal/gcp/grpc/pubsub/{service,streamflow,acktrack}   *)
(* .go): streams on one subscription, each with a send loop, a receive     *)
(* loop and a flow-control budget of its own, and the ack registry they    *)
(* share with the unary Acknowledge.                                       *)
(*                                                                         *)
(* The subscription is a plain one without filter or dead-letter policy;   *)
(* PubSub has those.  A publish request carries one message; all messages  *)
(* have the same size.  A tombstone is not pruned for its age: no stream   *)
(* keeps a claimed copy for a minute.                                      *)
(***************************************************************************)
EXTENDS PubSubStore, FiniteSetsExt

CONSTANTS
    Published,          \* the ordering keys publishes carry
    Streams,
    AckDeadline,        \* streamAckDeadlineSeconds
    Extensions,         \* the deadlines modify requests carry, 0 for a nack
    MaxOutstanding,     \* max_outstanding_messages
    Size,               \* proto.Size of a message
    MaxBytes,           \* max_outstanding_bytes
    MaxClaims,          \* bound: claims of the messages in the store
    MaxTime             \* bound: the clock stops there

ASSUME PubSubStreamAssumption ==
    /\ Published \subseteq Keys \cup {NoKey}
    /\ AckDeadline \in Nat /\ Extensions \subseteq Nat
    /\ {MaxOutstanding, Size, MaxBytes, MaxClaims, MaxTime} \subseteq Nat \ {0}

VARIABLES
    now,
    seq,            \* the last message id
    box,            \* the messages of the subscription
    tomb,           \* acked: the tombstones of the registry
    seen,           \* the unacknowledged messages its reconciler has listed
    reconciling,    \* it has listed them
    pc,             \* where each stream's send loop is
    batch,          \* the claimed messages it has still to handle
    unchecked,      \* those of them dropAcked has yet to look at
    acked,          \* the acknowledged messages dropAcked has listed, if it has
    returns,        \* the claimed messages it is going to make visible again
    sendable,       \* the messages it is going to send
    outstanding,    \* its flow-control set
    recv,           \* what each receive loop has still to do
    unary,          \* the message the unary Acknowledge has yet to mark
    issued,         \* messages some client may have an ack id for
    stranded        \* history: claimed by a stream that ended before it could send them

dropVars == <<unchecked, acked>>
sendVars == <<pc, batch, dropVars, returns, sendable>>
registryVars == <<tomb, seen, reconciling>>
vars == <<now, seq, box, registryVars, sendVars, outstanding, recv, unary, issued, stranded>>

Nothing == [step |-> "idle", id |-> 0]
NotListed == [listed |-> FALSE, ids |-> {}]

StreamTypeOK ==
    /\ now \in 1..MaxTime /\ seq \in 0..MaxId
    /\ IsBox(box) /\ DOMAIN box \subseteq 1..seq
    /\ tomb \subseteq 1..seq /\ seen \subseteq 1..seq /\ reconciling \in BOOLEAN
    /\ pc \in [Streams -> {"closed", "top", "dropping", "tombstoned", "reserving"}]
    /\ DOMAIN batch = Streams /\ \A s \in Streams : IsBox(batch[s])
    /\ unchecked \in [Streams -> SUBSET Ids]
    /\ acked \in [Streams -> [listed : BOOLEAN, ids : SUBSET Ids]]
    /\ returns \in [Streams -> SUBSET Ids] /\ sendable \in [Streams -> SUBSET Ids]
    /\ outstanding \in [Streams -> SUBSET Ids]
    /\ recv \in [Streams -> [step : {"idle", "marking", "releasing"}, id : Nat]]
    /\ unary \in Nat
    /\ issued \subseteq 1..seq /\ stranded \subseteq 1..seq

StreamInit ==
    /\ now = 1 /\ seq = 0 /\ box = EmptyBox
    /\ tomb = {} /\ seen = {} /\ reconciling = FALSE
    /\ pc = [s \in Streams |-> "closed"] /\ batch = [s \in Streams |-> EmptyBox]
    /\ unchecked = [s \in Streams |-> {}] /\ acked = [s \in Streams |-> NotListed]
    /\ returns = [s \in Streams |-> {}] /\ sendable = [s \in Streams |-> {}]
    /\ outstanding = [s \in Streams |-> {}]
    /\ recv = [s \in Streams |-> Nothing] /\ unary = 0
    /\ issued = {} /\ stranded = {}

First(b) == CHOOSE i \in DOMAIN b : \A j \in DOMAIN b \ {i} : Before(b, i, j)
Rest(b) == AfterRemove(b, {First(b)})

\* refs > 0
Active == \E s \in Streams : pc[s] # "closed"

\* Mutant of Publish: every message gets the same id.
PublishSameId(k) ==
    /\ seq < MaxId
    /\ box' = AfterPut(box, seq + 1,
                [key |-> k, at |-> now, src |-> seq + 1, match |-> TRUE, visibleAt |-> 0,
                 attempt |-> 0, version |-> 0, acked |-> FALSE, held |-> FALSE])
    /\ UNCHANGED <<now, seq, registryVars, sendVars, outstanding, recv, unary, issued, stranded>>

Publish(k) ==
    /\ seq < MaxId /\ seq' = seq + 1
    /\ box' = AfterPut(box, seq + 1,
                [key |-> k, at |-> now, src |-> seq + 1, match |-> TRUE, visibleAt |-> 0,
                 attempt |-> 0, version |-> 0, acked |-> FALSE, held |-> FALSE])
    /\ UNCHANGED <<now, registryVars, sendVars, outstanding, recv, unary, issued, stranded>>

-----------------------------------------------------------------------------
(* The registry *)

\* markAcked: without a stream there is no copy to drop.
AfterMark(i) == IF Active THEN tomb \cup {i} ELSE tomb

\* The reconcile loop runs while there is a stream.  It lists the store ...
RegistryList ==
    /\ Active /\ ~reconciling
    /\ reconciling' = TRUE /\ seen' = {i \in DOMAIN box : ~box[i].acked}
    /\ UNCHANGED <<now, seq, box, tomb, sendVars, outstanding, recv, unary, issued, stranded>>

\* Mutant of RegistryReconcile: the tombstones stay.
RegistryReconcileNothing ==
    /\ reconciling
    /\ reconciling' = FALSE /\ seen' = {}
    /\ UNCHANGED <<now, seq, box, tomb, sendVars, outstanding, recv, unary, issued, stranded>>

\* ... and then drops the tombstones of messages it has seen unacknowledged.
RegistryReconcile ==
    /\ reconciling
    /\ tomb' = tomb \ seen
    /\ reconciling' = FALSE /\ seen' = {}
    /\ UNCHANGED <<now, seq, box, sendVars, outstanding, recv, unary, issued, stranded>>

-----------------------------------------------------------------------------
(* The send loop *)

\* A new stream.
StreamOpen(s) ==
    /\ pc[s] = "closed" /\ recv[s] = Nothing
    /\ pc' = [pc EXCEPT ![s] = "top"]
    /\ outstanding' = [outstanding EXCEPT ![s] = {}]
    /\ UNCHANGED <<now, seq, box, registryVars, batch, dropVars, returns, sendable, recv, unary, issued, stranded>>

\* The client has gone: noticed while the loop waits.  Its receive loop may have
\* an ack in hand and still finishes with it.  (A request it has read and not
\* begun to apply does what the unary calls do.)
StreamClose(s) ==
    /\ pc[s] = "top"
    /\ pc' = [pc EXCEPT ![s] = "closed"]
    /\ outstanding' = [outstanding EXCEPT ![s] = {}]
    /\ UNCHANGED <<now, seq, box, registryVars, batch, dropVars, returns, sendable, recv, unary, issued, stranded>>

\* claimBudget and bytesExhausted
Bytes(s) == Size * Cardinality(outstanding[s])
Budget(s) == IF Bytes(s) >= MaxBytes \/ Cardinality(outstanding[s]) >= MaxOutstanding
             THEN 0 ELSE MaxOutstanding - Cardinality(outstanding[s])

\* Mutant of StreamReconcile: a full stream only waits to be woken.
StreamReconcileNothing(s) ==
    /\ pc[s] = "top" /\ Budget(s) = 0
    /\ UNCHANGED vars

\* streamFlowControl.reconcile: a full stream releases what has left the store,
\* and waits if that does not help.
StreamReconcile(s) ==
    /\ pc[s] = "top" /\ Budget(s) = 0
    /\ outstanding' = [outstanding EXCEPT ![s] = @ \cap DOMAIN box]
    /\ UNCHANGED <<now, seq, box, registryVars, sendVars, recv, unary, issued, stranded>>

Claims == MapThenSumSet(LAMBDA i : box[i].version, DOMAIN box)

StreamPull(s) ==
    LET claimed == Claimed(box, Budget(s), 0, now) IN
    /\ pc[s] = "top" /\ claimed # {}
    /\ Claims + Cardinality(claimed) <= MaxClaims
    /\ box' = AfterPull(box, Budget(s), AckDeadline, 0, now)
    /\ batch' = [batch EXCEPT ![s] = [i \in claimed |-> box'[i]]]
    /\ unchecked' = [unchecked EXCEPT ![s] = claimed]
    /\ stranded' = stranded \ claimed
    /\ pc' = [pc EXCEPT ![s] = "dropping"]
    /\ UNCHANGED <<now, seq, registryVars, acked, returns, sendable, outstanding, recv, unary, issued>>

\* dropAcked looks at one message after the other.
NextUnchecked(s) == First([i \in unchecked[s] |-> batch[s][i]])

\* isAcked: a message without a tombstone is kept.
StreamCheck(s) ==
    /\ pc[s] = "dropping" /\ returns[s] = {} /\ unchecked[s] # {}
    /\ IF NextUnchecked(s) \in tomb
       THEN pc' = [pc EXCEPT ![s] = "tombstoned"] /\ UNCHANGED unchecked
       ELSE /\ unchecked' = [unchecked EXCEPT ![s] = @ \ {NextUnchecked(s)}]
            /\ UNCHANGED pc
    /\ UNCHANGED <<now, seq, box, registryVars, batch, acked, returns, sendable, outstanding, recv, unary, issued, stranded>>

\* ackedIDs: listed once, for the first tombstone.
StreamListAcked(s) ==
    /\ pc[s] = "tombstoned" /\ ~acked[s].listed
    /\ acked' = [acked EXCEPT ![s] = [listed |-> TRUE, ids |-> {i \in DOMAIN box : box[i].acked}]]
    /\ UNCHANGED <<now, seq, box, registryVars, pc, batch, unchecked, returns, sendable, outstanding, recv, unary, issued, stranded>>

\* A message with a tombstone is not sent, and made visible again unless that
\* list has it.
StreamDropAcked(s) ==
    LET i == NextUnchecked(s) IN
    /\ pc[s] = "tombstoned" /\ acked[s].listed
    /\ returns' = [returns EXCEPT ![s] = {i} \ acked[s].ids]
    /\ batch' = [batch EXCEPT ![s] = AfterRemove(@, {i})]
    /\ unchecked' = [unchecked EXCEPT ![s] = @ \ {i}]
    /\ pc' = [pc EXCEPT ![s] = "dropping"]
    /\ UNCHANGED <<now, seq, box, registryVars, acked, sendable, outstanding, recv, unary, issued, stranded>>

Checked(s) == pc[s] = "dropping" /\ returns[s] = {} /\ unchecked[s] = {}

\* buildReceivedMessages
StreamBuild(s) ==
    /\ Checked(s)
    /\ acked' = [acked EXCEPT ![s] = NotListed]
    /\ pc' = [pc EXCEPT ![s] = "reserving"]
    /\ UNCHANGED <<now, seq, box, registryVars, batch, unchecked, returns, sendable, outstanding, recv, unary, issued, stranded>>

\* The key of a message cannot be unwrapped, or its data not decrypted: the stream
\* ends, and all it has claimed stays hidden until its deadline.
StreamBuildFails(s) ==
    /\ Checked(s) /\ batch[s] # EmptyBox
    /\ acked' = [acked EXCEPT ![s] = NotListed]
    /\ stranded' = stranded \cup DOMAIN batch[s]
    /\ batch' = [batch EXCEPT ![s] = EmptyBox]
    /\ outstanding' = [outstanding EXCEPT ![s] = {}]
    /\ pc' = [pc EXCEPT ![s] = "closed"]
    /\ UNCHANGED <<now, seq, box, registryVars, unchecked, returns, sendable, recv, unary, issued>>

\* Mutant of StreamReturn: what is not sent stays hidden until its deadline.
StreamReturnNothing(s, i) ==
    /\ i \in returns[s]
    /\ returns' = [returns EXCEPT ![s] = @ \ {i}]
    /\ UNCHANGED <<now, seq, box, registryVars, pc, batch, dropVars, sendable, outstanding, recv, unary, issued, stranded>>

StreamReturn(s, i) ==
    /\ i \in returns[s]
    /\ box' = AfterModAck(box, i, 0, now)
    /\ returns' = [returns EXCEPT ![s] = @ \ {i}]
    /\ UNCHANGED <<now, seq, registryVars, pc, batch, dropVars, sendable, outstanding, recv, unary, issued, stranded>>

\* reserve: a message that is outstanding already counts once, and one that
\* exceeds the limit by itself is let through when it is alone.
Admits(s, i) ==
    \/ i \in outstanding[s]
    \/ /\ Cardinality(outstanding[s]) < MaxOutstanding
       /\ \/ Bytes(s) + Size <= MaxBytes
          \/ sendable[s] = {} /\ outstanding[s] = {}

StreamReserve(s) ==
    /\ pc[s] = "reserving" /\ returns[s] = {} /\ batch[s] # EmptyBox
    /\ IF Admits(s, First(batch[s]))
       THEN /\ outstanding' = [outstanding EXCEPT ![s] = @ \cup {First(batch[s])}]
            /\ sendable' = [sendable EXCEPT ![s] = @ \cup {First(batch[s])}]
            /\ UNCHANGED returns
       ELSE /\ returns' = [returns EXCEPT ![s] = {First(batch[s])}]
            /\ UNCHANGED <<outstanding, sendable>>
    /\ batch' = [batch EXCEPT ![s] = Rest(@)]
    /\ UNCHANGED <<now, seq, box, registryVars, pc, dropVars, recv, unary, issued, stranded>>

Handled(s) == pc[s] = "reserving" /\ returns[s] = {} /\ batch[s] = EmptyBox

\* With nothing to send the loop waits a little and starts over.
StreamSend(s) ==
    /\ Handled(s)
    /\ issued' = issued \cup sendable[s]
    /\ sendable' = [sendable EXCEPT ![s] = {}]
    /\ pc' = [pc EXCEPT ![s] = "top"]
    /\ UNCHANGED <<now, seq, box, registryVars, batch, dropVars, returns, outstanding, recv, unary, stranded>>

\* stream.Send fails, and the client may have got the messages or not: they stay
\* hidden until their deadlines.
StreamSendFails(s) ==
    /\ Handled(s) /\ sendable[s] # {}
    /\ issued' = issued \cup sendable[s]
    /\ sendable' = [sendable EXCEPT ![s] = {}]
    /\ outstanding' = [outstanding EXCEPT ![s] = {}]
    /\ pc' = [pc EXCEPT ![s] = "closed"]
    /\ UNCHANGED <<now, seq, box, registryVars, batch, dropVars, returns, recv, unary, stranded>>

-----------------------------------------------------------------------------
(* The receive loop, and the unary calls *)

\* applyStreamAcks: the store, the registry, and at last the budget.
StreamAck(s, i) ==
    /\ pc[s] # "closed" /\ recv[s] = Nothing /\ i \in issued
    /\ box' = AfterAck(box, i)
    /\ recv' = [recv EXCEPT ![s] = [step |-> "marking", id |-> i]]
    /\ UNCHANGED <<now, seq, registryVars, sendVars, outstanding, unary, issued, stranded>>

StreamMark(s) ==
    /\ recv[s].step = "marking"
    /\ tomb' = AfterMark(recv[s].id)
    /\ recv' = [recv EXCEPT ![s].step = "releasing"]
    /\ UNCHANGED <<now, seq, box, seen, reconciling, sendVars, outstanding, unary, issued, stranded>>

StreamUncount(s) ==
    /\ recv[s].step = "releasing"
    /\ outstanding' = [outstanding EXCEPT ![s] = @ \ {recv[s].id}]
    /\ recv' = [recv EXCEPT ![s] = Nothing]
    /\ UNCHANGED <<now, seq, box, registryVars, sendVars, unary, issued, stranded>>

\* applyStreamModifyDeadlines: a nack frees the budget, an extension does not.
StreamModAck(s, i, d) ==
    /\ pc[s] # "closed" /\ recv[s] = Nothing /\ i \in issued
    /\ box' = AfterModAck(box, i, d, now)
    /\ recv' = [recv EXCEPT ![s] =
                  IF d = 0 THEN [step |-> "releasing", id |-> i] ELSE Nothing]
    /\ UNCHANGED <<now, seq, registryVars, sendVars, outstanding, unary, issued, stranded>>

Acknowledge(i) ==
    /\ unary = 0 /\ i \in issued
    /\ box' = AfterAck(box, i) /\ unary' = i
    /\ UNCHANGED <<now, seq, registryVars, sendVars, outstanding, recv, issued, stranded>>

AcknowledgeMark ==
    /\ unary # 0
    /\ tomb' = AfterMark(unary) /\ unary' = 0
    /\ UNCHANGED <<now, seq, box, seen, reconciling, sendVars, outstanding, recv, issued, stranded>>

ModifyAckDeadline(i, d) ==
    /\ i \in issued
    /\ box' = AfterModAck(box, i, d, now)
    /\ UNCHANGED <<now, seq, registryVars, sendVars, outstanding, recv, unary, issued, stranded>>

Tick ==
    /\ now < MaxTime /\ now' = now + 1
    /\ UNCHANGED <<seq, box, registryVars, sendVars, outstanding, recv, unary, issued, stranded>>

-----------------------------------------------------------------------------
SendLoop(s) ==
    \/ StreamReconcile(s) \/ StreamPull(s)
    \/ StreamCheck(s) \/ StreamListAcked(s) \/ StreamDropAcked(s) \/ StreamBuild(s)
    \/ \E i \in returns[s] : StreamReturn(s, i)
    \/ StreamReserve(s) \/ StreamSend(s)

RecvLoop(s) == StreamMark(s) \/ StreamUncount(s)

Registry == RegistryList \/ RegistryReconcile

StreamNext ==
    \/ Tick \/ Registry \/ AcknowledgeMark
    \/ \E k \in Published : Publish(k)
    \/ \E s \in Streams :
          \/ StreamOpen(s) \/ StreamClose(s) \/ StreamBuildFails(s) \/ StreamSendFails(s)
          \/ SendLoop(s) \/ RecvLoop(s)
          \/ \E i \in issued : StreamAck(s, i)
          \/ \E i \in issued, d \in Extensions : StreamModAck(s, i, d)
    \/ \E i \in issued : Acknowledge(i)
    \/ \E i \in issued, d \in Extensions : ModifyAckDeadline(i, d)

\* The goroutines of a stream and of the registry run: the loops wake up from
\* every wait after longPollInterval or ackReconcileInterval.
StreamSpec ==
    /\ StreamInit /\ [][StreamNext]_vars
    /\ WF_vars(Registry) /\ WF_vars(AcknowledgeMark)
    /\ \A s \in Streams : WF_vars(SendLoop(s)) /\ WF_vars(RecvLoop(s))

-----------------------------------------------------------------------------
(* Properties *)

\* A message is not hidden for nothing: while its deadline runs, some stream has
\* it claimed and not yet handled, or it was sent to some client; what is hidden
\* and never sent is only what a stream held when buildReceivedMessages failed.
HiddenIsHeld ==
    \A i \in DOMAIN box :
        InFlight(box[i], now) /\ ~box[i].acked =>
            \/ i \in issued \cup stranded
            \/ \E s \in Streams : i \in DOMAIN batch[s] \cup returns[s] \cup sendable[s]

\* Tombstones are temporary: one for a message that is deliverable (its held ack
\* was taken back by a nack) goes away while there is a stream.
TombstonesCleared ==
    \A i \in Ids :
        (i \in tomb /\ i \in DOMAIN box) ~>
            (i \notin tomb \/ i \notin DOMAIN box \/ box[i].acked \/ ~Active)

\* A full stream is not stuck: once none of the messages it counts is left in the
\* store, also when another stream or the unary Acknowledge took them away, it
\* may claim again.
BudgetReturns ==
    \A s \in Streams :
        (Budget(s) = 0 /\ outstanding[s] \cap DOMAIN box = {}) ~> (Budget(s) > 0)

\* The same once all of them are acknowledged, whichever way the acks came.
AckedBudgetReturns ==
    \A s \in Streams :
        (Budget(s) = 0 /\ \A i \in outstanding[s] \cap DOMAIN box : box[i].acked)
            ~> (Budget(s) > 0 \/ \E i \in outstanding[s] \cap DOMAIN box : ~box[i].acked)
=============================================================================
