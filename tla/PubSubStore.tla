----------------------------- MODULE PubSubStore -----------------------------
(***************************************************************************)
(* The in-memory message store of Pub/Sub                                  *)
(* (internal/gcp/store/pubsub/{memory,ackid}.go): what each method does to *)
(* the messages of one subscription, a function from message ids to        *)
(* records.  Every method holds the store's mutex from its first line to   *)
(* its last.                                                               *)
(*                                                                         *)
(* The clock starts at 1 and a VisibleAt of 0 is the zero time.            *)
(***************************************************************************)
EXTENDS Naturals, FiniteSets

CONSTANTS
    Keys,       \* ordering keys
    NoKey,      \* the empty ordering key
    MaxId       \* bound: the last message id NextID hands out

Million == 1000 * 1000

ASSUME PubSubStoreAssumption == NoKey \notin Keys /\ MaxId \in Nat \ {0} /\ MaxId < 1000 * Million

Ids == 1..MaxId

Messages ==
    [key : Keys \cup {NoKey},
     at : Nat,              \* PublishTime
     src : Ids,             \* Data: the id of the message first published with it
     match : BOOLEAN,       \* Attributes match the subscription's filter
     visibleAt : Nat, attempt : Nat, version : Nat,
     acked : BOOLEAN,
     held : BOOLEAN]        \* AckPending

IsBox(b) == DOMAIN b \subseteq Ids /\ b \in [DOMAIN b -> Messages]

EmptyBox == [i \in {} |-> i]

-----------------------------------------------------------------------------
(* Publish order *)

\* Ids are decimal strings and are compared as strings.  Padded(n) is the string
\* of n filled up with zeros to nine digits; an id that is a prefix of another
\* comes first.
Padded(n) ==
    n * CHOOSE s \in {1, 10, 100, 1000, 10 * 1000, 100 * 1000,
                      Million, 10 * Million, 100 * Million} :
            100 * Million <= n * s /\ n * s < 1000 * Million

IdBefore(i, j) ==
    \/ Padded(i) < Padded(j)
    \/ Padded(i) = Padded(j) /\ i < j

\* orderedIDsLocked: i comes before j in the subscription.
Before(b, i, j) ==
    \/ b[i].at < b[j].at
    \/ b[i].at = b[j].at /\ IdBefore(i, j)

\* keyedGroupLocked: the messages of i's ordering key before i, and after it.
Earlier(b, i) == {j \in DOMAIN b : b[j].key = b[i].key /\ Before(b, j, i)}
Later(b, i)   == {j \in DOMAIN b : b[j].key = b[i].key /\ Before(b, i, j)}

-----------------------------------------------------------------------------
(* Put, Delete, Pull *)

AfterPut(b, i, m) == [j \in DOMAIN b \cup {i} |-> IF j = i THEN m ELSE b[j]]

AfterRemove(b, S) == [j \in DOMAIN b \ S |-> b[j]]

InFlight(m, now) == m.visibleAt # 0 /\ now < m.visibleAt

\* inFlightGroups
GatedKeys(b, now) ==
    {k \in Keys : \E i \in DOMAIN b :
        b[i].key = k /\ ~b[i].acked /\ InFlight(b[i], now)}

\* now.Sub(PublishTime) > retention; no retention is 0.
Expired(m, retention, now) == retention > 0 /\ now > m.at + retention

\* Mutant of Available: a key with an outstanding message is not withheld.
AvailableUngated(b, retention, now) ==
    {i \in DOMAIN b :
        ~Expired(b[i], retention, now) /\ ~b[i].acked /\ ~InFlight(b[i], now)}

Available(b, retention, now) ==
    {i \in DOMAIN b :
        /\ ~Expired(b[i], retention, now)
        /\ ~b[i].acked /\ ~InFlight(b[i], now)
        /\ b[i].key \notin GatedKeys(b, now)}

\* The loop of Pull goes through the messages in order and stops once it has
\* max of them.
Visited(b, max, retention, now) ==
    {i \in DOMAIN b :
        Cardinality({j \in Available(b, retention, now) : Before(b, j, i)}) < max}

Claimed(b, max, retention, now) ==
    Available(b, retention, now) \cap Visited(b, max, retention, now)

Lapsed(b, max, retention, now) ==
    {i \in Visited(b, max, retention, now) : Expired(b[i], retention, now)}

AfterPull(b, max, ackDeadline, retention, now) ==
    [i \in DOMAIN b \ Lapsed(b, max, retention, now) |->
        IF i \in Claimed(b, max, retention, now)
        THEN [b[i] EXCEPT !.visibleAt = now + ackDeadline,
                          !.attempt = @ + 1, !.version = @ + 1]
        ELSE b[i]]

-----------------------------------------------------------------------------
(* Acknowledge, ModifyAckDeadline, BumpDeliveryVersions *)

\* Mutant of AckApplies: an ack never waits for an earlier message of the key.
AckAppliesAtOnce(b, i) == TRUE

\* ackKeyedLocked: no earlier message of the key is unacknowledged.
AckApplies(b, i) == \A j \in Earlier(b, i) : b[j].acked

\* The held acks that follow i without a gap.
Cascade(b, i) ==
    {j \in Later(b, i) :
        \A l \in Later(b, i) : (l = j \/ Before(b, l, j)) => b[l].held}

\* Mutant of AfterAckKeyed: a held ack stays held when the one before it is applied.
AfterAckKeyedAlone(b, i) ==
    IF AckApplies(b, i)
    THEN [b EXCEPT ![i].acked = TRUE, ![i].held = FALSE]
    ELSE [b EXCEPT ![i].held = TRUE]

AfterAckKeyed(b, i) ==
    IF AckApplies(b, i)
    THEN [j \in DOMAIN b |->
            IF j = i \/ j \in Cascade(b, i)
            THEN [b[j] EXCEPT !.acked = TRUE, !.held = FALSE] ELSE b[j]]
    ELSE [b EXCEPT ![i].held = TRUE]

\* Acknowledge
AfterAck(b, i) ==
    CASE i \notin DOMAIN b  -> b
      [] i \in DOMAIN b /\ b[i].key = NoKey -> AfterRemove(b, {i})
      [] i \in DOMAIN b /\ b[i].key # NoKey ->
            IF b[i].acked THEN b ELSE AfterAckKeyed(b, i)

\* redeliverKeyedFromLocked: a keyed message takes all later ones of its key along.
Redelivered(b, i) == {i} \cup (IF b[i].key = NoKey THEN {} ELSE Later(b, i))

AfterNack(b, i) ==
    [j \in DOMAIN b |->
        IF j \in Redelivered(b, i)
        THEN [b[j] EXCEPT !.acked = FALSE, !.held = FALSE, !.visibleAt = 0]
        ELSE b[j]]

\* ModifyAckDeadline for one ack id; 0 seconds is a nack.
AfterModAck(b, i, seconds, now) ==
    CASE i \notin DOMAIN b -> b
      [] i \in DOMAIN b /\ seconds = 0 -> AfterNack(b, i)
      [] i \in DOMAIN b /\ seconds # 0 ->
            IF b[i].acked THEN b ELSE [b EXCEPT ![i].visibleAt = now + seconds]

\* BumpDeliveryVersions
AfterBump(b, S) ==
    [i \in DOMAIN b |->
        IF i \in S THEN [b[i] EXCEPT !.version = @ + 1] ELSE b[i]]

\* AckIDCurrent
AckIDCurrent(m, version, now) ==
    m.version = version /\ (m.visibleAt # 0 => now < m.visibleAt)
=============================================================================
