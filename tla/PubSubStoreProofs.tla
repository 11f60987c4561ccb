-------------------------- MODULE PubSubStoreProofs --------------------------
(***************************************************************************)
(* Lemmas about the Pub/Sub message store: publish order is a strict total *)
(* order, so every list has a first message, and each method of the store  *)
(* returns a subscription whose messages are the ones it was given, with   *)
(* the key, time and data they had.                                        *)
(***************************************************************************)
EXTENDS PubSubStore, FiniteSetTheorems, WellFoundedInduction, TLAPS

-----------------------------------------------------------------------------
(* Publish order *)

\* Ids are natural numbers, from 1 on.
LEMMA IdsNat == \A i \in Ids : i \in Nat /\ i >= 1
BY PubSubStoreAssumption, SMT DEF Ids

\* The string of an id has a place among those of nine digits.
LEMMA PaddedNat ==
    ASSUME NEW n \in Ids
    PROVE  Padded(n) \in Nat
<1> DEFINE S == {1, 10, 100, 1000, 10 * 1000, 100 * 1000,
                 Million, 10 * Million, 100 * Million}
<1> DEFINE Fits(s) == 100 * Million <= n * s /\ n * s < 1000 * Million
<1>1. n \in Nat /\ 1 <= n /\ n < 1000 * Million
  BY PubSubStoreAssumption, SMT DEF Ids, Million
<1>2. \E s \in S : Fits(s)
  <2>1. n < 10 => Fits(100 * Million)
    BY <1>1, SMT DEF Million
  <2>2. 10 <= n /\ n < 100 => Fits(10 * Million)
    BY <1>1, SMT DEF Million
  <2>3. 100 <= n /\ n < 1000 => Fits(Million)
    BY <1>1, SMT DEF Million
  <2>4. 1000 <= n /\ n < 10 * 1000 => Fits(100 * 1000)
    BY <1>1, SMT DEF Million
  <2>5. 10 * 1000 <= n /\ n < 100 * 1000 => Fits(10 * 1000)
    BY <1>1, SMT DEF Million
  <2>6. 100 * 1000 <= n /\ n < Million => Fits(1000)
    BY <1>1, SMT DEF Million
  <2>7. Million <= n /\ n < 10 * Million => Fits(100)
    BY <1>1, SMT DEF Million
  <2>8. 10 * Million <= n /\ n < 100 * Million => Fits(10)
    BY <1>1, SMT DEF Million
  <2>9. 100 * Million <= n => Fits(1)
    BY <1>1, SMT DEF Million
  <2>10. Million = 1000 * 1000
    BY SMT DEF Million
  <2> HIDE DEF Fits
  <2> QED
    BY <1>1, <2>1, <2>2, <2>3, <2>4, <2>5, <2>6, <2>7, <2>8, <2>9, <2>10, SMT
<1> DEFINE c == CHOOSE s \in S : Fits(s)
<1>3. c \in S
  <2> HIDE DEF S, Fits
  <2> QED BY <1>2, Zenon
<1>4. Padded(n) = n * c
  BY Zenon DEF Padded
<1>5. n * c \in Nat
  <2> HIDE DEF c
  <2> QED BY <1>1, <1>3, SMT DEF Million
<1> QED BY <1>4, <1>5, SMT

\* IdBefore is a strict total order of the ids.
LEMMA IdOrder ==
    ASSUME NEW i \in Ids, NEW j \in Ids, NEW l \in Ids
    PROVE  /\ ~IdBefore(i, i)
           /\ i # j => IdBefore(i, j) \/ IdBefore(j, i)
           /\ IdBefore(i, j) /\ IdBefore(j, l) => IdBefore(i, l)
<1>1. {Padded(i), Padded(j), Padded(l), i, j, l} \subseteq Nat
  BY PaddedNat, IdsNat
<1> QED BY <1>1 DEF IdBefore

\* Before is a strict total order of the messages of a subscription.
LEMMA BeforeOrder ==
    ASSUME NEW b, IsBox(b),
           NEW i \in DOMAIN b, NEW j \in DOMAIN b, NEW l \in DOMAIN b
    PROVE  /\ ~Before(b, i, i)
           /\ i # j => Before(b, i, j) \/ Before(b, j, i)
           /\ Before(b, i, j) /\ Before(b, j, l) => Before(b, i, l)
<1>1. {i, j, l} \subseteq Ids /\ {b[i].at, b[j].at, b[l].at} \subseteq Nat
  BY DEF IsBox, Messages
<1>2. /\ ~IdBefore(i, i)
      /\ i # j => IdBefore(i, j) \/ IdBefore(j, i)
      /\ IdBefore(i, j) /\ IdBefore(j, l) => IdBefore(i, l)
  BY <1>1, IdOrder
<1> QED BY <1>1, <1>2 DEF Before

\* A set of natural numbers that is not empty has a least element.
LEMMA LeastNat ==
    ASSUME NEW S \in SUBSET Nat, S # {}
    PROVE  \E x \in S : \A y \in S : x <= y
<1> DEFINE R == OpToRel(<, Nat)
<1>1. R = {p \in Nat \X Nat : p[1] < p[2]}
  BY Zenon DEF OpToRel
<1>2. IsWellFoundedOn(R, Nat)
  BY NatLessThanWellFounded, Zenon
<1> HIDE DEF R
<1>3. PICK x \in S : \A y \in S : ~ (<<y, x>> \in R)
  BY <1>2, WFMin
<1>4. ASSUME NEW y \in S PROVE x <= y
  <2>1. x \in Nat /\ y \in Nat
    OBVIOUS
  <2>2. y < x => <<y, x>> \in {p \in Nat \X Nat : p[1] < p[2]}
    BY <2>1
  <2>3. ~ (y < x)
    BY <1>1, <1>3, <2>2, Zenon
  <2> QED BY <2>1, <2>3
<1> QED BY <1>4

\* orderedIDsLocked: a list that is not empty has a first message.
LEMMA FirstExists ==
    ASSUME NEW b, IsBox(b), b # EmptyBox
    PROVE  \E i \in DOMAIN b : \A j \in DOMAIN b \ {i} : Before(b, i, j)
<1>1. DOMAIN b # {} /\ DOMAIN b \subseteq Ids
  BY DEF IsBox, EmptyBox
<1>2. \A i \in DOMAIN b : b[i].at \in Nat /\ i \in Nat /\ Padded(i) \in Nat
  BY PaddedNat, IdsNat DEF IsBox, Messages
<1>3. PICK t \in {b[i].at : i \in DOMAIN b} : \A u \in {b[i].at : i \in DOMAIN b} : t <= u
  <2>1. {b[i].at : i \in DOMAIN b} \in SUBSET Nat /\ {b[i].at : i \in DOMAIN b} # {}
    BY <1>1, <1>2
  <2> QED BY <2>1, LeastNat
<1> DEFINE A == {i \in DOMAIN b : b[i].at = t}
<1>4. PICK d \in {Padded(i) : i \in A} : \A e \in {Padded(i) : i \in A} : d <= e
  <2>1. {Padded(i) : i \in A} \in SUBSET Nat /\ {Padded(i) : i \in A} # {}
    BY <1>2, <1>3
  <2> QED BY <2>1, LeastNat
<1> DEFINE P == {i \in A : Padded(i) = d}
<1>5. PICK i \in P : \A j \in P : i <= j
  <2>1. P \in SUBSET Nat /\ P # {}
    BY <1>2, <1>4
  <2> QED BY <2>1, LeastNat
<1>6. ASSUME NEW j \in DOMAIN b \ {i} PROVE Before(b, i, j)
  <2>1. b[i].at = t /\ Padded(i) = d /\ i \in DOMAIN b
    BY <1>5
  <2>2. t <= b[j].at
    BY <1>3
  <2>3. b[j].at = t => d <= Padded(j)
    BY <1>4
  <2>4. b[j].at = t /\ Padded(j) = d => i < j
    BY <1>2, <1>5, <2>1
  <2> QED BY <1>2, <2>1, <2>2, <2>3, <2>4 DEF Before, IdBefore
<1> QED BY <1>5, <1>6

-----------------------------------------------------------------------------
(* What the methods return *)

\* new holds messages of old: the published part of a message never changes,
\* and its version never goes down.
Derived(new, old) ==
    /\ DOMAIN new \subseteq DOMAIN old
    /\ \A i \in DOMAIN new :
        /\ new[i].key = old[i].key /\ new[i].at = old[i].at
        /\ new[i].src = old[i].src /\ new[i].match = old[i].match
        /\ new[i].version >= old[i].version

LEMMA EmptyBoxIsBox == IsBox(EmptyBox) /\ DOMAIN EmptyBox = {}
BY DEF IsBox, EmptyBox

\* Messages without elements are the empty subscription.
LEMMA EmptyDomain ==
    ASSUME NEW b, IsBox(b), DOMAIN b = {}
    PROVE  b = EmptyBox
BY DEF IsBox, EmptyBox

\* Delete
LEMMA RemoveBox ==
    ASSUME NEW b, IsBox(b), NEW S
    PROVE  /\ IsBox(AfterRemove(b, S)) /\ Derived(AfterRemove(b, S), b)
           /\ DOMAIN AfterRemove(b, S) = DOMAIN b \ S
           /\ \A j \in DOMAIN b \ S : AfterRemove(b, S)[j] = b[j]
<1>1. \A i \in DOMAIN b : b[i].version \in Nat
  BY DEF IsBox, Messages
<1> QED BY <1>1 DEF IsBox, Derived, AfterRemove

\* Put
LEMMA PutBox ==
    ASSUME NEW b, IsBox(b), NEW i \in Ids, NEW m \in Messages
    PROVE  /\ IsBox(AfterPut(b, i, m))
           /\ DOMAIN AfterPut(b, i, m) = DOMAIN b \cup {i}
           /\ AfterPut(b, i, m)[i] = m
           /\ \A j \in DOMAIN b \ {i} : AfterPut(b, i, m)[j] = b[j]
BY DEF IsBox, AfterPut

\* The acks in new are those in old.
SameAcks(new, old) ==
    \A i \in DOMAIN new : new[i].acked = old[i].acked /\ new[i].held = old[i].held

\* The messages in C, and only those, are claimed until t.
ClaimedUntil(new, old, C, t) ==
    \A i \in DOMAIN new :
        /\ i \notin C => new[i] = old[i]
        /\ i \in C => new[i].attempt = old[i].attempt + 1 /\ new[i].visibleAt = t

\* Pull claims each message it returns for ackDeadline and advances its version.
LEMMA PullBox ==
    ASSUME NEW b, IsBox(b), NEW max, NEW d \in Nat, NEW r, NEW now \in Nat
    PROVE  LET new == AfterPull(b, max, d, r, now) IN
           /\ IsBox(new) /\ Derived(new, b)
           /\ DOMAIN new = DOMAIN b \ Lapsed(b, max, r, now)
           /\ Claimed(b, max, r, now) \subseteq DOMAIN new
           /\ Lapsed(b, max, r, now) \subseteq DOMAIN b
           /\ SameAcks(new, b)
           /\ ClaimedUntil(new, b, Claimed(b, max, r, now), now + d)
<1> DEFINE new == AfterPull(b, max, d, r, now)
           L == Lapsed(b, max, r, now)
           C == Claimed(b, max, r, now)
<1>1. \A i \in DOMAIN b : b[i] \in Messages
  BY DEF IsBox
<1>2. \A i \in DOMAIN b : [b[i] EXCEPT !.visibleAt = now + d,
                                      !.attempt = @ + 1, !.version = @ + 1] \in Messages
  <2>1. ASSUME NEW m \in Messages
        PROVE  [m EXCEPT !.visibleAt = now + d, !.attempt = @ + 1, !.version = @ + 1]
                    \in Messages
    <3>1. m.attempt + 1 \in Nat /\ m.version + 1 \in Nat /\ now + d \in Nat
      BY DEF Messages
    <3> QED BY <3>1 DEF Messages
  <2> QED BY <1>1, <2>1
<1>3. C \subseteq DOMAIN b /\ C \cap L = {} /\ L \subseteq DOMAIN b
  BY DEF Claimed, Available, Lapsed, Visited
<1>4. DOMAIN new = DOMAIN b \ L
  BY DEF AfterPull
<1>5. \A i \in DOMAIN new : i \in C =>
        new[i] = [b[i] EXCEPT !.visibleAt = now + d,
                              !.attempt = @ + 1, !.version = @ + 1]
  BY DEF AfterPull
<1>6. \A i \in DOMAIN new : i \notin C => new[i] = b[i]
  BY DEF AfterPull
<1>7. IsBox(new)
  <2>1. \A i \in DOMAIN new : new[i] \in Messages
    BY <1>1, <1>2, <1>4, <1>5, <1>6
  <2>2. new = [i \in DOMAIN new |-> new[i]]
    BY <1>4 DEF AfterPull
  <2> HIDE DEF new
  <2> QED BY <1>4, <2>1, <2>2 DEF IsBox
<1>8. ASSUME NEW i \in DOMAIN new
      PROVE  /\ new[i].key = b[i].key /\ new[i].at = b[i].at
             /\ new[i].src = b[i].src /\ new[i].match = b[i].match
             /\ new[i].acked = b[i].acked /\ new[i].held = b[i].held
             /\ new[i].version >= b[i].version
  <2> HIDE DEF new, C, L
  <2>1. b[i] \in Messages
    BY <1>1, <1>4
  <2>2. CASE i \in C
    <3>1. new[i] = [b[i] EXCEPT !.visibleAt = now + d,
                                !.attempt = @ + 1, !.version = @ + 1]
      BY <1>5, <2>2
    <3> QED BY <2>1, <3>1 DEF Messages
  <2>3. CASE i \notin C
    <3>1. new[i] = b[i]
      BY <1>6, <2>3
    <3> QED BY <2>1, <3>1 DEF Messages
  <2> QED BY <2>2, <2>3
<1>9. Derived(new, b)
  <2> HIDE DEF new, L
  <2> QED BY <1>4, <1>8 DEF Derived
<1> HIDE DEF new, C, L
<1>10. SameAcks(new, b)
  BY <1>8 DEF SameAcks
<1>11. ClaimedUntil(new, b, C, now + d)
  <2>1. ASSUME NEW i \in DOMAIN new, i \in C
        PROVE  new[i].attempt = b[i].attempt + 1 /\ new[i].visibleAt = now + d
    <3>1. b[i] \in Messages
      BY <1>1, <1>4
    <3>2. new[i] = [b[i] EXCEPT !.visibleAt = now + d,
                                !.attempt = @ + 1, !.version = @ + 1]
      BY <1>5, <2>1
    <3> QED BY <3>1, <3>2 DEF Messages
  <2> QED BY <1>6, <2>1 DEF ClaimedUntil
<1> QED BY <1>3, <1>4, <1>7, <1>9, <1>10, <1>11 DEF new, C, L

\* n is m with other flags or another deadline.
SameMessage(n, m) ==
    /\ n \in Messages
    /\ n.key = m.key /\ n.at = m.at /\ n.src = m.src /\ n.match = m.match
    /\ n.version = m.version /\ n.attempt = m.attempt

LEMMA FlagsChange ==
    ASSUME NEW m \in Messages, NEW t \in Nat
    PROVE  /\ SameMessage(m, m)
           /\ SameMessage([m EXCEPT !.acked = TRUE, !.held = FALSE], m)
           /\ SameMessage([m EXCEPT !.held = TRUE], m)
           /\ SameMessage([m EXCEPT !.visibleAt = t], m)
           /\ SameMessage([m EXCEPT !.acked = FALSE, !.held = FALSE, !.visibleAt = 0], m)
BY DEF Messages, SameMessage

\* new is old with other flags and deadlines.
Reflagged(new, old) ==
    /\ IsBox(new) /\ DOMAIN new = DOMAIN old
    /\ \A i \in DOMAIN old : SameMessage(new[i], old[i])

LEMMA Reflag ==
    ASSUME NEW b, IsBox(b), NEW new, new = [i \in DOMAIN b |-> new[i]],
           \A i \in DOMAIN b : SameMessage(new[i], b[i])
    PROVE  Reflagged(new, b)
BY DEF IsBox, Reflagged, SameMessage

LEMMA ReflaggedDerived ==
    ASSUME NEW new, NEW old, IsBox(old), Reflagged(new, old)
    PROVE  Derived(new, old)
<1>1. \A i \in DOMAIN old : old[i].version \in Nat
  BY DEF IsBox, Messages
<1> QED BY <1>1 DEF Reflagged, Derived, SameMessage

LEMMA AckKeyedBox ==
    ASSUME NEW b, IsBox(b), NEW i \in DOMAIN b
    PROVE  Reflagged(AfterAckKeyed(b, i), b)
<1> DEFINE new == AfterAckKeyed(b, i)
<1>1. \A j \in DOMAIN b : b[j] \in Messages
  BY DEF IsBox
<1>2. new = [j \in DOMAIN b |-> new[j]]
  BY DEF AfterAckKeyed, IsBox
<1>3. ASSUME NEW j \in DOMAIN b
      PROVE  \/ new[j] = b[j]
             \/ new[j] = [b[j] EXCEPT !.acked = TRUE, !.held = FALSE]
             \/ new[j] = [b[j] EXCEPT !.held = TRUE]
  BY DEF AfterAckKeyed, IsBox
<1> HIDE DEF new
<1>4. ASSUME NEW j \in DOMAIN b PROVE SameMessage(new[j], b[j])
  BY <1>1, <1>3, FlagsChange
<1>5. Reflagged(new, b)
  BY <1>2, <1>4, Reflag
<1> QED BY <1>5 DEF new

\* Acknowledge takes an unkeyed message out and keeps a keyed one.
LEMMA AckBox ==
    ASSUME NEW b, IsBox(b), NEW i
    PROVE  \/ AfterAck(b, i) = b /\ Reflagged(b, b)
           \/ /\ i \in DOMAIN b /\ b[i].key = NoKey
              /\ AfterAck(b, i) = AfterRemove(b, {i})
           \/ /\ i \in DOMAIN b /\ b[i].key # NoKey /\ ~b[i].acked
              /\ AfterAck(b, i) = AfterAckKeyed(b, i)
              /\ Reflagged(AfterAck(b, i), b)
<1>1. Reflagged(b, b)
  BY FlagsChange DEF Reflagged, IsBox
<1> QED BY <1>1, AckKeyedBox DEF AfterAck

\* ModifyAckDeadline keeps every message.
LEMMA ModAckBox ==
    ASSUME NEW b, IsBox(b), NEW i, NEW s \in Nat, NEW now \in Nat
    PROVE  Reflagged(AfterModAck(b, i, s, now), b)
<1> DEFINE new == AfterModAck(b, i, s, now)
<1> SUFFICES Reflagged(new, b)
  OBVIOUS
<1>1. \A j \in DOMAIN b : b[j] \in Messages
  BY DEF IsBox
<1>2. CASE new = b
  BY <1>1, <1>2, FlagsChange DEF Reflagged
<1>3. CASE i \in DOMAIN b /\ new = AfterNack(b, i)
  <2>1. new = [j \in DOMAIN b |-> new[j]]
    BY <1>3 DEF AfterNack
  <2>2. ASSUME NEW j \in DOMAIN b
        PROVE  \/ new[j] = b[j]
               \/ new[j] = [b[j] EXCEPT !.acked = FALSE, !.held = FALSE, !.visibleAt = 0]
    BY <1>3 DEF AfterNack
  <2> HIDE DEF new
  <2>3. ASSUME NEW j \in DOMAIN b
        PROVE  SameMessage(new[j], b[j])
    BY <1>1, <2>2, FlagsChange
  <2> QED BY <2>1, <2>3, Reflag
<1>4. CASE i \in DOMAIN b /\ new = [b EXCEPT ![i].visibleAt = now + s]
  <2>1. new = [j \in DOMAIN b |-> new[j]]
    BY <1>4 DEF IsBox
  <2>2. ASSUME NEW j \in DOMAIN b
        PROVE  new[j] = b[j] \/ new[j] = [b[j] EXCEPT !.visibleAt = now + s]
    BY <1>4 DEF IsBox
  <2> HIDE DEF new
  <2>3. ASSUME NEW j \in DOMAIN b
        PROVE  SameMessage(new[j], b[j])
    <3>1. now + s \in Nat
      OBVIOUS
    <3> QED BY <1>1, <2>2, <3>1, FlagsChange
  <2> QED BY <2>1, <2>3, Reflag
<1>5. new = b \/ (i \in DOMAIN b /\ new = AfterNack(b, i))
              \/ (i \in DOMAIN b /\ new = [b EXCEPT ![i].visibleAt = now + s])
  BY DEF AfterModAck
<1> QED BY <1>2, <1>3, <1>4, <1>5

\* BumpDeliveryVersions advances the versions it was asked to.
LEMMA BumpBox ==
    ASSUME NEW b, IsBox(b), NEW S
    PROVE  LET new == AfterBump(b, S) IN
           /\ IsBox(new) /\ Derived(new, b) /\ DOMAIN new = DOMAIN b
           /\ \A i \in DOMAIN b :
                /\ new[i].attempt = b[i].attempt
                /\ new[i].acked = b[i].acked /\ new[i].held = b[i].held
                /\ i \in S => new[i].version > b[i].version
<1> DEFINE new == AfterBump(b, S)
<1>1. DOMAIN new = DOMAIN b /\ new = [i \in DOMAIN new |-> new[i]]
  BY DEF AfterBump
<1>2. \A i \in DOMAIN b : /\ i \in S => new[i] = [b[i] EXCEPT !.version = @ + 1]
                          /\ i \notin S => new[i] = b[i]
  BY DEF AfterBump
<1> HIDE DEF new
<1>3. ASSUME NEW i \in DOMAIN b
      PROVE  /\ new[i] \in Messages
             /\ new[i].key = b[i].key /\ new[i].at = b[i].at
             /\ new[i].src = b[i].src /\ new[i].match = b[i].match
             /\ new[i].acked = b[i].acked /\ new[i].held = b[i].held
             /\ new[i].attempt = b[i].attempt /\ new[i].version >= b[i].version
             /\ i \in S => new[i].version > b[i].version
  <2>1. b[i] \in Messages
    BY DEF IsBox
  <2>2. CASE i \in S
    <3>1. new[i] = [b[i] EXCEPT !.version = @ + 1]
      BY <1>2, <2>2
    <3>2. b[i].version + 1 \in Nat /\ b[i].version + 1 > b[i].version /\ b[i].version \in Nat
      BY <2>1 DEF Messages
    <3> QED BY <2>1, <3>1, <3>2 DEF Messages
  <2>3. CASE i \notin S
    <3>1. new[i] = b[i]
      BY <1>2, <2>3
    <3>2. b[i].version \in Nat
      BY <2>1 DEF Messages
    <3> QED BY <2>1, <2>3, <3>1, <3>2
  <2> QED BY <2>2, <2>3
<1>4. IsBox(new)
  BY <1>1, <1>3 DEF IsBox
<1>5. Derived(new, b)
  BY <1>1, <1>3 DEF Derived
<1> QED BY <1>1, <1>3, <1>4, <1>5 DEF new

-----------------------------------------------------------------------------
(* Acks in key order *)

\* Of each key the first messages are acknowledged, and only waiting acks are held.
KeysSorted(b) ==
    /\ \A i \in DOMAIN b : b[i].key = NoKey => ~b[i].acked /\ ~b[i].held
    /\ \A i \in DOMAIN b : b[i].held => ~b[i].acked
    /\ \A i, j \in DOMAIN b :
            (b[i].key = b[j].key /\ Before(b, i, j) /\ b[j].acked) => b[i].acked

\* An earlier message of the key is unacknowledged.
Waits(b, j) == \E i \in Earlier(b, j) : ~b[i].acked

\* No new ack is held without something it waits for.
HeldWaits(new, b) ==
    \A j \in DOMAIN b : new[j].held => Waits(new, j) \/ (b[j].held /\ ~Waits(b, j))

\* ackKeyedLocked: an ack is applied in key order, and the held acks it sets free
\* end at a message that is unacknowledged.
LEMMA AckKeyedSorted ==
    ASSUME NEW b, IsBox(b), KeysSorted(b),
           NEW i \in DOMAIN b, b[i].key # NoKey, ~b[i].acked
    PROVE  /\ KeysSorted(AfterAckKeyed(b, i))
           /\ HeldWaits(AfterAckKeyed(b, i), b)
<1> DEFINE new == AfterAckKeyed(b, i)
           C == {i} \cup Cascade(b, i)
<1>1. \A j \in DOMAIN b : b[j] \in Messages
  BY DEF IsBox
<1>2. Reflagged(new, b)
  BY AckKeyedBox
<1>3. /\ DOMAIN new = DOMAIN b
      /\ \A j \in DOMAIN b : new[j].key = b[j].key /\ new[j].at = b[j].at
  BY <1>2 DEF Reflagged, SameMessage
<1>4. \A j, l \in DOMAIN b : Before(new, j, l) <=> Before(b, j, l)
  BY <1>3 DEF Before
<1>5. \A j, l \in DOMAIN b : /\ ~Before(b, j, j)
                             /\ j # l => Before(b, j, l) \/ Before(b, l, j)
  BY BeforeOrder
<1>6. \A j, l, m \in DOMAIN b : Before(b, j, l) /\ Before(b, l, m) => Before(b, j, m)
  BY BeforeOrder
<1>7. CASE ~AckApplies(b, i)
  <2>1. new = [b EXCEPT ![i].held = TRUE]
    BY <1>7 DEF AfterAckKeyed
  <2>2. \A j \in DOMAIN b : /\ new[j].acked = b[j].acked
                            /\ j # i => new[j].held = b[j].held
    BY <1>1, <2>1 DEF Messages, IsBox
  <2>3. KeysSorted(new)
    BY <1>3, <1>4, <2>2 DEF KeysSorted
  <2>4. \A j \in DOMAIN b : Waits(new, j) <=> Waits(b, j)
    BY <1>3, <1>4, <2>2 DEF Waits, Earlier
  <2>5. Waits(b, i)
    BY <1>7 DEF AckApplies, Waits
  <2> QED BY <2>2, <2>3, <2>4, <2>5 DEF HeldWaits
<1>8. CASE AckApplies(b, i)
  <2>1. /\ \A j \in C : j \in DOMAIN b /\ b[j].key = b[i].key
        /\ \A j \in C \ {i} : b[j].held /\ Before(b, i, j)
    BY DEF Cascade, Later
  <2>2. \A j \in DOMAIN b : /\ j \in C => new[j].acked /\ ~new[j].held
                            /\ j \notin C => new[j] = b[j]
    <3> SUFFICES ASSUME NEW j \in DOMAIN b
                 PROVE  /\ j \in C => new[j].acked /\ ~new[j].held
                        /\ j \notin C => new[j] = b[j]
      OBVIOUS
    <3>1. j \in C => new[j] = [b[j] EXCEPT !.acked = TRUE, !.held = FALSE]
      BY <1>8 DEF AfterAckKeyed
    <3>2. j \notin C => new[j] = b[j]
      BY <1>8 DEF AfterAckKeyed
    <3> HIDE DEF new, C
    <3>3. CASE j \in C
      BY <1>1, <3>1, <3>3 DEF Messages
    <3> QED BY <3>2, <3>3
  <2>3. \A j \in Earlier(b, i) : b[j].acked
    BY <1>8 DEF AckApplies
  <2>4. ASSUME NEW l \in DOMAIN b, NEW j \in DOMAIN b,
               b[l].key = b[j].key, Before(b, l, j), new[j].acked
        PROVE  new[l].acked
    <3>1. CASE j \notin C
      BY <2>2, <2>4, <3>1 DEF KeysSorted
    <3>2. CASE j = i
      BY <2>2, <2>3, <2>4, <3>2 DEF Earlier
    <3>3. CASE j \in C \ {i}
      <4>1. b[l].key = b[i].key
        BY <2>1, <2>4, <3>3
      <4>2. CASE Before(b, l, i)
        BY <2>2, <2>3, <4>1, <4>2 DEF Earlier
      <4>3. CASE Before(b, i, l)
        <5>1. l \in Later(b, i)
          BY <4>1, <4>3 DEF Later
        <5>2. \A m \in Later(b, i) : (m = j \/ Before(b, m, j)) => b[m].held
          BY <3>3 DEF Cascade
        <5>3. \A m \in Later(b, i) : m \in DOMAIN b
          BY DEF Later
        <5>4. \A m \in Later(b, i) : (m = l \/ Before(b, m, l)) => b[m].held
          BY <1>6, <2>4, <5>2, <5>3
        <5> QED BY <2>2, <5>1, <5>4 DEF Cascade
      <4> QED BY <1>5, <2>2, <4>2, <4>3
    <3> QED BY <3>1, <3>2, <3>3
  <2>5. KeysSorted(new)
    <3>1. \A j \in C : b[j].key # NoKey
      BY <2>1
    <3> HIDE DEF new, C
    <3> QED BY <1>3, <1>4, <2>2, <2>4, <3>1 DEF KeysSorted
  <2>6. ASSUME NEW j \in DOMAIN b, new[j].held, Waits(b, j)
        PROVE  Waits(new, j)
    <3>1. j \notin C /\ b[j].held /\ ~b[j].acked
      BY <2>2, <2>6 DEF KeysSorted
    <3>2. CASE b[j].key # b[i].key
      <4>1. PICK l \in Earlier(b, j) : ~b[l].acked
        BY <2>6 DEF Waits
      <4>2. l \in DOMAIN b /\ l \notin C
        BY <2>1, <3>2, <4>1 DEF Earlier
      <4> QED BY <1>3, <1>4, <2>2, <4>1, <4>2 DEF Waits, Earlier
    <3>3. CASE b[j].key = b[i].key
      <4>1. j \in Later(b, i)
        BY <1>5, <2>3, <3>1, <3>3 DEF Earlier, Later
      <4>2. PICK l \in Later(b, i) : (l = j \/ Before(b, l, j)) /\ ~b[l].held
        BY <3>1, <4>1 DEF Cascade
      <4>3. l \in DOMAIN b /\ b[l].key = b[j].key /\ Before(b, l, j) /\ Before(b, i, l)
        BY <3>1, <3>3, <4>2 DEF Later
      <4>4. ~b[l].acked
        BY <3>3, <4>3 DEF KeysSorted
      <4>5. l \notin C
        BY <1>5, <2>1, <4>2, <4>3
      <4> QED BY <1>3, <1>4, <2>2, <4>3, <4>4, <4>5 DEF Waits, Earlier
    <3> QED BY <3>2, <3>3
  <2>7. \A j \in DOMAIN b : new[j].held => b[j].held
    BY <2>2
  <2> QED BY <2>5, <2>6, <2>7 DEF HeldWaits
<1> QED BY <1>7, <1>8

\* redeliverKeyedFromLocked: a nack takes the later messages of the key along, so
\* what stays acknowledged is still the beginning of its key.
LEMMA NackSorted ==
    ASSUME NEW b, IsBox(b), KeysSorted(b), NEW i \in DOMAIN b
    PROVE  KeysSorted(AfterNack(b, i)) /\ HeldWaits(AfterNack(b, i), b)
<1> DEFINE new == AfterNack(b, i)
           R == Redelivered(b, i)
<1>1. \A j \in DOMAIN b : b[j] \in Messages
  BY DEF IsBox
<1>2. DOMAIN new = DOMAIN b
  BY DEF AfterNack
<1>3. ASSUME NEW j \in DOMAIN b
      PROVE  /\ j \in R => ~new[j].acked /\ ~new[j].held
             /\ j \notin R => new[j] = b[j]
             /\ new[j].key = b[j].key /\ new[j].at = b[j].at
  <2>1. j \in R => new[j] = [b[j] EXCEPT !.acked = FALSE, !.held = FALSE, !.visibleAt = 0]
    BY DEF AfterNack
  <2>2. j \notin R => new[j] = b[j]
    BY DEF AfterNack
  <2> HIDE DEF new, R
  <2>3. CASE j \in R
    BY <1>1, <2>1, <2>3 DEF Messages
  <2> QED BY <2>2, <2>3
<1>4. \A l, j, m \in DOMAIN b : Before(b, l, j) /\ Before(b, j, m) => Before(b, l, m)
  BY BeforeOrder
<1>5. \A l, j \in DOMAIN b :
        (b[l].key = b[j].key /\ Before(b, l, j) /\ l \in R /\ b[j].key # NoKey) => j \in R
  BY <1>4 DEF Redelivered, Later
<1> HIDE DEF new, R
<1>6. \A l, j \in DOMAIN b : Before(new, l, j) <=> Before(b, l, j)
  BY <1>3 DEF Before
<1>7. KeysSorted(new)
  <2>1. ASSUME NEW l \in DOMAIN b, NEW j \in DOMAIN b,
               b[l].key = b[j].key, Before(b, l, j), new[j].acked
        PROVE  new[l].acked
    <3>1. j \notin R /\ b[j].acked /\ b[j].key # NoKey
      BY <1>3, <2>1 DEF KeysSorted
    <3>2. l \notin R
      BY <1>5, <2>1, <3>1
    <3> QED BY <1>3, <2>1, <3>1, <3>2 DEF KeysSorted
  <2> QED BY <1>2, <1>3, <1>6, <2>1 DEF KeysSorted
<1>8. ASSUME NEW j \in DOMAIN b, new[j].held
       PROVE  b[j].held /\ (Waits(b, j) => Waits(new, j))
  BY <1>2, <1>3, <1>6, <1>8 DEF Waits, Earlier
<1>9. HeldWaits(new, b)
  BY <1>8 DEF HeldWaits
<1> QED BY <1>7, <1>9 DEF new

\* Nothing else matters to the order: the acks of a subscription are what they were.
LEMMA SameAcksSorted ==
    ASSUME NEW b, KeysSorted(b), NEW new, DOMAIN new = DOMAIN b,
           \A j \in DOMAIN b : /\ new[j].key = b[j].key /\ new[j].at = b[j].at
                               /\ new[j].acked = b[j].acked /\ new[j].held = b[j].held
    PROVE  KeysSorted(new) /\ HeldWaits(new, b)
<1>1. \A l, j \in DOMAIN b : Before(new, l, j) <=> Before(b, l, j)
  BY DEF Before
<1>2. \A j \in DOMAIN b : Waits(new, j) <=> Waits(b, j)
  BY <1>1 DEF Waits, Earlier
<1> QED BY <1>1, <1>2 DEF KeysSorted, HeldWaits

\* ModifyAckDeadline
LEMMA ModAckSorted ==
    ASSUME NEW b, IsBox(b), KeysSorted(b), NEW i, NEW s \in Nat, NEW now \in Nat
    PROVE  KeysSorted(AfterModAck(b, i, s, now)) /\ HeldWaits(AfterModAck(b, i, s, now), b)
<1> DEFINE new == AfterModAck(b, i, s, now)
<1>1. CASE i \in DOMAIN b /\ s = 0
  BY <1>1, NackSorted DEF AfterModAck
<1>2. CASE new = b
  BY <1>2, SameAcksSorted
<1>3. CASE i \in DOMAIN b /\ new = [b EXCEPT ![i].visibleAt = now + s]
  <2>1. \A j \in DOMAIN b : b[j] \in Messages
    BY DEF IsBox
  <2> HIDE DEF new
  <2>2. DOMAIN new = DOMAIN b
    BY <1>3
  <2>3. \A j \in DOMAIN b : /\ new[j].key = b[j].key /\ new[j].at = b[j].at
                            /\ new[j].acked = b[j].acked /\ new[j].held = b[j].held
    BY <1>3, <2>1 DEF Messages, IsBox
  <2> QED BY <2>2, <2>3, SameAcksSorted DEF new
<1> QED BY <1>1, <1>2, <1>3 DEF AfterModAck

-----------------------------------------------------------------------------
(* Hidden messages *)

\* Every message of new outside S is visible, or it has the deadline it had in
\* old and no ack of it was taken back.
HidesOnly(new, old, S) ==
    \A j \in DOMAIN new \ S :
        \/ new[j].visibleAt = 0
        \/ /\ j \in DOMAIN old /\ new[j].visibleAt = old[j].visibleAt
           /\ old[j].acked => new[j].acked

LEMMA HidesNothing ==
    ASSUME NEW b, NEW S
    PROVE  HidesOnly(b, b, S)
BY DEF HidesOnly

\* Pull hides what it claims.
LEMMA PullHides ==
    ASSUME NEW b, IsBox(b), NEW max, NEW d \in Nat, NEW r, NEW now \in Nat
    PROVE  HidesOnly(AfterPull(b, max, d, r, now), b, Claimed(b, max, r, now))
<1> DEFINE new == AfterPull(b, max, d, r, now)
           C == Claimed(b, max, r, now)
           L == Lapsed(b, max, r, now)
<1>1. DOMAIN new = DOMAIN b \ L
  BY DEF AfterPull
<1>2. ClaimedUntil(new, b, C, now + d)
  BY PullBox
<1> HIDE DEF new, C, L
<1>3. HidesOnly(new, b, C)
  BY <1>1, <1>2 DEF HidesOnly, ClaimedUntil
<1> QED BY <1>3 DEF new, C

\* Acknowledge moves no deadline and takes back no ack.
LEMMA AckHides ==
    ASSUME NEW b, IsBox(b), NEW i
    PROVE  HidesOnly(AfterAck(b, i), b, {})
<1>1. \A j \in DOMAIN b : b[j] \in Messages
  BY DEF IsBox
<1>2. CASE AfterAck(b, i) = b
  BY <1>2, HidesNothing
<1>3. CASE AfterAck(b, i) = AfterRemove(b, {i})
  BY <1>3 DEF AfterRemove, HidesOnly
<1>4. CASE i \in DOMAIN b /\ AfterAck(b, i) = AfterAckKeyed(b, i)
  <2> DEFINE new == AfterAckKeyed(b, i)
  <2>1. DOMAIN new = DOMAIN b
    BY <1>4, AckKeyedBox DEF Reflagged
  <2>2. ASSUME NEW j \in DOMAIN b
        PROVE  new[j].visibleAt = b[j].visibleAt /\ (b[j].acked => new[j].acked)
    <3>1. CASE AckApplies(b, i)
      <4>1. \/ new[j] = b[j]
            \/ new[j] = [b[j] EXCEPT !.acked = TRUE, !.held = FALSE]
        BY <3>1 DEF AfterAckKeyed
      <4> HIDE DEF new
      <4> QED BY <1>1, <4>1 DEF Messages
    <3>2. CASE ~AckApplies(b, i)
      <4>1. new = [b EXCEPT ![i].held = TRUE]
        BY <3>2 DEF AfterAckKeyed
      <4> HIDE DEF new
      <4>2. b[j] \in Messages /\ b \in [DOMAIN b -> Messages]
        BY <1>1 DEF IsBox
      <4>3. new[j] = IF j = i THEN [b[j] EXCEPT !.held = TRUE] ELSE b[j]
        BY <1>4, <4>1, <4>2
      <4> QED BY <4>2, <4>3 DEF Messages
    <3> QED BY <3>1, <3>2
  <2> HIDE DEF new
  <2>3. HidesOnly(new, b, {})
    BY <2>1, <2>2 DEF HidesOnly
  <2> QED BY <1>4, <2>3 DEF new
<1> QED BY <1>2, <1>3, <1>4, AckBox

\* ModifyAckDeadline hides the message it names, and a nack hides nothing.
LEMMA ModAckHides ==
    ASSUME NEW b, IsBox(b), NEW i, NEW s \in Nat, NEW now \in Nat
    PROVE  /\ HidesOnly(AfterModAck(b, i, s, now), b, {i})
           /\ s = 0 => HidesOnly(AfterModAck(b, i, s, now), b, {})
<1> DEFINE new == AfterModAck(b, i, s, now)
<1>1. \A j \in DOMAIN b : b[j] \in Messages
  BY DEF IsBox
<1>2. CASE new = b
  BY <1>2, HidesNothing
<1>3. CASE i \in DOMAIN b /\ new = AfterNack(b, i)
  <2> DEFINE nacked == AfterNack(b, i)
  <2>1. DOMAIN nacked = DOMAIN b
    BY DEF AfterNack
  <2>2. ASSUME NEW j \in DOMAIN b
        PROVE  nacked[j].visibleAt = 0 \/ nacked[j] = b[j]
    <3>1. \/ nacked[j] = b[j]
          \/ nacked[j] = [b[j] EXCEPT !.acked = FALSE, !.held = FALSE, !.visibleAt = 0]
      BY DEF AfterNack
    <3> HIDE DEF nacked
    <3> QED BY <1>1, <3>1 DEF Messages
  <2> HIDE DEF nacked, new
  <2>3. HidesOnly(nacked, b, {i}) /\ HidesOnly(nacked, b, {})
    BY <2>1, <2>2 DEF HidesOnly
  <2> QED BY <1>3, <2>3 DEF new, nacked
<1>4. CASE i \in DOMAIN b /\ s # 0 /\ new = [b EXCEPT ![i].visibleAt = now + s]
  <2>1. DOMAIN new = DOMAIN b /\ \A j \in DOMAIN b \ {i} : new[j] = b[j]
    BY <1>4 DEF IsBox
  <2> HIDE DEF new
  <2>2. HidesOnly(new, b, {i})
    BY <2>1 DEF HidesOnly
  <2> QED BY <1>4, <2>2 DEF new
<1>5. \/ new = b \/ (i \in DOMAIN b /\ new = AfterNack(b, i))
      \/ (i \in DOMAIN b /\ s # 0 /\ new = [b EXCEPT ![i].visibleAt = now + s])
  BY DEF AfterModAck
<1> QED BY <1>2, <1>3, <1>4, <1>5

-----------------------------------------------------------------------------
(* What may be acknowledged *)

\* Only messages in S, and those that were before, are acknowledged or have a
\* held ack.
AcksOnly(new, old, S) ==
    \A j \in DOMAIN new \ S :
        new[j].acked \/ new[j].held => j \in DOMAIN old /\ (old[j].acked \/ old[j].held)

LEMMA AcksNothing ==
    ASSUME NEW b, NEW S
    PROVE  AcksOnly(b, b, S)
BY DEF AcksOnly

LEMMA PullAcks ==
    ASSUME NEW b, IsBox(b), NEW max, NEW d \in Nat, NEW r, NEW now \in Nat
    PROVE  AcksOnly(AfterPull(b, max, d, r, now), b, {})
<1> DEFINE new == AfterPull(b, max, d, r, now)
<1>1. SameAcks(new, b) /\ DOMAIN new = DOMAIN b \ Lapsed(b, max, r, now)
  BY PullBox
<1> HIDE DEF new
<1>2. AcksOnly(new, b, {})
  BY <1>1 DEF AcksOnly, SameAcks
<1> QED BY <1>2 DEF new

\* Acknowledge acknowledges or holds the message it names; the others it
\* acknowledges had a held ack.
LEMMA AckAcks ==
    ASSUME NEW b, IsBox(b), NEW i
    PROVE  AcksOnly(AfterAck(b, i), b, {i})
<1>1. \A j \in DOMAIN b : b[j] \in Messages
  BY DEF IsBox
<1>2. CASE AfterAck(b, i) = b
  BY <1>2, AcksNothing
<1>3. CASE AfterAck(b, i) = AfterRemove(b, {i})
  BY <1>3 DEF AfterRemove, AcksOnly
<1>4. CASE i \in DOMAIN b /\ AfterAck(b, i) = AfterAckKeyed(b, i)
  <2> DEFINE new == AfterAckKeyed(b, i)
  <2>1. DOMAIN new = DOMAIN b
    BY <1>4, AckKeyedBox DEF Reflagged
  <2>2. ASSUME NEW j \in DOMAIN b, j # i
        PROVE  new[j] = b[j] \/ b[j].held
    <3>1. CASE AckApplies(b, i)
      <4>1. new[j] = b[j] \/ j \in Cascade(b, i)
        BY <2>2, <3>1 DEF AfterAckKeyed
      <4> QED BY <4>1 DEF Cascade
    <3>2. CASE ~AckApplies(b, i)
      <4>1. new = [b EXCEPT ![i].held = TRUE]
        BY <3>2 DEF AfterAckKeyed
      <4> QED BY <2>2, <4>1 DEF IsBox
    <3> QED BY <3>1, <3>2
  <2> HIDE DEF new
  <2>3. AcksOnly(new, b, {i})
    BY <2>1, <2>2 DEF AcksOnly
  <2> QED BY <1>4, <2>3 DEF new
<1> QED BY <1>2, <1>3, <1>4, AckBox

\* ModifyAckDeadline acknowledges nothing.
LEMMA ModAckAcks ==
    ASSUME NEW b, IsBox(b), NEW i, NEW s \in Nat, NEW now \in Nat
    PROVE  AcksOnly(AfterModAck(b, i, s, now), b, {})
<1> DEFINE new == AfterModAck(b, i, s, now)
<1>1. \A j \in DOMAIN b : b[j] \in Messages
  BY DEF IsBox
<1>2. DOMAIN new = DOMAIN b
  BY ModAckBox DEF Reflagged
<1>3. ASSUME NEW j \in DOMAIN b, new[j].acked \/ new[j].held
      PROVE  b[j].acked \/ b[j].held
  <2>1. CASE new = b
    BY <1>3, <2>1
  <2>2. CASE new = AfterNack(b, i)
    <3> DEFINE nacked == AfterNack(b, i)
    <3>1. \/ nacked[j] = b[j]
          \/ nacked[j] = [b[j] EXCEPT !.acked = FALSE, !.held = FALSE, !.visibleAt = 0]
      BY DEF AfterNack
    <3>2. new[j] = nacked[j]
      BY <2>2
    <3> HIDE DEF new, nacked
    <3> QED BY <1>1, <1>3, <3>1, <3>2 DEF Messages
  <2>3. CASE i \in DOMAIN b /\ new = [b EXCEPT ![i].visibleAt = now + s]
    <3>1. b[j] \in Messages /\ b \in [DOMAIN b -> Messages]
      BY <1>1 DEF IsBox
    <3>2. new[j] = IF j = i THEN [b[j] EXCEPT !.visibleAt = now + s] ELSE b[j]
      <4> HIDE DEF new
      <4> QED BY <2>3, <3>1
    <3> HIDE DEF new
    <3> QED BY <1>3, <3>1, <3>2 DEF Messages
  <2> QED BY <2>1, <2>2, <2>3 DEF AfterModAck
<1> HIDE DEF new
<1>4. AcksOnly(new, b, {})
  BY <1>2, <1>3 DEF AcksOnly
<1> QED BY <1>4 DEF new
=============================================================================
