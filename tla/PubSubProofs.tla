---------------------------- MODULE PubSubProofs ----------------------------
(***************************************************************************)
(* Theorems about PubSub, for any clients, publishers, subscription        *)
(* settings and bounds: no message is lost, a seek leaves what it listed   *)
(* with newer versions, and pulls hand out a key in the store's order;     *)
(* with one publisher, acks are applied in the order of publication.       *)
(***************************************************************************)
EXTENDS PubSub, PubSubStoreProofs

USE DEF publisherVars

-----------------------------------------------------------------------------
(* The inductive invariant *)

\* What never changes of the messages in b.
Copies(b) == {<<i, b[i].key, b[i].at, b[i].src>> : i \in DOMAIN b}

\* The copies of messages that were put, wherever they are now.
StoredCopies ==
    Copies(sub) \cup Copies(listed) \cup Copies(todo) \cup Copies(snapshot.backlog)
    \cup UNION {Copies(batch[c]) : c \in Clients}

FreshCopies == UNION {Copies(publishing[p]) : p \in Publishers}

\* Two copies with the same id are of the same message; a message is with one
\* publisher or has been put.
CopiesOK ==
    /\ FirstSeq <= seq
    /\ \A x \in StoredCopies \cup FreshCopies :
            x[1] \in FirstSeq + 1 .. seq /\ x[4] = x[1] /\ x[3] <= now
    /\ \A x, y \in StoredCopies \cup FreshCopies : x[1] = y[1] => x[2] = y[2]
    /\ \A x \in StoredCopies, y \in FreshCopies : x[1] # y[1]
    /\ \A p, q \in Publishers : p # q => DOMAIN publishing[p] \cap DOMAIN publishing[q] = {}

\* Requests to publish follow each other.
OnePublisher == \A p, q \in Publishers : p = q

\* Then messages are published in the order of their ids: a request that has not
\* numbered all of its messages is later than everything numbered before it.  Of
\* two requests at once, the one that read the clock first may draw its ids last.
TimesOK ==
    /\ \A p \in Publishers : drawing[p].at <= now
    /\ OnePublisher =>
        /\ \A x, y \in StoredCopies \cup FreshCopies : x[1] <= y[1] => x[3] <= y[3]
        /\ \A p \in Publishers : drawing[p].left > 0 =>
                \A x \in StoredCopies \cup FreshCopies : x[3] <= drawing[p].at

\* Between the delete and the put of a forwarded message the pull has it.
ForwardOK == \A c \in Clients : pc[c] = "forwarding" => arg[c].id \in DOMAIN batch[c]

\* The message has not disappeared, whatever a seek is still going to put back.
Present(i) ==
    \/ i \in DOMAIN sub \cup {e[1] : e \in settled}
    \/ \E c \in Clients : pc[c] = "forwarding" /\ arg[c].id = i
    \/ \E j \in DOMAIN dead : dead[j].src = i

\* What a seek to a snapshot has put back so far.
RestoredSoFar ==
    CASE seeking = "restoring" -> DOMAIN snapshot.backlog \ DOMAIN todo
      [] seeking = "replaying" -> Restored \ DOMAIN todo
      [] seeking \notin {"restoring", "replaying"} -> {}

KeptOK == MessageKept /\ \A i \in RestoredSoFar : Present(i)

\* How far a seek has come with the versions of the messages it listed.
VersionsOK ==
    LET both == DOMAIN listed \cap DOMAIN sub IN
    /\ seeking \in {"idle", "releasing", "restoring", "replaying"} =>
            \A i \in both : sub[i].version > listed[i].version
    /\ seeking = "trimming" =>
            \A i \in both : /\ sub[i].version >= listed[i].version
                            /\ listed[i].at < target => i \in DOMAIN todo
    /\ seeking = "clearing" => both \subseteq DOMAIN todo

PubSubInv == PubSubTypeOK /\ CopiesOK /\ TimesOK /\ ForwardOK /\ KeptOK /\ VersionsOK

-----------------------------------------------------------------------------
(* Lemmas *)

LEMMA DerivedCopies ==
    ASSUME NEW new, NEW old, Derived(new, old)
    PROVE  Copies(new) \subseteq Copies(old)
BY DEF Derived, Copies

LEMMA PutCopies ==
    ASSUME NEW b, IsBox(b), NEW i \in Ids, NEW m \in Messages
    PROVE  Copies(AfterPut(b, i, m)) \subseteq Copies(b) \cup {<<i, m.key, m.at, m.src>>}
<1> DEFINE new == AfterPut(b, i, m)
<1>1. /\ DOMAIN new = DOMAIN b \cup {i} /\ new[i] = m
      /\ \A j \in DOMAIN b \ {i} : new[j] = b[j]
  BY PutBox
<1> HIDE DEF new
<1>2. ASSUME NEW j \in DOMAIN new
      PROVE  <<j, new[j].key, new[j].at, new[j].src>>
                \in Copies(b) \cup {<<i, m.key, m.at, m.src>>}
  BY <1>1 DEF Copies
<1>3. Copies(new) \subseteq Copies(b) \cup {<<i, m.key, m.at, m.src>>}
  BY <1>2 DEF Copies
<1> QED BY <1>3 DEF new

LEMMA EmptyCopies == Copies(EmptyBox) = {}
BY EmptyBoxIsBox DEF Copies

\* Some of the messages of a box.
LEMMA PartBox ==
    ASSUME NEW b, IsBox(b), NEW S, S \subseteq DOMAIN b
    PROVE  /\ IsBox([i \in S |-> b[i]])
           /\ Copies([i \in S |-> b[i]]) \subseteq Copies(b)
BY DEF IsBox, Copies

\* The components of a copy.
LEMMA CopyOf ==
    ASSUME NEW b, NEW i \in DOMAIN b
    PROVE  <<i, b[i].key, b[i].at, b[i].src>> \in Copies(b)
BY DEF Copies

\* No copy is new and nothing is published: the copies stay as they should be.
LEMMA CopiesStay ==
    ASSUME PubSubTypeOK, CopiesOK, TimesOK, StoredCopies' \subseteq StoredCopies,
           UNCHANGED publisherVars, seq' \in Nat, seq' >= seq, now' \in Nat, now' >= now
    PROVE  CopiesOK' /\ TimesOK'
<1>1. FreshCopies' = FreshCopies
  BY DEF FreshCopies
<1>2. /\ FirstSeq <= seq
      /\ \A x \in StoredCopies \cup FreshCopies :
            x[1] \in FirstSeq + 1 .. seq /\ x[3] <= now /\ x[3] \in Nat
  <2>1. ASSUME NEW b, IsBox(b), NEW x \in Copies(b) PROVE x[3] \in Nat
    BY <2>1 DEF IsBox, Messages, Copies
  <2>2. \A x \in StoredCopies \cup FreshCopies : x[3] \in Nat
    BY <2>1 DEF StoredCopies, FreshCopies, PubSubTypeOK
  <2> QED BY <2>2 DEF CopiesOK
<1>3. seq \in Nat /\ now \in Nat /\ FirstSeq \in Nat
  BY PubSubAssumption DEF PubSubTypeOK
<1>4. /\ FirstSeq <= seq'
      /\ \A x \in StoredCopies' \cup FreshCopies' :
            x[1] \in FirstSeq + 1 .. seq' /\ x[4] = x[1] /\ x[3] <= now'
  BY <1>1, <1>2, <1>3 DEF CopiesOK
<1>5. \A x, y \in StoredCopies' \cup FreshCopies' : x[1] = y[1] => x[2] = y[2]
  BY <1>1 DEF CopiesOK
<1>6. \A x \in StoredCopies', y \in FreshCopies' : x[1] # y[1]
  BY <1>1 DEF CopiesOK
<1>7. \A p, q \in Publishers : p # q => DOMAIN publishing'[p] \cap DOMAIN publishing'[q] = {}
  BY DEF CopiesOK
<1>8. TimesOK'
  <2>1. \A p \in Publishers : drawing'[p].at <= now'
    <3>1. \A p \in Publishers : drawing[p].at \in Nat /\ drawing[p].at <= now
      BY DEF PubSubTypeOK, TimesOK
    <3> QED BY <1>3, <3>1
  <2> QED BY <1>1, <2>1 DEF TimesOK
<1> QED BY <1>4, <1>5, <1>6, <1>7, <1>8 DEF CopiesOK

\* A step of a client keeps the invariant if it only takes messages out of the
\* subscription that are present elsewhere, and reads copies from there.
LEMMA ClientStepInv ==
    ASSUME PubSubInv, PubSubTypeOK', ForwardOK', Derived(sub', sub),
           \A c \in Clients : Copies(batch'[c]) \subseteq Copies(sub) \cup Copies(batch[c]),
           seq' >= seq, now' >= now,
           UNCHANGED <<publisherVars, put, snapshot, seeking, target, listed, todo>>,
           \A i : Present(i) => Present(i)'
    PROVE  PubSubInv'
<1>1. CopiesOK' /\ TimesOK'
  <2>1. Copies(sub') \subseteq Copies(sub)
    BY DerivedCopies
  <2>2. StoredCopies' \subseteq StoredCopies
    BY <2>1 DEF StoredCopies
  <2>3. seq' \in Nat /\ now' \in Nat
    BY DEF PubSubTypeOK
  <2> QED BY <2>2, <2>3, CopiesStay DEF PubSubInv
<1>2. KeptOK'
  <2>1. Restored' = Restored /\ RestoredSoFar' = RestoredSoFar
    BY DEF Restored, RestoredSoFar, PublishedSince
  <2>2. \A i \in RestoredSoFar' : Present(i)'
    BY <2>1 DEF PubSubInv, KeptOK
  <2>3. ASSUME NEW i \in put'
        PROVE  \/ Present(i)'
               \/ seeking' \in {"clearing", "restoring", "replaying"} /\ i \in Restored'
    <3>1. \/ Present(i)
          \/ seeking \in {"clearing", "restoring", "replaying"} /\ i \in Restored
      BY DEF PubSubInv, KeptOK, MessageKept, Present
    <3> QED BY <2>1, <3>1
  <2>4. MessageKept'
    BY <2>3 DEF MessageKept, Present
  <2> QED BY <2>2, <2>4 DEF KeptOK
<1>3. VersionsOK'
  <2>1. \A i \in DOMAIN listed \cap DOMAIN sub : sub[i].version \in Nat /\ listed[i].version \in Nat
    BY DEF PubSubInv, PubSubTypeOK, IsBox, Messages
  <2>2. \A i \in DOMAIN sub' : i \in DOMAIN sub /\ sub'[i].version >= sub[i].version
    BY DEF Derived
  <2>3. \A i \in DOMAIN sub' : sub'[i].version \in Nat
    BY DEF PubSubTypeOK, IsBox, Messages
  <2> QED BY <2>1, <2>2, <2>3 DEF VersionsOK, PubSubInv
<1> QED BY <1>1, <1>2, <1>3 DEF PubSubInv

LEMMA DerivedSame ==
    ASSUME NEW b, IsBox(b)
    PROVE  Derived(b, b)
<1>1. \A i \in DOMAIN b : b[i].version \in Nat
  BY DEF IsBox, Messages
<1> QED BY <1>1 DEF Derived

\* The history names the messages it has entries of.
LEMMA EntryId ==
    ASSUME NEW S, NEW i, NEW k, <<i, k>> \in S
    PROVE  i \in {e[1] : e \in S}
<1>1. <<i, k>>[1] = i
  OBVIOUS
<1> QED BY <1>1

\* Nothing that is present goes missing: what leaves the subscription is
\* settled, and what a pull gives up is in the dead-letter subscriptions or settled.
LEMMA PresentStays ==
    ASSUME \A i \in DOMAIN sub \ DOMAIN sub' :
                \/ i \in {e[1] : e \in settled'}
                \/ \E c \in Clients : pc'[c] = "forwarding" /\ arg'[c].id = i,
           settled \subseteq settled', DOMAIN dead \subseteq DOMAIN dead',
           \A j \in DOMAIN dead : dead'[j] = dead[j],
           \A c \in Clients : pc[c] = "forwarding" =>
                \/ pc'[c] = "forwarding" /\ arg'[c].id = arg[c].id
                \/ \E j \in DOMAIN dead' : dead'[j].src = arg[c].id
                \/ arg[c].id \in {e[1] : e \in settled'}
    PROVE  \A i : Present(i) => Present(i)'
<1> SUFFICES ASSUME NEW i, Present(i) PROVE Present(i)'
  OBVIOUS
<1>1. CASE i \in DOMAIN sub
  BY <1>1 DEF Present
<1>2. CASE i \in {e[1] : e \in settled}
  BY <1>2 DEF Present
<1>3. CASE \E c \in Clients : pc[c] = "forwarding" /\ arg[c].id = i
  BY <1>3 DEF Present
<1>4. CASE \E j \in DOMAIN dead : dead[j].src = i
  BY <1>4 DEF Present
<1> QED BY <1>1, <1>2, <1>3, <1>4 DEF Present

-----------------------------------------------------------------------------
(* The steps of clients and publishers *)

LEMMA TickInv ==
    ASSUME PubSubInv, Tick
    PROVE  PubSubInv'
<1> USE DEF Tick, clientVars, seekVars
<1>1. PubSubTypeOK'
  BY PubSubAssumption DEF PubSubInv, PubSubTypeOK
<1>2. ForwardOK'
  BY DEF PubSubInv, ForwardOK
<1>3. Derived(sub', sub)
  BY DerivedSame DEF PubSubInv, PubSubTypeOK
<1>4. \A i : Present(i) => Present(i)'
  BY PresentStays
<1>5. seq' >= seq /\ now' >= now
  BY DEF PubSubInv, PubSubTypeOK
<1> QED BY <1>1, <1>2, <1>3, <1>4, <1>5, ClientStepInv

LEMMA SubscriptionPullInv ==
    ASSUME PubSubInv, NEW c \in Clients, SubscriptionPull(c)
    PROVE  PubSubInv'
<1> USE DEF seekVars
<1> DEFINE C == Claimed(sub, MaxMessages, Retention, now)
           L == Lapsed(sub, MaxMessages, Retention, now)
<1>1. PubSubTypeOK
  BY DEF PubSubInv
<1>2. /\ pc[c] = "idle"
      /\ sub' = AfterPull(sub, MaxMessages, AckDeadline, Retention, now)
      /\ settled' = settled \cup Entries(L)
      /\ batch' = [batch EXCEPT ![c] = [i \in C |-> sub'[i]]]
      /\ pc' = [pc EXCEPT ![c] = IF C = {} THEN "idle" ELSE "handling"]
      /\ UNCHANGED <<now, seq, dead, publisherVars, put, arg, issued, seekVars>>
  BY DEF SubscriptionPull
<1>3. /\ IsBox(sub') /\ Derived(sub', sub) /\ DOMAIN sub' = DOMAIN sub \ L
      /\ C \subseteq DOMAIN sub' /\ L \subseteq DOMAIN sub
  <2>1. AckDeadline \in Nat /\ now \in Nat /\ IsBox(sub)
    BY <1>1, PubSubAssumption DEF PubSubTypeOK
  <2> QED BY <1>2, <2>1, PullBox
<1> HIDE DEF C, L
<1>4. IsBox([i \in C |-> sub'[i]]) /\ Copies([i \in C |-> sub'[i]]) \subseteq Copies(sub)
  BY <1>3, PartBox, DerivedCopies
<1>5. settled' \subseteq Ids \X (Keys \cup {NoKey})
  BY <1>1, <1>2, <1>3 DEF PubSubTypeOK, Entries, IsBox, Messages
<1>6. PubSubTypeOK'
  BY <1>1, <1>2, <1>3, <1>4, <1>5 DEF PubSubTypeOK
<1>7. ForwardOK'
  BY <1>1, <1>2 DEF PubSubInv, ForwardOK, PubSubTypeOK
<1>8. \A d \in Clients : Copies(batch'[d]) \subseteq Copies(sub) \cup Copies(batch[d])
  BY <1>1, <1>2, <1>4 DEF PubSubTypeOK
<1>9. \A i : Present(i) => Present(i)'
  <2>1. \A i \in DOMAIN sub \ DOMAIN sub' : i \in {e[1] : e \in settled'}
    <3>1. \A i \in L : <<i, sub[i].key>> \in settled'
      BY <1>2 DEF Entries
    <3> QED BY <1>3, <3>1, EntryId
  <2>2. \A d \in Clients : pc[d] = "forwarding" => pc'[d] = "forwarding" /\ arg'[d].id = arg[d].id
    BY <1>1, <1>2 DEF PubSubTypeOK
  <2> QED BY <1>2, <2>1, <2>2, PresentStays
<1>10. seq' >= seq /\ now' >= now
  BY <1>1, <1>2 DEF PubSubTypeOK
<1> QED BY <1>2, <1>3, <1>6, <1>7, <1>8, <1>9, <1>10, ClientStepInv

LEMMA PullFilteredInv ==
    ASSUME PubSubInv, NEW c \in Clients, NEW i \in DOMAIN batch[c], PullFiltered(c, i)
    PROVE  PubSubInv'
<1> USE DEF seekVars
<1>1. PubSubTypeOK
  BY DEF PubSubInv
<1>2. /\ pc[c] = "handling"
      /\ sub' = AfterRemove(sub, {i})
      /\ settled' = settled \cup Entries({i} \cap DOMAIN sub)
      /\ batch' = [batch EXCEPT ![c] = AfterRemove(@, {i})]
      /\ UNCHANGED <<now, seq, dead, publisherVars, put, pc, arg, issued, seekVars>>
  BY DEF PullFiltered, Handling
<1>3. IsBox(sub') /\ Derived(sub', sub) /\ DOMAIN sub' = DOMAIN sub \ {i}
  BY <1>1, <1>2, RemoveBox DEF PubSubTypeOK
<1>4. IsBox(AfterRemove(batch[c], {i})) /\ Derived(AfterRemove(batch[c], {i}), batch[c])
  BY <1>1, RemoveBox DEF PubSubTypeOK
<1>5. settled' \subseteq Ids \X (Keys \cup {NoKey})
  BY <1>1, <1>2 DEF PubSubTypeOK, Entries, IsBox, Messages
<1>6. PubSubTypeOK'
  BY <1>1, <1>2, <1>3, <1>4, <1>5 DEF PubSubTypeOK
<1>7. ForwardOK'
  BY <1>1, <1>2 DEF PubSubInv, ForwardOK, PubSubTypeOK
<1>8. \A d \in Clients : Copies(batch'[d]) \subseteq Copies(sub) \cup Copies(batch[d])
  BY <1>1, <1>2, <1>4, DerivedCopies DEF PubSubTypeOK
<1>9. \A j : Present(j) => Present(j)'
  <2>1. \A j \in DOMAIN sub \ DOMAIN sub' : j \in {e[1] : e \in settled'}
    <3>1. \A j \in {i} \cap DOMAIN sub : <<j, sub[j].key>> \in settled'
      BY <1>2 DEF Entries
    <3> QED BY <1>3, <3>1, EntryId
  <2> QED BY <1>2, <2>1, PresentStays
<1>10. seq' >= seq /\ now' >= now
  BY <1>1, <1>2 DEF PubSubTypeOK
<1> QED BY <1>2, <1>3, <1>6, <1>7, <1>8, <1>9, <1>10, ClientStepInv

LEMMA PullExhaustedInv ==
    ASSUME PubSubInv, NEW c \in Clients, NEW i \in DOMAIN batch[c], PullExhausted(c, i)
    PROVE  PubSubInv'
<1> USE DEF seekVars
<1>1. PubSubTypeOK
  BY DEF PubSubInv
<1>2. /\ pc[c] = "handling"
      /\ sub' = AfterRemove(sub, {i})
      /\ pc' = [pc EXCEPT ![c] = "forwarding"] /\ arg' = [arg EXCEPT ![c].id = i]
      /\ UNCHANGED <<now, seq, dead, publisherVars, put, batch, issued, seekVars, settled>>
  BY DEF PullExhausted, Handling
<1>3. IsBox(sub') /\ Derived(sub', sub) /\ DOMAIN sub' = DOMAIN sub \ {i}
  BY <1>1, <1>2, RemoveBox DEF PubSubTypeOK
<1>4. /\ \A d \in Clients \ {c} : arg'[d] = arg[d] /\ pc'[d] = pc[d]
      /\ arg'[c].id = i /\ pc'[c] = "forwarding"
  BY <1>1, <1>2 DEF PubSubTypeOK
<1>5. i \in Nat
  BY <1>1, IdsNat DEF PubSubTypeOK, IsBox
<1>6. PubSubTypeOK'
  BY <1>1, <1>2, <1>3, <1>5 DEF PubSubTypeOK
<1>7. ForwardOK'
  BY <1>2, <1>4 DEF PubSubInv, ForwardOK
<1>8. \A j : Present(j) => Present(j)'
  <2>1. \A d \in Clients : pc[d] = "forwarding" => pc'[d] = "forwarding" /\ arg'[d].id = arg[d].id
    BY <1>2, <1>4
  <2> QED BY <1>2, <1>3, <1>4, <2>1, PresentStays
<1>9. seq' >= seq /\ now' >= now
  BY <1>1, <1>2 DEF PubSubTypeOK
<1> QED BY <1>2, <1>3, <1>6, <1>7, <1>8, <1>9, ClientStepInv

\* The data of a message is that of the one published with its id.
LEMMA StoredSrc ==
    ASSUME PubSubInv, NEW b, Copies(b) \subseteq StoredCopies, NEW i \in DOMAIN b
    PROVE  b[i].src = i /\ i \in 1..seq
<1> DEFINE x == <<i, b[i].key, b[i].at, b[i].src>>
<1>1. x \in StoredCopies
  BY CopyOf
<1>2. x[1] \in 1..seq /\ x[4] = x[1]
  BY <1>1, PubSubAssumption DEF PubSubInv, CopiesOK
<1> QED BY <1>2

LEMMA ForwardedIsMessage ==
    ASSUME NEW m \in Messages, now \in Nat
    PROVE  /\ ForwardedMessage(m) \in Messages
           /\ ForwardedMessage(m).src = m.src /\ ForwardedMessage(m).key = m.key
BY DEF ForwardedMessage, Messages

\* What a pull hands to the dead-letter topic: a copy of the message, or nothing.
LEMMA Forwarded ==
    ASSUME PubSubInv, NEW c \in Clients, PullForward(c), NEW i, i = arg[c].id
    PROVE  /\ i \in DOMAIN batch[c] /\ i \in Ids /\ batch[c][i].key \in Keys \cup {NoKey}
           /\ IsBox(dead') /\ DOMAIN dead \subseteq DOMAIN dead'
           /\ DOMAIN dead' \subseteq DOMAIN dead \cup {seq + 1}
           /\ \A j \in DOMAIN dead : dead'[j] = dead[j]
           /\ settled \subseteq settled'
           /\ settled' \subseteq settled \cup {<<i, batch[c][i].key>>}
           /\ \/ \E j \in DOMAIN dead' : dead'[j].src = i /\ dead'[j].key = batch[c][i].key
              \/ <<i, batch[c][i].key>> \in settled'
<1>1. PubSubTypeOK /\ IsBox(dead) /\ pc[c] = "forwarding" /\ seq < MaxId
  BY DEF PubSubInv, PubSubTypeOK, PullForward
<1>2. i \in DOMAIN batch[c]
  BY <1>1 DEF PubSubInv, ForwardOK
<1>3. i \in Ids /\ batch[c][i].key \in Keys \cup {NoKey} /\ batch[c][i] \in Messages
  BY <1>1, <1>2 DEF PubSubTypeOK, IsBox, Messages
<1>4. CASE ~HasDeadSub
  BY <1>1, <1>2, <1>3, <1>4 DEF PullForward
<1>5. CASE HasDeadSub
  <2>1. PICK m : m = ForwardedMessage(batch[c][i])
    OBVIOUS
  <2>2. dead' = AfterPut(dead, seq + 1, m) /\ settled' = settled
    BY <1>5, <2>1 DEF PullForward
  <2>3. m \in Messages /\ m.src = i /\ m.key = batch[c][i].key
    <3>1. Copies(batch[c]) \subseteq StoredCopies
      BY DEF StoredCopies
    <3>2. batch[c][i].src = i
      BY <1>2, <3>1, StoredSrc
    <3>3. now \in Nat
      BY <1>1 DEF PubSubTypeOK
    <3> QED BY <1>3, <2>1, <3>2, <3>3, ForwardedIsMessage
  <2>4. seq + 1 \in Ids /\ seq + 1 \notin DOMAIN dead
    <3>1. seq \in Nat /\ seq < MaxId /\ MaxId \in Nat
      BY <1>1, PubSubStoreAssumption, SMT DEF PubSubTypeOK
    <3> QED BY <1>1, <3>1 DEF PubSubTypeOK, Ids
  <2>5. /\ IsBox(AfterPut(dead, seq + 1, m))
        /\ DOMAIN AfterPut(dead, seq + 1, m) = DOMAIN dead \cup {seq + 1}
        /\ AfterPut(dead, seq + 1, m)[seq + 1] = m
        /\ \A j \in DOMAIN dead \ {seq + 1} : AfterPut(dead, seq + 1, m)[j] = dead[j]
    <3>1. PICK n : n = seq + 1
      OBVIOUS
    <3>2. IsBox(dead) /\ n \in Ids /\ m \in Messages
      BY <1>1, <2>3, <2>4, <3>1
    <3>3. /\ IsBox(AfterPut(dead, n, m)) /\ DOMAIN AfterPut(dead, n, m) = DOMAIN dead \cup {n}
          /\ AfterPut(dead, n, m)[n] = m
          /\ \A j \in DOMAIN dead \ {n} : AfterPut(dead, n, m)[j] = dead[j]
      BY <3>2, PutBox
    <3> QED BY <3>1, <3>3
  <2>6. /\ IsBox(dead') /\ DOMAIN dead' = DOMAIN dead \cup {seq + 1}
        /\ dead'[seq + 1] = m /\ \A j \in DOMAIN dead : dead'[j] = dead[j]
    BY <2>2, <2>4, <2>5
  <2> QED BY <1>2, <1>3, <2>2, <2>3, <2>6
<1> QED BY <1>4, <1>5

LEMMA PullForwardInv ==
    ASSUME PubSubInv, NEW c \in Clients, PullForward(c)
    PROVE  PubSubInv'
<1> USE DEF seekVars
<1>1. PubSubTypeOK
  BY DEF PubSubInv
<1>2. PICK i : i = arg[c].id
  OBVIOUS
<1>3. /\ pc[c] = "forwarding" /\ seq < MaxId /\ seq' = seq + 1
      /\ batch' = [batch EXCEPT ![c] = AfterRemove(@, {i})]
      /\ pc' = [pc EXCEPT ![c] = "handling"] /\ arg' = [arg EXCEPT ![c] = NoArg]
      /\ UNCHANGED <<now, sub, publisherVars, put, issued, seekVars>>
  BY <1>2 DEF PullForward
<1>4. /\ i \in DOMAIN batch[c] /\ i \in Ids /\ batch[c][i].key \in Keys \cup {NoKey}
      /\ IsBox(dead') /\ DOMAIN dead \subseteq DOMAIN dead'
      /\ DOMAIN dead' \subseteq DOMAIN dead \cup {seq + 1}
      /\ \A j \in DOMAIN dead : dead'[j] = dead[j]
      /\ settled \subseteq settled'
      /\ settled' \subseteq settled \cup {<<i, batch[c][i].key>>}
      /\ \/ \E j \in DOMAIN dead' : dead'[j].src = i /\ dead'[j].key = batch[c][i].key
         \/ <<i, batch[c][i].key>> \in settled'
  BY <1>2, Forwarded
<1>5. /\ seq' \in 0..MaxId /\ seq' >= seq /\ now' >= now
      /\ DOMAIN sub' \cup DOMAIN dead' \subseteq 1..seq'
  <2>1. seq \in Nat /\ now \in Nat /\ MaxId \in Nat /\ DOMAIN sub \cup DOMAIN dead \subseteq 1..seq
    BY <1>1, PubSubStoreAssumption DEF PubSubTypeOK
  <2>2. 1..seq \subseteq 1..seq' /\ seq + 1 \in 1..seq'
    BY <1>3, <2>1
  <2>3. DOMAIN sub' \cup DOMAIN dead' \subseteq 1..seq'
    BY <1>3, <1>4, <2>1, <2>2
  <2> QED BY <1>3, <2>1, <2>3
<1>6. settled' \subseteq Ids \X (Keys \cup {NoKey})
  BY <1>1, <1>4 DEF PubSubTypeOK
<1>7. IsBox(AfterRemove(batch[c], {i})) /\ Derived(AfterRemove(batch[c], {i}), batch[c])
  BY <1>1, RemoveBox DEF PubSubTypeOK
<1>8. PubSubTypeOK'
  BY <1>1, <1>3, <1>4, <1>5, <1>6, <1>7 DEF PubSubTypeOK, NoArg
<1>9. ForwardOK'
  BY <1>1, <1>3 DEF PubSubInv, ForwardOK, PubSubTypeOK
<1>10. \A d \in Clients : Copies(batch'[d]) \subseteq Copies(sub) \cup Copies(batch[d])
  BY <1>1, <1>3, <1>7, DerivedCopies DEF PubSubTypeOK
<1>11. \A j : Present(j) => Present(j)'
  <2>1. \/ \E j \in DOMAIN dead' : dead'[j].src = i
        \/ i \in {e[1] : e \in settled'}
    BY <1>4, EntryId
  <2>2. \A d \in Clients : pc[d] = "forwarding" =>
                \/ pc'[d] = "forwarding" /\ arg'[d].id = arg[d].id
                \/ \E j \in DOMAIN dead' : dead'[j].src = arg[d].id
                \/ arg[d].id \in {e[1] : e \in settled'}
    BY <1>1, <1>2, <1>3, <2>1 DEF PubSubTypeOK
  <2> QED BY <1>3, <1>4, <2>2, PresentStays
<1>12. Derived(sub', sub)
  BY <1>1, <1>3, DerivedSame DEF PubSubTypeOK
<1> QED BY <1>3, <1>5, <1>8, <1>9, <1>10, <1>11, <1>12, ClientStepInv

\* A step that leaves the subscriptions alone and does not begin or end the
\* forwarding of a message.
LEMMA LocalStepInv ==
    ASSUME PubSubInv, PubSubTypeOK',
           \A c \in Clients : pc'[c] = "forwarding" <=> pc[c] = "forwarding",
           \A c \in Clients : pc[c] = "forwarding" => arg'[c] = arg[c] /\ batch'[c] = batch[c],
           \A c \in Clients : batch'[c] = batch[c] \/ batch'[c] = EmptyBox,
           UNCHANGED <<now, seq, sub, dead, publisherVars, put, seekVars, settled>>
    PROVE  PubSubInv'
<1> USE DEF seekVars
<1>1. ForwardOK'
  BY DEF PubSubInv, ForwardOK
<1>2. Derived(sub', sub)
  BY DerivedSame DEF PubSubInv, PubSubTypeOK
<1>3. \A c \in Clients : Copies(batch'[c]) \subseteq Copies(sub) \cup Copies(batch[c])
  BY EmptyCopies
<1>4. \A i : Present(i) => Present(i)'
  BY PresentStays
<1>5. seq' >= seq /\ now' >= now
  BY DEF PubSubInv, PubSubTypeOK
<1> QED BY <1>1, <1>2, <1>3, <1>4, <1>5, ClientStepInv

LEMMA PullAnswersInv ==
    ASSUME PubSubInv, NEW c \in Clients, PullAnswers(c) \/ PullFails(c)
    PROVE  PubSubInv'
<1> USE DEF seekVars
<1>1. PubSubTypeOK
  BY DEF PubSubInv
<1>2. /\ pc[c] = "handling"
      /\ batch' = [batch EXCEPT ![c] = EmptyBox] /\ pc' = [pc EXCEPT ![c] = "idle"]
      /\ UNCHANGED <<now, seq, sub, dead, publisherVars, put, arg, seekVars, settled>>
  BY DEF PullAnswers, PullFails
<1>3. issued' \subseteq AckIds
  <2>1. CASE issued' = issued
    BY <1>1, <2>1 DEF PubSubTypeOK
  <2>2. CASE issued' = issued \cup {<<i, batch[c][i].version>> : i \in DOMAIN batch[c]}
    <3>1. \A i \in DOMAIN batch[c] : i \in Ids /\ batch[c][i].version \in Nat
      BY <1>1 DEF PubSubTypeOK, IsBox, Messages
    <3> QED BY <1>1, <2>2, <3>1 DEF PubSubTypeOK, AckIds
  <2> QED BY <2>1, <2>2 DEF PullAnswers, PullFails
<1>4. PubSubTypeOK'
  BY <1>1, <1>2, <1>3, EmptyBoxIsBox DEF PubSubTypeOK
<1>5. /\ \A d \in Clients : pc'[d] = "forwarding" <=> pc[d] = "forwarding"
      /\ \A d \in Clients : pc[d] = "forwarding" => arg'[d] = arg[d] /\ batch'[d] = batch[d]
      /\ \A d \in Clients : batch'[d] = batch[d] \/ batch'[d] = EmptyBox
  BY <1>1, <1>2 DEF PubSubTypeOK
<1> QED BY <1>2, <1>4, <1>5, LocalStepInv

LEMMA CheckedInv ==
    ASSUME PubSubInv, NEW c \in Clients, NEW a \in issued, NEW s \in Nat,
           AckChecked(c, a[1], a[2]) \/ ModAckChecked(c, a[1], a[2], s)
    PROVE  PubSubInv'
<1> USE DEF seekVars
<1>1. PubSubTypeOK
  BY DEF PubSubInv
<1>2. /\ pc[c] = "idle"
      /\ \E w \in {"acking", "modifying"} : pc' = [pc EXCEPT ![c] = w]
      /\ \E n \in {0, s} : arg' = [arg EXCEPT ![c] = [id |-> a[1], seconds |-> n, at |-> now]]
      /\ UNCHANGED <<now, seq, sub, dead, publisherVars, put, batch, issued, seekVars, settled>>
  BY DEF AckChecked, ModAckChecked
<1>3. a[1] \in Nat /\ s \in Nat /\ now \in Nat
  BY <1>1, IdsNat, PubSubAssumption DEF PubSubTypeOK, AckIds
<1>4. PubSubTypeOK'
  BY <1>1, <1>2, <1>3 DEF PubSubTypeOK
<1>5. /\ \A d \in Clients : pc'[d] = "forwarding" <=> pc[d] = "forwarding"
      /\ \A d \in Clients : pc[d] = "forwarding" => arg'[d] = arg[d] /\ batch'[d] = batch[d]
  BY <1>1, <1>2 DEF PubSubTypeOK
<1> QED BY <1>2, <1>4, <1>5, LocalStepInv

\* An ack or a new deadline reaches the store.
LEMMA AppliedInv ==
    ASSUME PubSubInv, NEW c \in Clients, AckApplied(c) \/ ModAckApplied(c)
    PROVE  PubSubInv'
<1> USE DEF seekVars
<1>1. PubSubTypeOK
  BY DEF PubSubInv
<1>2. /\ pc[c] # "forwarding"
      /\ pc' = [pc EXCEPT ![c] = "idle"] /\ arg' = [arg EXCEPT ![c] = NoArg]
      /\ settled' = settled \cup Entries(DOMAIN sub \ DOMAIN sub') \/ settled' = settled
      /\ UNCHANGED <<now, seq, dead, publisherVars, put, batch, issued, seekVars>>
  BY DEF AckApplied, ModAckApplied
<1>3. /\ IsBox(sub') /\ Derived(sub', sub)
      /\ DOMAIN sub' = DOMAIN sub \/ settled' = settled \cup Entries(DOMAIN sub \ DOMAIN sub')
  <2>1. CASE AckApplied(c)
    <3>1. \/ Reflagged(sub', sub)
          \/ sub' = AfterRemove(sub, {arg[c].id})
      <4>1. IsBox(sub) /\ sub' = AfterAck(sub, arg[c].id)
        BY <1>1, <2>1 DEF AckApplied, PubSubTypeOK
      <4> QED BY <4>1, AckBox
    <3>2. IsBox(sub') /\ Derived(sub', sub)
      <4>1. IsBox(sub)
        BY <1>1 DEF PubSubTypeOK
      <4>2. CASE Reflagged(sub', sub)
        BY <4>1, <4>2, ReflaggedDerived DEF Reflagged
      <4>3. CASE sub' = AfterRemove(sub, {arg[c].id})
        BY <4>1, <4>3, RemoveBox
      <4> QED BY <3>1, <4>2, <4>3
    <3> QED BY <2>1, <3>2 DEF AckApplied
  <2>2. CASE ModAckApplied(c)
    <3>1. arg[c].seconds \in Nat /\ arg[c].at \in Nat
      BY <1>1 DEF PubSubTypeOK
    <3>2. Reflagged(sub', sub)
      BY <1>1, <2>2, <3>1, ModAckBox DEF ModAckApplied, PubSubTypeOK
    <3> QED BY <1>1, <3>2, ReflaggedDerived DEF Reflagged, PubSubTypeOK
  <2> QED BY <2>1, <2>2
<1>4. settled' \subseteq Ids \X (Keys \cup {NoKey})
  BY <1>1, <1>2 DEF PubSubTypeOK, Entries, IsBox, Messages
<1>5. DOMAIN sub' \subseteq DOMAIN sub
  BY <1>3 DEF Derived
<1>6. PubSubTypeOK'
  BY <1>1, <1>2, <1>3, <1>4, <1>5 DEF PubSubTypeOK, NoArg
<1>7. ForwardOK'
  BY <1>1, <1>2 DEF PubSubInv, ForwardOK, PubSubTypeOK
<1>8. \A j : Present(j) => Present(j)'
  <2>1. \A j \in DOMAIN sub \ DOMAIN sub' : j \in {e[1] : e \in settled'}
    <3>1. \A j \in DOMAIN sub \ DOMAIN sub' : <<j, sub[j].key>> \in settled'
      BY <1>3 DEF Entries
    <3> QED BY <3>1, EntryId
  <2>2. \A d \in Clients : pc[d] = "forwarding" => pc'[d] = "forwarding" /\ arg'[d].id = arg[d].id
    BY <1>1, <1>2 DEF PubSubTypeOK
  <2> QED BY <1>2, <2>1, <2>2, PresentStays
<1>9. seq' >= seq /\ now' >= now
  BY <1>1, <1>2 DEF PubSubTypeOK
<1> QED BY <1>2, <1>3, <1>6, <1>7, <1>8, <1>9, ClientStepInv

\* A message of a publish request.
LEMMA NewMessageOK ==
    ASSUME PubSubTypeOK, NEW p \in Publishers, seq < MaxPublished,
           NEW m, m = NewMessage(seq + 1, drawing[p])
    PROVE  /\ m \in Messages /\ m.key = drawing[p].key /\ m.at = drawing[p].at /\ m.src = seq + 1
           /\ ~m.acked /\ ~m.held
           /\ seq + 1 \in Ids /\ seq \in Nat /\ seq + 1 \in 0..MaxId
<1>1. seq \in Nat /\ seq + 1 <= MaxId /\ MaxId \in Nat
  BY PubSubAssumption, PubSubStoreAssumption, SMT DEF PubSubTypeOK
<1>2. seq + 1 \in Ids /\ seq + 1 \in 0..MaxId
  BY <1>1 DEF Ids
<1>3. drawing[p].key \in Keys \cup {NoKey} /\ drawing[p].at \in Nat /\ drawing[p].match \in BOOLEAN
  BY DEF PubSubTypeOK
<1>4. PICK r : r = drawing[p]
  OBVIOUS
<1> QED BY <1>1, <1>2, <1>3, <1>4 DEF NewMessage, Messages

\* The types of a copy.
LEMMA CopyTypes ==
    ASSUME PubSubInv, NEW x \in StoredCopies \cup FreshCopies
    PROVE  x[1] \in Nat /\ x[1] <= seq /\ x[3] \in Nat /\ x[3] <= now /\ x[4] = x[1]
<1>1. ASSUME NEW b, IsBox(b), NEW y \in Copies(b) PROVE y[3] \in Nat
  BY <1>1 DEF IsBox, Messages, Copies
<1>2. x[3] \in Nat
  BY <1>1 DEF StoredCopies, FreshCopies, PubSubTypeOK, PubSubInv
<1>3. seq \in Nat /\ FirstSeq \in Nat
  BY PubSubAssumption DEF PubSubInv, PubSubTypeOK
<1> QED BY <1>2, <1>3 DEF PubSubInv, CopiesOK

\* A step of a request that has not put anything yet.
LEMMA PublisherStepInv ==
    ASSUME PubSubInv, PubSubTypeOK', CopiesOK', TimesOK',
           UNCHANGED <<sub, dead, clientVars, seekVars, put, settled>>
    PROVE  PubSubInv'
<1> USE DEF clientVars, seekVars
<1>1. ForwardOK'
  BY DEF PubSubInv, ForwardOK
<1>2. KeptOK'
  BY DEF PubSubInv, KeptOK, MessageKept, Present, Restored, RestoredSoFar, PublishedSince
<1>3. VersionsOK'
  BY DEF VersionsOK, PubSubInv
<1> QED BY <1>1, <1>2, <1>3 DEF PubSubInv

LEMMA TopicPublishInv ==
    ASSUME PubSubInv, NEW p \in Publishers, NEW n \in 1..BatchSize,
           NEW k \in Keys \cup {NoKey}, NEW m \in Matches, TopicPublish(p, n, k, m)
    PROVE  PubSubInv'
<1> USE DEF clientVars, seekVars
<1>1. PubSubTypeOK
  BY DEF PubSubInv
<1>2. /\ drawing' = [drawing EXCEPT ![p] = [left |-> n, at |-> now, key |-> k, match |-> m]]
      /\ UNCHANGED <<now, seq, sub, dead, publishing, clientVars, seekVars, put, settled>>
  BY DEF TopicPublish
<1>3. n \in Nat /\ now \in Nat /\ m \in BOOLEAN
  BY <1>1, PubSubAssumption DEF PubSubTypeOK
<1>4. /\ drawing'[p].at = now
      /\ \A q \in Publishers \ {p} : drawing'[q] = drawing[q]
  BY <1>1, <1>2 DEF PubSubTypeOK
<1>5. PubSubTypeOK'
  BY <1>1, <1>2, <1>3 DEF PubSubTypeOK
<1>6. StoredCopies' = StoredCopies /\ FreshCopies' = FreshCopies
  BY <1>2 DEF StoredCopies, FreshCopies
<1>7. CopiesOK'
  BY <1>2, <1>6 DEF CopiesOK, PubSubInv
<1>8. TimesOK'
  <2>1. \A q \in Publishers : drawing'[q].at <= now'
    BY <1>2, <1>3, <1>4 DEF TimesOK, PubSubInv
  <2>2. \A x \in StoredCopies \cup FreshCopies : x[3] <= now
    BY DEF CopiesOK, PubSubInv
  <2>3. \A q \in Publishers : q # p => drawing'[q] = drawing[q]
    BY <1>4
  <2>4. OnePublisher => \A q \in Publishers : drawing'[q].left > 0 =>
            \A x \in StoredCopies \cup FreshCopies : x[3] <= drawing'[q].at
    BY <1>4, <2>2, <2>3 DEF TimesOK, PubSubInv
  <2> QED BY <1>6, <2>1, <2>4 DEF TimesOK, PubSubInv
<1> QED BY <1>2, <1>5, <1>7, <1>8, PublisherStepInv

LEMMA PublishDrawInv ==
    ASSUME PubSubInv, NEW p \in Publishers, PublishDraw(p)
    PROVE  PubSubInv'
<1> USE DEF clientVars, seekVars
<1>1. PubSubTypeOK
  BY DEF PubSubInv
<1>2. PICK m : m = NewMessage(seq + 1, drawing[p])
  OBVIOUS
<1>3. PICK b : b = AfterPut(publishing[p], seq + 1, m)
  OBVIOUS
<1>4. /\ drawing[p].left > 0 /\ seq < MaxPublished /\ seq' = seq + 1
      /\ publishing' = [publishing EXCEPT ![p] = b]
      /\ drawing' = [drawing EXCEPT ![p] = AfterDraw(@)]
      /\ UNCHANGED <<now, sub, dead, clientVars, seekVars, put, settled>>
  BY <1>2, <1>3 DEF PublishDraw
<1>5. /\ m \in Messages /\ m.key = drawing[p].key /\ m.at = drawing[p].at /\ m.src = seq + 1
      /\ seq + 1 \in Ids /\ seq \in Nat /\ seq + 1 \in 0..MaxId
  BY <1>1, <1>2, <1>4, NewMessageOK
<1> DEFINE x0 == <<seq + 1, m.key, m.at, m.src>>
<1>6. IsBox(b) /\ DOMAIN b = DOMAIN publishing[p] \cup {seq + 1}
      /\ Copies(b) \subseteq Copies(publishing[p]) \cup {x0}
  <2>1. IsBox(publishing[p])
    BY <1>1 DEF PubSubTypeOK
  <2> QED BY <1>3, <1>5, <2>1, PutBox, PutCopies
<1>7. /\ publishing'[p] = b /\ DOMAIN publishing' = Publishers
      /\ \A q \in Publishers \ {p} : publishing'[q] = publishing[q]
      /\ \A q \in Publishers \ {p} : drawing'[q] = drawing[q]
      /\ drawing'[p] = AfterDraw(drawing[p])
  BY <1>1, <1>4 DEF PubSubTypeOK
<1>8. /\ drawing'[p] \in [left : Nat, at : Nat, key : Keys \cup {NoKey}, match : BOOLEAN]
      /\ drawing'[p].at <= now /\ (drawing'[p].left > 0 => drawing'[p].at = drawing[p].at)
  <2>1. PICK r : r = drawing[p]
    OBVIOUS
  <2>2. /\ r \in [left : Nat, at : Nat, key : Keys \cup {NoKey}, match : BOOLEAN]
        /\ r.left > 0 /\ r.at <= now /\ now \in Nat
    BY <1>1, <1>4, <2>1 DEF PubSubTypeOK, PubSubInv, TimesOK
  <2>3. /\ AfterDraw(r) \in [left : Nat, at : Nat, key : Keys \cup {NoKey}, match : BOOLEAN]
        /\ AfterDraw(r).at <= now /\ (AfterDraw(r).left > 0 => AfterDraw(r).at = r.at)
    BY <2>2 DEF AfterDraw, NoRequest
  <2> QED BY <1>7, <2>1, <2>3
<1>9. PubSubTypeOK'
  <2>1. 1..seq \subseteq 1..seq' /\ seq' \in 0..MaxId
    BY <1>4, <1>5
  <2>2. DOMAIN sub' \cup DOMAIN dead' \subseteq 1..seq'
    BY <1>1, <1>4, <2>1 DEF PubSubTypeOK
  <2>3. \A q \in Publishers : IsBox(publishing'[q])
    BY <1>1, <1>6, <1>7 DEF PubSubTypeOK
  <2>4. drawing' \in [Publishers -> [left : Nat, at : Nat, key : Keys \cup {NoKey}, match : BOOLEAN]]
    BY <1>1, <1>4, <1>7, <1>8 DEF PubSubTypeOK
  <2> QED BY <1>1, <1>4, <1>7, <2>1, <2>2, <2>3, <2>4 DEF PubSubTypeOK
<1> DEFINE Old == StoredCopies \cup FreshCopies
<1>10. /\ StoredCopies' = StoredCopies /\ FreshCopies' \subseteq FreshCopies \cup {x0}
  BY <1>4, <1>6, <1>7 DEF StoredCopies, FreshCopies
<1>11. /\ x0[1] = seq + 1 /\ x0[3] = drawing[p].at /\ x0[4] = seq + 1
       /\ x0[3] \in Nat /\ x0[3] <= now
  <2>1. drawing[p].at \in Nat /\ drawing[p].at <= now
    BY <1>1 DEF PubSubTypeOK, PubSubInv, TimesOK
  <2> QED BY <1>5, <2>1
<1> HIDE DEF x0
<1>12. \A x \in Old : /\ x[1] \in FirstSeq + 1 .. seq /\ x[1] \in Nat /\ x[1] <= seq
                      /\ x[3] \in Nat /\ x[3] <= now /\ x[4] = x[1]
  BY CopyTypes DEF PubSubInv, CopiesOK
<1>13. StoredCopies' \cup FreshCopies' \subseteq Old \cup {x0}
  BY <1>10
<1>14. CopiesOK'
  <2>1. FirstSeq \in Nat /\ FirstSeq <= seq
    BY PubSubAssumption DEF PubSubInv, CopiesOK
  <2>2. \A x \in StoredCopies', y \in FreshCopies' : x[1] # y[1]
    <3>1. \A x \in StoredCopies, y \in FreshCopies : x[1] # y[1]
      BY DEF PubSubInv, CopiesOK
    <3>2. \A x \in StoredCopies : x[1] # x0[1]
      BY <1>5, <1>11, <1>12
    <3> QED BY <1>10, <3>1, <3>2
  <2>3. \A q \in Publishers : seq + 1 \notin DOMAIN publishing[q]
    <3> SUFFICES ASSUME NEW q \in Publishers, seq + 1 \in DOMAIN publishing[q] PROVE FALSE
      OBVIOUS
    <3>1. PICK i : i = seq + 1
      OBVIOUS
    <3> DEFINE x == <<i, publishing[q][i].key, publishing[q][i].at, publishing[q][i].src>>
    <3>2. x \in FreshCopies /\ x[1] = seq + 1
      BY <3>1, CopyOf DEF FreshCopies
    <3> HIDE DEF x
    <3> QED BY <1>5, <1>12, <3>2
  <2>4. \A q, r \in Publishers : q # r => DOMAIN publishing'[q] \cap DOMAIN publishing'[r] = {}
    BY <1>6, <1>7, <2>3 DEF PubSubInv, CopiesOK
  <2> HIDE DEF Old
  <2>5. \A x \in Old \cup {x0} : x[1] \in FirstSeq + 1 .. seq' /\ x[4] = x[1] /\ x[3] <= now'
    BY <1>4, <1>5, <1>11, <1>12, <2>1
  <2>6. \A x, y \in Old \cup {x0} : x[1] = y[1] => x[2] = y[2]
    <3>1. \A x, y \in Old : x[1] = y[1] => x[2] = y[2]
      BY DEF PubSubInv, CopiesOK, Old
    <3>2. \A x \in Old : x[1] # x0[1]
      BY <1>5, <1>11, <1>12
    <3> QED BY <3>1, <3>2
  <2>7. FirstSeq <= seq'
    BY <1>4, <1>5, <2>1
  <2> QED BY <1>13, <2>2, <2>4, <2>5, <2>6, <2>7 DEF CopiesOK
<1>15. TimesOK'
  <2>1. \A q \in Publishers : drawing'[q].at <= now'
    BY <1>4, <1>7, <1>8 DEF TimesOK, PubSubInv
  <2>2. ASSUME OnePublisher
        PROVE  /\ \A x, y \in Old \cup {x0} : x[1] <= y[1] => x[3] <= y[3]
               /\ \A q \in Publishers : drawing'[q].left > 0 =>
                    \A x \in Old \cup {x0} : x[3] <= drawing'[q].at
    <3>1. \A x, y \in Old : x[1] <= y[1] => x[3] <= y[3]
      BY <2>2 DEF TimesOK, PubSubInv
    <3>2. \A x \in Old : x[3] <= drawing[p].at
      BY <1>4, <2>2 DEF TimesOK, PubSubInv
    <3> HIDE DEF Old
    <3>3. \A x, y \in Old \cup {x0} : x[1] <= y[1] => x[3] <= y[3]
      <4>1. \A x \in Old : x[3] <= x0[3] /\ ~(x0[1] <= x[1])
        BY <1>5, <1>11, <1>12, <3>2
      <4> QED BY <1>11, <3>1, <4>1
    <3>4. \A x \in Old \cup {x0} : x[3] <= drawing[p].at
      BY <1>11, <3>2
    <3>5. \A q \in Publishers : q = p
      BY <2>2 DEF OnePublisher
    <3> QED BY <1>8, <3>3, <3>4, <3>5
  <2> QED BY <1>13, <2>1, <2>2 DEF TimesOK
<1> QED BY <1>4, <1>9, <1>14, <1>15, PublisherStepInv

LEMMA PublishFailsInv ==
    ASSUME PubSubInv, NEW p \in Publishers, PublishFails(p)
    PROVE  PubSubInv'
<1> USE DEF clientVars, seekVars
<1>1. PubSubTypeOK
  BY DEF PubSubInv
<1>2. /\ seq < MaxPublished /\ seq' = seq + 1
      /\ publishing' = [publishing EXCEPT ![p] = EmptyBox]
      /\ drawing' = [drawing EXCEPT ![p] = NoRequest]
      /\ UNCHANGED <<now, sub, dead, clientVars, seekVars, put, settled>>
  BY DEF PublishFails
<1>3. seq \in Nat /\ seq + 1 \in 0..MaxId /\ now \in Nat
  BY <1>1, <1>2, PubSubAssumption, PubSubStoreAssumption, SMT DEF PubSubTypeOK
<1>4. /\ publishing'[p] = EmptyBox /\ DOMAIN publishing' = Publishers
      /\ \A q \in Publishers \ {p} : publishing'[q] = publishing[q]
      /\ \A q \in Publishers \ {p} : drawing'[q] = drawing[q]
      /\ drawing'[p] = NoRequest
  BY <1>1, <1>2 DEF PubSubTypeOK
<1>5. PubSubTypeOK'
  <2>1. 1..seq \subseteq 1..seq' /\ seq' \in 0..MaxId
    BY <1>2, <1>3
  <2>2. DOMAIN sub' \cup DOMAIN dead' \subseteq 1..seq'
    BY <1>1, <1>2, <2>1 DEF PubSubTypeOK
  <2>3. \A q \in Publishers : IsBox(publishing'[q])
    BY <1>1, <1>4, EmptyBoxIsBox DEF PubSubTypeOK
  <2> QED BY <1>1, <1>2, <1>4, <2>1, <2>2, <2>3 DEF PubSubTypeOK, NoRequest
<1>6. StoredCopies' = StoredCopies /\ FreshCopies' \subseteq FreshCopies
  BY <1>2, <1>4, EmptyCopies DEF StoredCopies, FreshCopies
<1>7. CopiesOK'
  <2>1. \A x \in StoredCopies \cup FreshCopies :
            x[1] \in FirstSeq + 1 .. seq' /\ x[4] = x[1] /\ x[3] <= now
    BY <1>2, <1>3, PubSubAssumption DEF CopiesOK, PubSubInv
  <2>2. FirstSeq <= seq'
    BY <1>2, <1>3, PubSubAssumption DEF CopiesOK, PubSubInv
  <2>3. \A q \in Publishers : DOMAIN publishing'[q] \subseteq DOMAIN publishing[q]
    BY <1>4, EmptyBoxIsBox
  <2> QED BY <1>2, <1>6, <2>1, <2>2, <2>3 DEF CopiesOK, PubSubInv
<1>8. TimesOK'
  <2>1. \A q \in Publishers : drawing'[q].at <= now' /\ (drawing'[q].left > 0 => drawing'[q] = drawing[q])
    BY <1>2, <1>3, <1>4 DEF TimesOK, PubSubInv, NoRequest
  <2> QED BY <1>6, <2>1 DEF TimesOK, PubSubInv
<1> QED BY <1>2, <1>5, <1>7, <1>8, PublisherStepInv

\* A request that has messages left puts the one with the least id.
LEMMA NextToPutLeast ==
    ASSUME PubSubTypeOK, NEW p \in Publishers, publishing[p] # EmptyBox
    PROVE  /\ NextToPut(p) \in DOMAIN publishing[p]
           /\ \A j \in DOMAIN publishing[p] : NextToPut(p) <= j
<1>1. DOMAIN publishing[p] # {}
  BY EmptyDomain DEF PubSubTypeOK
<1>2. DOMAIN publishing[p] \in SUBSET Nat
  BY IdsNat DEF PubSubTypeOK, IsBox
<1>3. \E i \in DOMAIN publishing[p] : \A j \in DOMAIN publishing[p] : i <= j
  BY <1>1, <1>2, LeastNat
<1> QED BY <1>3 DEF NextToPut

LEMMA PublishPutInv ==
    ASSUME PubSubInv, NEW p \in Publishers, PublishPut(p)
    PROVE  PubSubInv'
<1> USE DEF clientVars, seekVars
<1> DEFINE i == NextToPut(p)
           m == publishing[p][i]
           x0 == <<i, m.key, m.at, m.src>>
<1>1. PubSubTypeOK
  BY DEF PubSubInv
<1>2. /\ publishing[p] # EmptyBox
      /\ sub' = AfterPut(sub, i, m)
      /\ publishing' = [publishing EXCEPT ![p] = AfterRemove(@, {i})] /\ put' = put \cup {i}
      /\ UNCHANGED <<now, seq, dead, drawing, clientVars, seekVars, settled>>
  BY DEF PublishPut
<1>3. i \in DOMAIN publishing[p] /\ i \in Ids /\ m \in Messages
  <2>1. i \in DOMAIN publishing[p]
    BY <1>1, <1>2, NextToPutLeast
  <2> HIDE DEF i
  <2> QED BY <1>1, <2>1 DEF PubSubTypeOK, IsBox
<1> HIDE DEF i
<1>4. x0 \in FreshCopies /\ i \in 1..seq
  <2>1. x0 \in FreshCopies
    BY <1>3, CopyOf DEF FreshCopies
  <2>2. x0[1] \in 1..seq
    BY <2>1, PubSubAssumption DEF PubSubInv, CopiesOK
  <2> QED BY <2>1, <2>2
<1> HIDE DEF m
<1>5. /\ IsBox(sub') /\ DOMAIN sub' = DOMAIN sub \cup {i} /\ sub'[i] = m
      /\ \A j \in DOMAIN sub \ {i} : sub'[j] = sub[j]
      /\ Copies(sub') \subseteq Copies(sub) \cup {x0}
  <2>1. IsBox(sub)
    BY <1>1 DEF PubSubTypeOK
  <2>2. /\ IsBox(AfterPut(sub, i, m)) /\ DOMAIN AfterPut(sub, i, m) = DOMAIN sub \cup {i}
        /\ AfterPut(sub, i, m)[i] = m
        /\ \A j \in DOMAIN sub \ {i} : AfterPut(sub, i, m)[j] = sub[j]
    BY <1>3, <2>1, PutBox
  <2>3. Copies(AfterPut(sub, i, m)) \subseteq Copies(sub) \cup {x0}
    BY <1>3, <2>1, PutCopies
  <2> HIDE DEF x0
  <2> QED BY <1>2, <2>2, <2>3
<1>6. /\ IsBox(AfterRemove(publishing[p], {i}))
      /\ Copies(AfterRemove(publishing[p], {i})) \subseteq Copies(publishing[p])
      /\ DOMAIN AfterRemove(publishing[p], {i}) = DOMAIN publishing[p] \ {i}
  <2>1. IsBox(publishing[p])
    BY <1>1 DEF PubSubTypeOK
  <2> QED BY <2>1, RemoveBox, DerivedCopies
<1>7. /\ publishing'[p] = AfterRemove(publishing[p], {i}) /\ DOMAIN publishing' = Publishers
      /\ \A q \in Publishers \ {p} : publishing'[q] = publishing[q]
  BY <1>1, <1>2 DEF PubSubTypeOK
<1>8. PubSubTypeOK'
  <2>1. DOMAIN sub' \cup DOMAIN dead' \subseteq 1..seq'
    BY <1>1, <1>2, <1>4, <1>5 DEF PubSubTypeOK
  <2>2. \A q \in Publishers : IsBox(publishing'[q])
    BY <1>1, <1>6, <1>7 DEF PubSubTypeOK
  <2> QED BY <1>1, <1>2, <1>3, <1>5, <1>7, <2>1, <2>2 DEF PubSubTypeOK
<1>9. ForwardOK'
  BY <1>2 DEF PubSubInv, ForwardOK
<1>10. \A q \in Publishers : i \notin DOMAIN publishing'[q]
  BY <1>3, <1>6, <1>7 DEF PubSubInv, CopiesOK
<1>11. CopiesOK' /\ TimesOK'
  <2>1. StoredCopies' \subseteq StoredCopies \cup {x0}
    BY <1>2, <1>5 DEF StoredCopies
  <2>2. FreshCopies' \subseteq FreshCopies
    BY <1>6, <1>7 DEF FreshCopies
  <2>3. StoredCopies' \cup FreshCopies' \subseteq StoredCopies \cup FreshCopies
    BY <1>4, <2>1, <2>2
  <2>4. \A y \in FreshCopies' : y[1] # i
    BY <1>10 DEF FreshCopies, Copies
  <2>5. \A x \in StoredCopies', y \in FreshCopies' : x[1] # y[1]
    <3>1. x0[1] = i
      OBVIOUS
    <3> HIDE DEF x0
    <3> QED BY <2>1, <2>2, <2>4, <3>1 DEF PubSubInv, CopiesOK
  <2>6. \A q, r \in Publishers : q # r => DOMAIN publishing'[q] \cap DOMAIN publishing'[r] = {}
    <3>1. \A q \in Publishers : DOMAIN publishing'[q] \subseteq DOMAIN publishing[q]
      BY <1>6, <1>7
    <3> QED BY <3>1 DEF PubSubInv, CopiesOK
  <2>7. /\ FirstSeq <= seq'
        /\ \A x \in StoredCopies' \cup FreshCopies' :
              x[1] \in FirstSeq + 1 .. seq' /\ x[4] = x[1] /\ x[3] <= now'
    BY <1>2, <2>3 DEF PubSubInv, CopiesOK
  <2>8. \A x, y \in StoredCopies' \cup FreshCopies' : x[1] = y[1] => x[2] = y[2]
    BY <2>3 DEF PubSubInv, CopiesOK
  <2>9. TimesOK'
    BY <1>2, <2>3 DEF PubSubInv, TimesOK
  <2> QED BY <2>5, <2>6, <2>7, <2>8, <2>9 DEF CopiesOK
<1>12. KeptOK'
  <2>1. \A j : Present(j) => Present(j)'
    BY <1>2, <1>5 DEF Present
  <2>2. Restored' = Restored /\ RestoredSoFar' = RestoredSoFar
    BY <1>2 DEF Restored, RestoredSoFar, PublishedSince
  <2>3. \A j : j = i => Present(j)'
    BY <1>5 DEF Present
  <2>4. ASSUME NEW j \in put'
        PROVE  \/ Present(j)'
               \/ seeking' \in {"clearing", "restoring", "replaying"} /\ j \in Restored'
    <3>1. CASE j = i
      BY <2>3, <3>1
    <3>2. CASE j # i
      <4>1. j \in put
        BY <1>2, <3>2
      <4>2. \/ Present(j)
            \/ seeking \in {"clearing", "restoring", "replaying"} /\ j \in Restored
        BY <4>1 DEF PubSubInv, KeptOK, MessageKept, Present
      <4> QED BY <1>2, <2>1, <2>2, <4>2
    <3> QED BY <3>1, <3>2
  <2>5. MessageKept'
    BY <2>4 DEF MessageKept, Present
  <2> QED BY <2>1, <2>2, <2>5 DEF KeptOK, PubSubInv
<1>13. VersionsOK'
  <2>1. i \notin DOMAIN listed
    <3> SUFFICES ASSUME i \in DOMAIN listed PROVE FALSE
      OBVIOUS
    <3> DEFINE x == <<i, listed[i].key, listed[i].at, listed[i].src>>
    <3>1. x \in StoredCopies
      BY CopyOf DEF StoredCopies
    <3>2. x[1] = x0[1]
      OBVIOUS
    <3> HIDE DEF x, x0
    <3> QED BY <1>4, <3>1, <3>2 DEF PubSubInv, CopiesOK
  <2>2. /\ DOMAIN listed' \cap DOMAIN sub' = DOMAIN listed \cap DOMAIN sub
        /\ \A j \in DOMAIN listed \cap DOMAIN sub : sub'[j] = sub[j]
    BY <1>2, <1>5, <2>1
  <2> QED BY <1>2, <2>2 DEF VersionsOK, PubSubInv
<1> QED BY <1>8, <1>9, <1>11, <1>12, <1>13 DEF PubSubInv

-----------------------------------------------------------------------------
(* The steps of a seek *)

\* A seek to a snapshot is going to put messages back.
PutsBack == seeking \in {"clearing", "restoring", "replaying"}

LEMMA FirstIn ==
    ASSUME NEW b, IsBox(b), b # EmptyBox
    PROVE  First(b) \in DOMAIN b
BY FirstExists DEF First

LEMMA PublishedSinceBox ==
    ASSUME NEW b, IsBox(b), NEW t \in Nat
    PROVE  /\ IsBox(PublishedSince(b, t)) /\ Copies(PublishedSince(b, t)) \subseteq Copies(b)
           /\ DOMAIN PublishedSince(b, t) = {j \in DOMAIN b : b[j].at >= t}
<1>1. DOMAIN PublishedSince(b, t) = {j \in DOMAIN b : b[j].at >= t}
  BY DEF PublishedSince
<1> QED BY <1>1, PartBox DEF PublishedSince

LEMMA SeekStepInv ==
    ASSUME PubSubInv, PubSubTypeOK', KeptOK', VersionsOK',
           UNCHANGED <<now, seq, publisherVars, put, clientVars>>,
           Copies(sub') \cup Copies(listed') \cup Copies(todo') \cup Copies(snapshot'.backlog)
                \subseteq StoredCopies
    PROVE  PubSubInv'
<1> USE DEF clientVars
<1>1. StoredCopies' \subseteq StoredCopies
  BY DEF StoredCopies
<1>2. seq' \in Nat /\ seq' >= seq /\ now' \in Nat /\ now' >= now
  BY DEF PubSubInv, PubSubTypeOK
<1>3. CopiesOK' /\ TimesOK'
  BY <1>1, <1>2, CopiesStay DEF PubSubInv
<1>4. ForwardOK'
  BY DEF PubSubInv, ForwardOK
<1> QED BY <1>3, <1>4 DEF PubSubInv

LEMMA SeekKept ==
    ASSUME PubSubInv, put' = put,
           \A i : Present(i) => Present(i)' \/ (PutsBack' /\ i \in Restored'),
           PutsBack => \A i \in Restored : Present(i)' \/ (PutsBack' /\ i \in Restored'),
           \A i \in RestoredSoFar' : Present(i)'
    PROVE  KeptOK'
<1>1. ASSUME NEW i \in put'
      PROVE  Present(i)' \/ (PutsBack' /\ i \in Restored')
  <2>1. Present(i) \/ (PutsBack /\ i \in Restored)
    BY DEF PubSubInv, KeptOK, MessageKept, Present, PutsBack
  <2> QED BY <2>1
<1>2. MessageKept'
  BY <1>1 DEF MessageKept, Present, PutsBack
<1> QED BY <1>2 DEF KeptOK

LEMMA SnapshotListInv ==
    ASSUME PubSubInv, SnapshotList
    PROVE  PubSubInv'
<1>1. PubSubTypeOK
  BY DEF PubSubInv
<1>2. /\ snapshot = NoSnapshot /\ snapshot'.backlog = sub
      /\ snapshot'.status = "listed" /\ snapshot'.createdAt = snapshot.createdAt
      /\ UNCHANGED <<now, seq, sub, dead, publisherVars, put, clientVars, seeking, target, listed,
                     todo, seeks, settled>>
  BY DEF SnapshotList, NoSnapshot
<1>3. PubSubTypeOK'
  BY <1>1, <1>2 DEF PubSubTypeOK, clientVars
<1>4. \A i : Present(i)' = Present(i)
  BY <1>2 DEF Present, clientVars
<1>5. Restored \subseteq Restored' /\ Restored' \subseteq Restored \cup DOMAIN sub
      /\ DOMAIN snapshot.backlog = {}
  BY <1>2, EmptyBoxIsBox DEF Restored, NoSnapshot, PublishedSince
<1>6. KeptOK'
  <2>1. \A i \in RestoredSoFar' : i \in RestoredSoFar \/ i \in DOMAIN sub
    BY <1>2, <1>5 DEF RestoredSoFar
  <2>2. \A i \in RestoredSoFar' : Present(i)'
    BY <1>4, <2>1 DEF Present, PubSubInv, KeptOK
  <2>3. PutsBack' = PutsBack
    BY <1>2 DEF PutsBack
  <2> QED BY <1>2, <1>4, <1>5, <2>2, <2>3, SeekKept
<1>7. VersionsOK'
  BY <1>2 DEF VersionsOK, PubSubInv
<1> QED BY <1>2, <1>3, <1>6, <1>7, SeekStepInv DEF StoredCopies

LEMMA CreateSnapshotInv ==
    ASSUME PubSubInv, CreateSnapshot
    PROVE  PubSubInv'
<1>1. PubSubTypeOK
  BY DEF PubSubInv
<1>2. /\ snapshot'.backlog = snapshot.backlog
      /\ snapshot'.status \in {"none", "listed", "created"} /\ snapshot'.createdAt \in Nat
      /\ UNCHANGED <<now, seq, sub, dead, publisherVars, put, clientVars, seeking, target, listed,
                     todo, seeks, settled>>
  <2>1. now \in Nat /\ snapshot.createdAt \in Nat
    BY <1>1 DEF PubSubTypeOK
  <2> QED BY <2>1 DEF CreateSnapshot
<1>3. PubSubTypeOK'
  BY <1>1, <1>2 DEF PubSubTypeOK, clientVars
<1>4. /\ \A i : Present(i)' = Present(i)
      /\ Restored' = Restored /\ RestoredSoFar' = RestoredSoFar /\ PutsBack' = PutsBack
  BY <1>2 DEF Present, clientVars, Restored, PublishedSince, RestoredSoFar, PutsBack
<1>5. KeptOK'
  <2>1. \A i \in RestoredSoFar' : Present(i)'
    BY <1>4 DEF PubSubInv, KeptOK
  <2> QED BY <1>2, <1>4, <2>1, SeekKept
<1>6. VersionsOK'
  BY <1>2 DEF VersionsOK, PubSubInv
<1> QED BY <1>2, <1>3, <1>5, <1>6, SeekStepInv DEF StoredCopies

LEMMA SeekBeginsInv ==
    ASSUME PubSubInv, NEW t \in 1..MaxTime, SeekToTime(t) \/ SeekToSnapshot
    PROVE  PubSubInv'
<1>1. PubSubTypeOK /\ IsBox(sub)
  BY DEF PubSubInv, PubSubTypeOK
<1>2. /\ seeking = "idle" /\ seeks < MaxSeeks /\ listed' = sub /\ seeks' = seeks + 1
      /\ UNCHANGED <<now, seq, sub, dead, publisherVars, put, clientVars, snapshot, settled>>
  BY DEF SeekToTime, SeekToSnapshot, SeekBegins
<1>3. IsBox(todo') /\ Copies(todo') \subseteq Copies(sub) /\ target' \in Nat
  <2>1. CASE SeekToTime(t)
    <3>1. todo' = AfterRemove(sub, DOMAIN PublishedSince(sub, t)) /\ target' = t
      BY <2>1 DEF SeekToTime
    <3> DEFINE S == DOMAIN PublishedSince(sub, t)
    <3>2. IsBox(AfterRemove(sub, S)) /\ Derived(AfterRemove(sub, S), sub)
      BY <1>1, RemoveBox
    <3>3. Copies(AfterRemove(sub, S)) \subseteq Copies(sub)
      BY <3>2, DerivedCopies
    <3> QED BY <3>1, <3>2, <3>3
  <2>2. CASE SeekToSnapshot
    BY <1>1, <2>2 DEF SeekToSnapshot, PubSubTypeOK
  <2> QED BY <2>1, <2>2
<1>4. PubSubTypeOK'
  <2>1. seeks' \in 0..MaxSeeks
    BY <1>1, <1>2, PubSubAssumption DEF PubSubTypeOK
  <2>2. seeking' \in {"trimming", "clearing"}
    BY DEF SeekToTime, SeekToSnapshot
  <2> QED BY <1>1, <1>2, <1>3, <2>1, <2>2 DEF PubSubTypeOK, clientVars
<1>5. \A i : Present(i)' = Present(i)
  BY <1>2 DEF Present, clientVars
<1>6. KeptOK'
  <2>1. RestoredSoFar' = {}
    BY DEF RestoredSoFar, SeekToTime, SeekToSnapshot
  <2>2. ~PutsBack
    BY <1>2 DEF PutsBack
  <2> QED BY <1>2, <1>5, <2>1, <2>2, SeekKept
<1>7. VersionsOK'
  <2>1. \A i \in DOMAIN sub : sub[i].version \in Nat /\ sub[i].at \in Nat
    BY <1>1 DEF IsBox, Messages
  <2>2. CASE SeekToTime(t)
    <3>1. /\ seeking' = "trimming" /\ target' = t /\ t \in Nat
          /\ DOMAIN todo' = DOMAIN sub \ {j \in DOMAIN sub : sub[j].at >= t}
      <4>1. seeking' = "trimming" /\ target' = t
            /\ todo' = AfterRemove(sub, DOMAIN PublishedSince(sub, t))
        BY <2>2 DEF SeekToTime
      <4>2. t \in Nat
        BY PubSubAssumption
      <4>3. DOMAIN PublishedSince(sub, t) = {j \in DOMAIN sub : sub[j].at >= t}
        BY <1>1, <4>2, PublishedSinceBox
      <4>4. DOMAIN todo' = DOMAIN sub \ DOMAIN PublishedSince(sub, t)
        BY <1>1, <4>1, RemoveBox
      <4> QED BY <4>1, <4>2, <4>3, <4>4
    <3> QED BY <1>2, <2>1, <3>1 DEF VersionsOK
  <2>3. CASE SeekToSnapshot
    BY <1>2, <2>3 DEF VersionsOK, SeekToSnapshot
  <2> QED BY <2>2, <2>3
<1> QED BY <1>2, <1>3, <1>4, <1>6, <1>7, SeekStepInv DEF StoredCopies

\* A message is taken out: by seekToTime for good, by restoreSnapshot unless it
\* is going to be put back.
LEMMA SeekTakesOutInv ==
    ASSUME PubSubInv, SeekTrim \/ SeekClear
    PROVE  PubSubInv'
<1>1. PubSubTypeOK /\ IsBox(sub) /\ IsBox(todo)
  BY DEF PubSubInv, PubSubTypeOK
<1>2. PICK f : f = First(todo)
  OBVIOUS
<1>3. /\ seeking \in {"trimming", "clearing"}
      /\ sub' = AfterRemove(sub, {f}) /\ todo' = AfterRemove(todo, {f})
      /\ UNCHANGED <<now, seq, dead, publisherVars, put, clientVars, snapshot, seeking, target,
                     listed, seeks>>
  BY <1>2 DEF SeekTrim, SeekClear, Rest
<1>4. /\ IsBox(sub') /\ Derived(sub', sub) /\ DOMAIN sub' = DOMAIN sub \ {f}
      /\ IsBox(todo') /\ Derived(todo', todo) /\ DOMAIN todo' = DOMAIN todo \ {f}
      /\ \A j \in DOMAIN sub \ {f} : sub'[j] = sub[j]
  BY <1>1, <1>3, RemoveBox
<1>5. \E S \in SUBSET DOMAIN sub :
        /\ settled' = settled \cup Entries(S)
        /\ f \in DOMAIN sub => f \in S \/ (seeking = "clearing" /\ f \in Restored)
  <2>1. CASE SeekTrim
    BY <1>2, <2>1, {f} \cap DOMAIN sub \in SUBSET DOMAIN sub DEF SeekTrim
  <2>2. CASE SeekClear
    BY <1>2, <2>2, ({f} \cap DOMAIN sub) \ Restored \in SUBSET DOMAIN sub DEF SeekClear
  <2> QED BY <2>1, <2>2
<1>6. PICK S \in SUBSET DOMAIN sub :
        /\ settled' = settled \cup Entries(S)
        /\ f \in DOMAIN sub => f \in S \/ (seeking = "clearing" /\ f \in Restored)
  BY <1>5
<1>7. PubSubTypeOK'
  <2>1. settled' \subseteq Ids \X (Keys \cup {NoKey})
    BY <1>1, <1>6 DEF PubSubTypeOK, Entries, IsBox, Messages
  <2> QED BY <1>1, <1>3, <1>4, <2>1 DEF PubSubTypeOK, clientVars
<1>8. KeptOK'
  <2>1. Restored' = Restored /\ PutsBack' = PutsBack
    BY <1>3 DEF Restored, PublishedSince, PutsBack
  <2>2. \A i \in S : i \in {e[1] : e \in settled'}
    <3> SUFFICES ASSUME NEW i \in S PROVE i \in {e[1] : e \in settled'}
      OBVIOUS
    <3>1. <<i, sub[i].key>> \in settled'
      BY <1>6 DEF Entries
    <3> QED BY <3>1, EntryId
  <2>3. ASSUME NEW i, Present(i) PROVE Present(i)' \/ (PutsBack' /\ i \in Restored')
    <3>1. CASE i \in DOMAIN sub
      <4>1. CASE i # f
        BY <1>4, <3>1, <4>1 DEF Present
      <4>2. CASE i = f /\ f \in S
        BY <2>2, <4>2 DEF Present
      <4>3. CASE i = f /\ seeking = "clearing" /\ f \in Restored
        BY <2>1, <4>3 DEF PutsBack
      <4> QED BY <1>6, <3>1, <4>1, <4>2, <4>3
    <3>2. CASE i \in {e[1] : e \in settled}
      <4>1. settled \subseteq settled'
        BY <1>6
      <4> QED BY <3>2, <4>1 DEF Present
    <3>3. CASE i \notin DOMAIN sub /\ i \notin {e[1] : e \in settled}
      <4>1. \/ \E c \in Clients : pc[c] = "forwarding" /\ arg[c].id = i
            \/ \E j \in DOMAIN dead : dead[j].src = i
        BY <2>3, <3>3 DEF Present
      <4>2. dead' = dead /\ pc' = pc /\ arg' = arg
        BY <1>3 DEF clientVars
      <4> QED BY <4>1, <4>2 DEF Present
    <3> QED BY <3>1, <3>2, <3>3
  <2>4. RestoredSoFar' = {}
    BY <1>3 DEF RestoredSoFar
  <2> QED BY <1>3, <2>1, <2>3, <2>4, SeekKept
<1>9. VersionsOK'
  BY <1>3, <1>4 DEF VersionsOK, PubSubInv
<1>10. Copies(sub') \subseteq StoredCopies /\ Copies(todo') \subseteq StoredCopies
  BY <1>4, DerivedCopies DEF StoredCopies
<1> QED BY <1>3, <1>7, <1>8, <1>9, <1>10, SeekStepInv DEF StoredCopies

\* The versions are advanced, and then one message after the other made visible.
LEMMA SeekReleasesInv ==
    ASSUME PubSubInv, SeekBump \/ SeekRelease
    PROVE  PubSubInv'
<1>1. PubSubTypeOK /\ IsBox(sub) /\ IsBox(todo) /\ IsBox(listed) /\ target \in Nat /\ now \in Nat
  BY DEF PubSubInv, PubSubTypeOK
<1>2. /\ seeking' = "releasing" /\ ~PutsBack /\ ~PutsBack'
      /\ UNCHANGED <<now, seq, dead, publisherVars, put, clientVars, snapshot, target, listed, seeks,
                     settled>>
  BY DEF SeekBump, SeekRelease, PutsBack
<1>3. IsBox(sub') /\ Derived(sub', sub) /\ DOMAIN sub' = DOMAIN sub
  <2>1. CASE SeekBump
    BY <1>1, <2>1, BumpBox DEF SeekBump
  <2>2. CASE SeekRelease
    <3>1. Reflagged(sub', sub)
      BY <1>1, <2>2, ModAckBox DEF SeekRelease
    <3> QED BY <1>1, <3>1, ReflaggedDerived DEF Reflagged
  <2> QED BY <2>1, <2>2
<1>4. IsBox(todo') /\ Copies(todo') \subseteq StoredCopies
  <2>1. CASE SeekBump
    BY <1>1, <2>1, PublishedSinceBox DEF SeekBump, StoredCopies
  <2>2. CASE SeekRelease
    <3>1. IsBox(todo') /\ Derived(todo', todo)
      BY <1>1, <2>2, RemoveBox DEF SeekRelease, Rest
    <3> QED BY <3>1, DerivedCopies DEF StoredCopies
  <2> QED BY <2>1, <2>2
<1>5. PubSubTypeOK'
  BY <1>1, <1>2, <1>3, <1>4 DEF PubSubTypeOK, clientVars
<1>6. KeptOK'
  <2>1. \A i : Present(i)' = Present(i)
    BY <1>2, <1>3 DEF Present, clientVars
  <2>2. RestoredSoFar' = {}
    BY <1>2 DEF RestoredSoFar
  <2> QED BY <1>2, <2>1, <2>2, SeekKept
<1>7. VersionsOK'
  <2>1. \A i \in DOMAIN sub : sub[i].version \in Nat /\ sub'[i].version \in Nat
                              /\ sub'[i].version >= sub[i].version
    BY <1>1, <1>3 DEF IsBox, Messages, Derived
  <2>2. \A i \in DOMAIN listed : listed[i].version \in Nat /\ listed[i].at \in Nat
    BY <1>1 DEF IsBox, Messages
  <2>3. CASE SeekBump
    <3>1. seeking = "trimming" /\ DOMAIN todo = {}
      BY <2>3, EmptyBoxIsBox DEF SeekBump
    <3>2. \A i \in DOMAIN listed \cap DOMAIN sub :
            sub[i].version >= listed[i].version /\ ~(listed[i].at < target)
      BY <3>1 DEF PubSubInv, VersionsOK
    <3>3. DOMAIN PublishedSince(listed, target) = {j \in DOMAIN listed : listed[j].at >= target}
      BY <1>1, PublishedSinceBox
    <3>4. \A i \in DOMAIN sub \cap DOMAIN PublishedSince(listed, target) :
            sub'[i].version > sub[i].version
      BY <1>1, <2>3, BumpBox DEF SeekBump
    <3>5. \A i \in DOMAIN listed \cap DOMAIN sub : sub'[i].version > listed[i].version
      BY <1>1, <2>1, <2>2, <3>2, <3>3, <3>4
    <3> QED BY <1>2, <1>3, <3>5 DEF VersionsOK
  <2>4. CASE SeekRelease
    <3>1. \A i \in DOMAIN listed \cap DOMAIN sub : sub[i].version > listed[i].version
      BY <2>4 DEF PubSubInv, VersionsOK, SeekRelease
    <3>2. \A i \in DOMAIN listed \cap DOMAIN sub : sub'[i].version > listed[i].version
      BY <2>1, <2>2, <3>1
    <3> QED BY <1>2, <1>3, <3>2 DEF VersionsOK
  <2> QED BY <2>3, <2>4
<1>8. Copies(sub') \subseteq StoredCopies
  BY <1>3, DerivedCopies DEF StoredCopies
<1> QED BY <1>2, <1>4, <1>5, <1>6, <1>7, <1>8, SeekStepInv DEF StoredCopies

\* The stages of restoreSnapshot, and the end of a seek.
LEMMA SeekTurnsInv ==
    ASSUME PubSubInv, SeekCleared \/ SeekRestored \/ SeekEnds
    PROVE  PubSubInv'
<1>1. PubSubTypeOK /\ IsBox(listed) /\ target \in Nat /\ IsBox(snapshot.backlog) /\ IsBox(todo)
  BY DEF PubSubInv, PubSubTypeOK
<1>2. /\ todo = EmptyBox /\ DOMAIN todo = {}
      /\ UNCHANGED <<now, seq, sub, dead, publisherVars, put, clientVars, snapshot, listed, seeks, settled>>
  BY EmptyBoxIsBox DEF SeekCleared, SeekRestored, SeekEnds
<1>3. /\ IsBox(todo') /\ Copies(todo') \subseteq StoredCopies /\ target' \in Nat
      /\ seeking' \in {"restoring", "replaying", "idle"}
  <2>1. CASE SeekCleared
    BY <1>1, <2>1 DEF SeekCleared, StoredCopies
  <2>2. CASE SeekRestored
    <3>1. todo' = PublishedSince(listed, target) /\ target' = target /\ seeking' = "replaying"
      BY <2>2 DEF SeekRestored
    <3> QED BY <1>1, <3>1, PublishedSinceBox DEF StoredCopies
  <2>3. CASE SeekEnds
    BY <1>1, <2>3 DEF SeekEnds, StoredCopies
  <2> QED BY <2>1, <2>2, <2>3
<1>4. PubSubTypeOK'
  BY <1>1, <1>2, <1>3 DEF PubSubTypeOK, clientVars
<1>5. \A i : Present(i)' = Present(i)
  BY <1>2 DEF Present, clientVars
<1>6. KeptOK'
  <2>1. CASE SeekCleared
    <3>1. PutsBack' /\ Restored' = Restored /\ RestoredSoFar' = {}
      BY <1>2, <2>1 DEF SeekCleared, PutsBack, Restored, PublishedSince, RestoredSoFar
    <3> QED BY <1>2, <1>5, <3>1, SeekKept
  <2>2. CASE SeekRestored
    <3>1. /\ PutsBack' /\ Restored' = Restored
          /\ RestoredSoFar' \subseteq RestoredSoFar
      BY <1>2, <2>2 DEF SeekRestored, PutsBack, Restored, PublishedSince, RestoredSoFar
    <3> QED BY <1>2, <1>5, <3>1, SeekKept DEF PubSubInv, KeptOK
  <2>3. CASE SeekEnds
    <3>1. RestoredSoFar' = {} /\ (PutsBack => Restored \subseteq RestoredSoFar)
      BY <1>2, <2>3 DEF SeekEnds, PutsBack, RestoredSoFar
    <3> QED BY <1>2, <1>5, <3>1, SeekKept DEF PubSubInv, KeptOK
  <2> QED BY <2>1, <2>2, <2>3
<1>7. VersionsOK'
  <2>1. \A i \in DOMAIN listed \cap DOMAIN sub : sub[i].version > listed[i].version
    BY <1>2 DEF PubSubInv, VersionsOK, SeekCleared, SeekRestored, SeekEnds
  <2> QED BY <1>2, <1>3, <2>1 DEF VersionsOK
<1> QED BY <1>2, <1>3, <1>4, <1>6, <1>7, SeekStepInv DEF StoredCopies

\* restore gives the message a version above the one the seek listed.
LEMMA RestoreMessage ==
    ASSUME IsBox(listed), NEW i, NEW m \in Messages
    PROVE  /\ Restore(i, m) \in Messages
           /\ Restore(i, m).key = m.key /\ Restore(i, m).at = m.at /\ Restore(i, m).src = m.src
           /\ i \in DOMAIN listed => Restore(i, m).version > listed[i].version
<1> DEFINE v == IF i \in DOMAIN listed /\ listed[i].version > m.version
                THEN listed[i].version ELSE m.version
<1>1. \A j \in DOMAIN listed : listed[j].version \in Nat
  BY DEF IsBox, Messages
<1>2. v + 1 \in Nat /\ (i \in DOMAIN listed => v + 1 > listed[i].version)
  BY <1>1 DEF Messages
<1>3. Restore(i, m) = [m EXCEPT !.visibleAt = 0, !.acked = FALSE, !.held = FALSE, !.version = v + 1]
  BY DEF Restore
<1>4. PICK w \in Nat : w = v + 1
  BY <1>2
<1> HIDE DEF v
<1>5. ASSUME NEW n, n = [m EXCEPT !.visibleAt = 0, !.acked = FALSE, !.held = FALSE, !.version = w]
      PROVE  n \in Messages /\ n.key = m.key /\ n.at = m.at /\ n.src = m.src /\ n.version = w
  BY <1>5 DEF Messages
<1> QED BY <1>2, <1>3, <1>4, <1>5

LEMMA SeekRestoreInv ==
    ASSUME PubSubInv, SeekRestore
    PROVE  PubSubInv'
<1>1. PubSubTypeOK /\ IsBox(sub) /\ IsBox(todo) /\ IsBox(listed)
  BY DEF PubSubInv, PubSubTypeOK
<1>2. PICK f : f = First(todo)
  OBVIOUS
<1>3. PICK m : m = Restore(f, todo[f])
  OBVIOUS
<1>4. /\ seeking \in {"restoring", "replaying"} /\ todo # EmptyBox
      /\ sub' = AfterPut(sub, f, m) /\ todo' = AfterRemove(todo, {f})
      /\ UNCHANGED <<now, seq, dead, publisherVars, put, clientVars, snapshot, seeking, target,
                     listed, seeks, settled>>
  BY <1>2, <1>3 DEF SeekRestore, Rest
<1>5. f \in DOMAIN todo /\ f \in Ids /\ f \in 1..seq /\ todo[f] \in Messages
  <2>1. f \in DOMAIN todo
    BY <1>1, <1>2, <1>4, FirstIn
  <2>2. f \in 1..seq
    BY <2>1, StoredSrc DEF StoredCopies
  <2> QED BY <1>1, <2>1, <2>2 DEF IsBox
<1>6. /\ m \in Messages /\ (f \in DOMAIN listed => m.version > listed[f].version)
      /\ m.key = todo[f].key /\ m.at = todo[f].at /\ m.src = todo[f].src
  BY <1>1, <1>5, <1>3, RestoreMessage
<1>7. /\ IsBox(sub') /\ DOMAIN sub' = DOMAIN sub \cup {f} /\ sub'[f] = m
      /\ \A j \in DOMAIN sub \ {f} : sub'[j] = sub[j]
  <2>1. /\ IsBox(AfterPut(sub, f, m)) /\ DOMAIN AfterPut(sub, f, m) = DOMAIN sub \cup {f}
        /\ AfterPut(sub, f, m)[f] = m
        /\ \A j \in DOMAIN sub \ {f} : AfterPut(sub, f, m)[j] = sub[j]
    <3>1. IsBox(sub) /\ f \in Ids /\ m \in Messages
      BY <1>1, <1>5, <1>6
    <3>2. IsBox(AfterPut(sub, f, m))
      BY <3>1, PutBox
    <3>3. DOMAIN AfterPut(sub, f, m) = DOMAIN sub \cup {f}
      BY <3>1, PutBox
    <3>4. AfterPut(sub, f, m)[f] = m
      BY <3>1, PutBox
    <3>5. \A j \in DOMAIN sub \ {f} : AfterPut(sub, f, m)[j] = sub[j]
      BY <3>1, PutBox
    <3> QED BY <3>2, <3>3, <3>4, <3>5
  <2> QED BY <1>4, <2>1
<1>8. Copies(sub') \subseteq StoredCopies
  <2>1. Copies(sub') \subseteq Copies(sub) \cup {<<f, m.key, m.at, m.src>>}
    BY <1>1, <1>4, <1>5, <1>6, PutCopies
  <2>2. <<f, m.key, m.at, m.src>> \in Copies(todo)
    BY <1>5, <1>6, CopyOf
  <2> QED BY <2>1, <2>2 DEF StoredCopies
<1>9. /\ IsBox(todo') /\ Copies(todo') \subseteq Copies(todo) /\ DOMAIN todo' = DOMAIN todo \ {f}
  BY <1>1, <1>4, RemoveBox, DerivedCopies
<1>10. PubSubTypeOK'
  <2>1. DOMAIN sub' \cup DOMAIN dead' \subseteq 1..seq'
    BY <1>1, <1>4, <1>5, <1>7 DEF PubSubTypeOK
  <2> QED BY <1>1, <1>4, <1>7, <1>9, <2>1 DEF PubSubTypeOK, clientVars
<1>11. KeptOK'
  <2>1. \A i : Present(i) => Present(i)'
    BY <1>4, <1>7 DEF Present, clientVars
  <2>2. Present(f)'
    BY <1>7 DEF Present
  <2>3. Restored' = Restored /\ PutsBack' /\ RestoredSoFar' \subseteq RestoredSoFar \cup {f}
    BY <1>4, <1>9 DEF Restored, PublishedSince, PutsBack, RestoredSoFar
  <2>4. \A i \in RestoredSoFar' : Present(i)'
    BY <2>1, <2>2, <2>3 DEF PubSubInv, KeptOK
  <2> QED BY <1>4, <2>1, <2>3, <2>4, SeekKept
<1>12. VersionsOK'
  <2>1. \A i \in DOMAIN listed \cap DOMAIN sub : sub[i].version > listed[i].version
    BY <1>4 DEF PubSubInv, VersionsOK
  <2>2. \A i \in DOMAIN listed \cap DOMAIN sub' : sub'[i].version > listed[i].version
    BY <1>6, <1>7, <2>1
  <2> QED BY <1>4, <2>2 DEF VersionsOK
<1> QED BY <1>4, <1>8, <1>9, <1>10, <1>11, <1>12, SeekStepInv DEF StoredCopies

-----------------------------------------------------------------------------
(* The theorems *)

LEMMA PubSubInitInv ==
    ASSUME PubSubInit
    PROVE  PubSubInv
<1> USE DEF PubSubInit, NoSnapshot, NoRequest
<1>1. PubSubTypeOK
  <2>1. 1 \in 1..MaxTime /\ FirstSeq \in 0..MaxId /\ 0 \in 0..MaxSeeks
    BY PubSubAssumption, PubSubStoreAssumption, SMT
  <2> QED BY <2>1, EmptyBoxIsBox DEF PubSubTypeOK, NoArg
<1>2. StoredCopies = {} /\ FreshCopies = {}
  BY EmptyCopies DEF StoredCopies, FreshCopies
<1>3. CopiesOK
  BY <1>2, EmptyBoxIsBox, PubSubAssumption DEF CopiesOK
<1>4. ForwardOK
  BY DEF ForwardOK
<1>5. KeptOK
  BY DEF KeptOK, MessageKept, RestoredSoFar
<1>6. VersionsOK
  BY EmptyBoxIsBox DEF VersionsOK
<1>7. TimesOK
  BY <1>2 DEF TimesOK
<1> QED BY <1>1, <1>3, <1>4, <1>5, <1>6, <1>7 DEF PubSubInv

LEMMA PubSubNextInv ==
    ASSUME PubSubInv, [PubSubNext]_vars
    PROVE  PubSubInv'
<1>1. CASE UNCHANGED vars
  BY <1>1 DEF vars, clientVars, seekVars, PubSubInv, PubSubTypeOK, CopiesOK, TimesOK, StoredCopies,
     FreshCopies, ForwardOK, KeptOK, MessageKept, Present, RestoredSoFar, Restored,
     PublishedSince, VersionsOK
<1>2. CASE Tick
  BY <1>2, TickInv
<1>3. CASE SeekNext
  <2>1. ASSUME NEW t \in 1..MaxTime, SeekToTime(t) PROVE PubSubInv'
    BY <2>1, SeekBeginsInv
  <2>2. ASSUME SeekToSnapshot PROVE PubSubInv'
    <3>1. 1 \in 1..MaxTime
      BY PubSubAssumption
    <3> QED BY <2>2, <3>1, SeekBeginsInv
  <2> QED
    BY <1>3, <2>1, <2>2, SnapshotListInv, CreateSnapshotInv, SeekTakesOutInv, SeekReleasesInv, SeekTurnsInv,
       SeekRestoreInv DEF SeekNext
<1>4. ASSUME NEW p \in Publishers, PublisherNext(p) PROVE PubSubInv'
  BY <1>4, TopicPublishInv, PublishDrawInv, PublishFailsInv, PublishPutInv DEF PublisherNext
<1>5. ASSUME NEW c \in Clients, ClientNext(c) PROVE PubSubInv'
  <2>1. ASSUME NEW a \in issued, AckChecked(c, a[1], a[2]) PROVE PubSubInv'
    BY <2>1, 0 \in Nat, CheckedInv
  <2>2. ASSUME NEW a \in issued, NEW s \in Extensions, ModAckChecked(c, a[1], a[2], s)
        PROVE  PubSubInv'
    <3>1. s \in Nat
      BY PubSubAssumption
    <3> QED BY <2>2, <3>1, CheckedInv
  <2>3. ASSUME NEW i \in DOMAIN batch[c], PullFiltered(c, i) \/ PullExhausted(c, i)
        PROVE  PubSubInv'
    BY <2>3, PullFilteredInv, PullExhaustedInv
  <2>4. ASSUME SubscriptionPull(c) \/ PullForward(c) \/ PullFails(c) \/ PullAnswers(c)
        PROVE  PubSubInv'
    BY <2>4, SubscriptionPullInv, PullForwardInv, PullAnswersInv
  <2>5. ASSUME AckApplied(c) \/ ModAckApplied(c) PROVE PubSubInv'
    BY <2>5, AppliedInv
  <2> QED BY <1>5, <2>1, <2>2, <2>3, <2>4, <2>5 DEF ClientNext
<1> QED BY <1>1, <1>2, <1>3, <1>4, <1>5 DEF PubSubNext

-----------------------------------------------------------------------------
(* The theorems *)

\* The inductive invariant, for any number of publishers and clients (what it says
\* of the order of publish times is for requests that follow each other).
THEOREM PubSubInvariant == PubSubSpec => []PubSubInv
BY PubSubInitInv, PubSubNextInv, PTL DEF PubSubSpec

\* Every variable has its type in every reachable state.
THEOREM PubSubTypes == PubSubSpec => []PubSubTypeOK
<1>1. PubSubInv => PubSubTypeOK
  BY DEF PubSubInv
<1> QED BY <1>1, PubSubInvariant, PTL

\* No message that was put is lost: pulls that filter, expire or forward, acks,
\* and the loops of a seek that delete and put back, in any interleaving.
THEOREM MessagesAreKept == PubSubSpec => []MessageKept
<1>1. PubSubInv => MessageKept
  BY DEF PubSubInv, KeptOK
<1> QED BY <1>1, PubSubInvariant, PTL

\* A seek leaves every message it listed with a version above the listed one
\* (seek.go: the versions are advanced, or restored one higher), whatever pulls
\* and acks ran meanwhile: the ack ids of deliveries up to the listing are
\* superseded.  Deliveries after the listing, and messages acknowledged before the
\* seek that a snapshot brings back (seek.go:127-129), are outside it.
THEOREM SeeksInvalidate == PubSubSpec => []SeekInvalidates
<1>1. PubSubInv => SeekInvalidates
  BY DEF PubSubInv, VersionsOK, SeekInvalidates
<1> QED BY <1>1, PubSubInvariant, PTL

-----------------------------------------------------------------------------
(* Acks in publish order *)

\* Ids have the same number of digits, so that they compare as strings as they
\* do as numbers.
SameLength == \A i, j \in FirstSeq + 1 .. MaxId : i < j => IdBefore(i, j)

\* A publisher puts what comes after everything in the subscription.
PutsLast ==
    \A p \in Publishers : \A i \in DOMAIN publishing[p] :
        /\ \A j \in DOMAIN sub : j < i
        /\ ~publishing[p][i].acked /\ ~publishing[p][i].held

OrderOK == seeks = 0 => seeking = "idle" /\ KeysSorted(sub) /\ PutsLast /\ HeldHasBlocker

OrderInv == PubSubInv /\ OrderOK

\* Why a held ack waits, apart from an unacknowledged message: an earlier one of
\* its key left the subscription.
GoneBefore(j, k) ==
    \/ \E e \in settled : e[1] < j /\ e[2] = k
    \/ \E i \in DOMAIN dead : dead[i].src < j /\ dead[i].key = k
    \/ \E c \in Clients : pc[c] = "forwarding" /\ arg[c].id < j
                         /\ batch[c][arg[c].id].key = k

\* Then the publish order of the messages in the subscription is that of their ids.
LEMMA InOrder ==
    ASSUME PubSubInv, OnePublisher, SameLength, NEW i \in DOMAIN sub, NEW j \in DOMAIN sub
    PROVE  Before(sub, i, j) <=> i < j
<1> DEFINE x == <<i, sub[i].key, sub[i].at, sub[i].src>>
           y == <<j, sub[j].key, sub[j].at, sub[j].src>>
<1>1. x \in StoredCopies /\ y \in StoredCopies
  BY CopyOf DEF StoredCopies
<1>2. /\ x[1] \in FirstSeq + 1 .. seq /\ y[1] \in FirstSeq + 1 .. seq
      /\ x[1] <= y[1] => x[3] <= y[3]
      /\ y[1] <= x[1] => y[3] <= x[3]
  BY <1>1 DEF PubSubInv, CopiesOK, TimesOK
<1>3. /\ i \in FirstSeq + 1 .. MaxId /\ j \in FirstSeq + 1 .. MaxId
      /\ i <= j => sub[i].at <= sub[j].at
      /\ j <= i => sub[j].at <= sub[i].at
      /\ i \in Nat /\ j \in Nat
  <2>1. seq \in Nat /\ seq <= MaxId /\ MaxId \in Nat /\ FirstSeq \in Nat
    BY PubSubAssumption, PubSubStoreAssumption, SMT DEF PubSubInv, PubSubTypeOK
  <2> QED BY <1>2, <2>1
<1>4. IsBox(sub) /\ sub[i].at \in Nat /\ sub[j].at \in Nat
  BY DEF PubSubInv, PubSubTypeOK, IsBox, Messages
<1>5. (i < j => IdBefore(i, j)) /\ (j < i => IdBefore(j, i))
  BY <1>3 DEF SameLength
<1>6. (i < j => Before(sub, i, j)) /\ (j < i => Before(sub, j, i))
  BY <1>3, <1>4, <1>5 DEF Before
<1>7. /\ ~Before(sub, i, i)
      /\ Before(sub, i, j) /\ Before(sub, j, i) => Before(sub, i, i)
  BY <1>4, BeforeOrder
<1> QED BY <1>3, <1>6, <1>7

LEMMA HeldReason ==
    ASSUME HeldHasBlocker, NEW j \in DOMAIN sub, sub[j].held
    PROVE  ~sub[j].acked /\ (Waits(sub, j) \/ GoneBefore(j, sub[j].key))
BY DEF HeldHasBlocker, Waits, GoneBefore

\* What is gone stays gone.
LEMMA GoneStays ==
    ASSUME NEW j, NEW k, GoneBefore(j, k),
           settled \subseteq settled', DOMAIN dead \subseteq DOMAIN dead',
           \A i \in DOMAIN dead : dead'[i] = dead[i],
           \A c \in Clients : pc[c] = "forwarding" =>
                \/ /\ pc'[c] = "forwarding" /\ arg'[c].id = arg[c].id
                   /\ batch'[c][arg[c].id].key = batch[c][arg[c].id].key
                \/ \E i \in DOMAIN dead' : /\ dead'[i].src = arg[c].id
                                           /\ dead'[i].key = batch[c][arg[c].id].key
                \/ <<arg[c].id, batch[c][arg[c].id].key>> \in settled'
    PROVE  GoneBefore(j, k)'
<1>1. CASE \E e \in settled : e[1] < j /\ e[2] = k
  BY <1>1 DEF GoneBefore
<1>2. CASE \E i \in DOMAIN dead : dead[i].src < j /\ dead[i].key = k
  BY <1>2 DEF GoneBefore
<1>3. ASSUME NEW c \in Clients, pc[c] = "forwarding", arg[c].id < j,
             batch[c][arg[c].id].key = k
      PROVE  GoneBefore(j, k)'
  <2>1. CASE /\ pc'[c] = "forwarding" /\ arg'[c].id = arg[c].id
             /\ batch'[c][arg[c].id].key = batch[c][arg[c].id].key
    BY <1>3, <2>1 DEF GoneBefore
  <2>2. CASE \E i \in DOMAIN dead' : /\ dead'[i].src = arg[c].id
                                     /\ dead'[i].key = batch[c][arg[c].id].key
    BY <1>3, <2>2 DEF GoneBefore
  <2>3. CASE <<arg[c].id, batch[c][arg[c].id].key>> \in settled'
    <3>1. <<arg[c].id, k>> \in settled' /\ <<arg[c].id, k>>[1] < j /\ <<arg[c].id, k>>[2] = k
      BY <1>3, <2>3
    <3> QED BY <3>1 DEF GoneBefore
  <2> QED BY <1>3, <2>1, <2>2, <2>3
<1> QED BY <1>1, <1>2, <1>3 DEF GoneBefore

\* A step that leaves flags alone and accounts for what it takes out keeps the order.
LEMMA TakeOutOrder ==
    ASSUME OrderInv, OnePublisher, SameLength,
           DOMAIN sub' \subseteq DOMAIN sub,
           \A i \in DOMAIN sub' : /\ sub'[i].key = sub[i].key /\ sub'[i].at = sub[i].at
                                  /\ sub'[i].acked = sub[i].acked /\ sub'[i].held = sub[i].held,
           \A i \in DOMAIN sub \ DOMAIN sub' :
                \/ <<i, sub[i].key>> \in settled'
                \/ \E c \in Clients : /\ pc'[c] = "forwarding" /\ arg'[c].id = i
                                      /\ batch'[c][i].key = sub[i].key,
           \A j, k : GoneBefore(j, k) => GoneBefore(j, k)',
           UNCHANGED <<publishing, seeks, seeking>>
    PROVE  OrderOK'
<1> SUFFICES ASSUME seeks = 0
             PROVE  KeysSorted(sub') /\ PutsLast' /\ HeldHasBlocker' /\ seeking' = "idle"
  BY DEF OrderOK
<1>1. seeking = "idle" /\ KeysSorted(sub) /\ PutsLast /\ HeldHasBlocker
  BY DEF OrderInv, OrderOK
<1>2. \A i, j \in DOMAIN sub' : Before(sub', i, j) <=> Before(sub, i, j)
  BY DEF Before
<1>3. KeysSorted(sub')
  BY <1>1, <1>2 DEF KeysSorted
<1>4. PutsLast'
  BY <1>1 DEF PutsLast
<1>5. ASSUME NEW j \in DOMAIN sub', sub'[j].held, NEW k, k = sub'[j].key
      PROVE  ~sub'[j].acked /\ (Waits(sub', j) \/ GoneBefore(j, k)')
  <2>1. j \in DOMAIN sub /\ sub[j].held /\ sub[j].key = k /\ sub'[j].acked = sub[j].acked
    BY <1>5
  <2>2. ~sub[j].acked /\ (Waits(sub, j) \/ GoneBefore(j, k))
    BY <1>1, <2>1, HeldReason
  <2>3. ~sub'[j].acked
    BY <2>1, <2>2
  <2>4. CASE GoneBefore(j, k)
    BY <2>3, <2>4
  <2>5. CASE Waits(sub, j)
    <3>1. PICK i \in DOMAIN sub : sub[i].key = k /\ Before(sub, i, j) /\ ~sub[i].acked
      BY <2>1, <2>5 DEF Waits, Earlier
    <3>2. CASE i \in DOMAIN sub'
      <4>1. i \in Earlier(sub', j) /\ ~sub'[i].acked
        BY <1>2, <1>5, <3>1, <3>2 DEF Earlier
      <4> QED BY <2>3, <4>1 DEF Waits
    <3>3. CASE i \notin DOMAIN sub'
      <4>1. i < j
        BY <2>1, <3>1, InOrder DEF OrderInv
      <4>2. CASE <<i, sub[i].key>> \in settled'
        <5>1. <<i, k>> \in settled' /\ <<i, k>>[1] < j /\ <<i, k>>[2] = k
          BY <3>1, <4>1, <4>2
        <5>2. GoneBefore(j, k)'
          BY <5>1 DEF GoneBefore
        <5> QED BY <2>3, <5>2
      <4>3. ASSUME NEW c \in Clients, pc'[c] = "forwarding", arg'[c].id = i,
                   batch'[c][i].key = sub[i].key
            PROVE  GoneBefore(j, k)'
        BY <3>1, <4>1, <4>3 DEF GoneBefore
      <4> QED BY <2>3, <3>3, <4>2, <4>3
    <3> QED BY <3>2, <3>3
  <2> QED BY <2>2, <2>4, <2>5
<1>6. HeldHasBlocker'
  BY <1>5 DEF HeldHasBlocker, Waits, GoneBefore
<1> QED BY <1>1, <1>3, <1>4, <1>6

\* A step of the store that changes flags keeps the order if its method does.
LEMMA FlagsOrder ==
    ASSUME OrderInv, Reflagged(sub', sub),
           KeysSorted(sub) => KeysSorted(sub') /\ HeldWaits(sub', sub),
           \A j, k : GoneBefore(j, k) => GoneBefore(j, k)',
           UNCHANGED <<publishing, seeks, seeking>>
    PROVE  OrderOK'
<1> SUFFICES ASSUME seeks = 0
             PROVE  KeysSorted(sub') /\ PutsLast' /\ HeldHasBlocker' /\ seeking' = "idle"
  BY DEF OrderOK
<1>1. seeking = "idle" /\ KeysSorted(sub) /\ PutsLast /\ HeldHasBlocker
  BY DEF OrderInv, OrderOK
<1>2. DOMAIN sub' = DOMAIN sub /\ \A j \in DOMAIN sub : sub'[j].key = sub[j].key
  BY DEF Reflagged, SameMessage
<1>3. KeysSorted(sub') /\ HeldWaits(sub', sub)
  BY <1>1
<1>4. PutsLast'
  BY <1>1, <1>2 DEF PutsLast
<1>5. ASSUME NEW j \in DOMAIN sub', sub'[j].held, NEW k, k = sub'[j].key
      PROVE  ~sub'[j].acked /\ (Waits(sub', j) \/ GoneBefore(j, k)')
  <2>1. ~sub'[j].acked
    BY <1>3, <1>5 DEF KeysSorted
  <2>2. CASE j \in DOMAIN sub /\ sub[j].held /\ ~Waits(sub, j)
    <3>1. GoneBefore(j, k)
      BY <1>1, <1>2, <1>5, <2>2, HeldReason
    <3> QED BY <2>1, <3>1
  <2> QED BY <1>2, <1>3, <1>5, <2>1, <2>2 DEF HeldWaits
<1>6. HeldHasBlocker'
  BY <1>5 DEF HeldHasBlocker, Waits, GoneBefore
<1> QED BY <1>1, <1>3, <1>4, <1>6

\* A step that does not touch the subscription or what has left it.
LEMMA LocalStepOrder ==
    ASSUME OrderInv, OnePublisher, SameLength,
           \A c \in Clients : pc[c] = "forwarding" =>
                pc'[c] = "forwarding" /\ arg'[c] = arg[c] /\ batch'[c] = batch[c],
           UNCHANGED <<sub, dead, publishing, settled, seeks, seeking>>
    PROVE  OrderOK'
<1>1. \A j, k : GoneBefore(j, k) => GoneBefore(j, k)'
  BY GoneStays
<1> QED BY <1>1, TakeOutOrder

LEMMA SubscriptionPullOrder ==
    ASSUME OrderInv, OnePublisher, SameLength, NEW c \in Clients, SubscriptionPull(c)
    PROVE  OrderOK'
<1> DEFINE L == Lapsed(sub, MaxMessages, Retention, now)
<1>1. PubSubTypeOK
  BY DEF OrderInv, PubSubInv
<1>2. /\ pc[c] = "idle" /\ pc'[c] # "forwarding"
      /\ sub' = AfterPull(sub, MaxMessages, AckDeadline, Retention, now)
      /\ settled' = settled \cup Entries(L)
      /\ \A d \in Clients \ {c} : pc'[d] = pc[d] /\ batch'[d] = batch[d]
      /\ UNCHANGED <<dead, publishing, arg, seekVars>>
  BY <1>1 DEF SubscriptionPull, PubSubTypeOK
<1>3. /\ Derived(sub', sub) /\ DOMAIN sub' = DOMAIN sub \ L /\ L \subseteq DOMAIN sub
      /\ \A i \in DOMAIN sub' : sub'[i].acked = sub[i].acked /\ sub'[i].held = sub[i].held
  <2>1. AckDeadline \in Nat /\ now \in Nat /\ IsBox(sub)
    BY <1>1, PubSubAssumption DEF PubSubTypeOK
  <2> DEFINE new == AfterPull(sub, MaxMessages, AckDeadline, Retention, now)
  <2>2. Derived(new, sub) /\ DOMAIN new = DOMAIN sub \ L /\ L \subseteq DOMAIN sub
    BY <2>1, PullBox
  <2>3. SameAcks(new, sub)
    BY <2>1, PullBox
  <2> HIDE DEF new, L
  <2> QED BY <1>2, <2>2, <2>3 DEF SameAcks, new
<1> HIDE DEF L
<1>4. \A i \in DOMAIN sub \ DOMAIN sub' : <<i, sub[i].key>> \in settled'
  BY <1>2, <1>3 DEF Entries
<1>5. \A j, k : GoneBefore(j, k) => GoneBefore(j, k)'
  <2>1. \A d \in Clients : pc[d] = "forwarding" =>
            pc'[d] = "forwarding" /\ arg'[d] = arg[d] /\ batch'[d] = batch[d]
    BY <1>2
  <2> QED BY <1>2, <2>1, GoneStays
<1> QED BY <1>2, <1>3, <1>4, <1>5, TakeOutOrder DEF Derived, seekVars

LEMMA PullFilteredOrder ==
    ASSUME OrderInv, OnePublisher, SameLength, NEW c \in Clients, NEW i \in DOMAIN batch[c], PullFiltered(c, i)
    PROVE  OrderOK'
<1>1. PubSubTypeOK
  BY DEF OrderInv, PubSubInv
<1>2. /\ pc[c] = "handling"
      /\ sub' = AfterRemove(sub, {i})
      /\ settled' = settled \cup Entries({i} \cap DOMAIN sub)
      /\ \A d \in Clients \ {c} : batch'[d] = batch[d]
      /\ UNCHANGED <<dead, publishing, pc, arg, seekVars>>
  BY <1>1 DEF PullFiltered, Handling, PubSubTypeOK
<1>3. /\ Derived(sub', sub) /\ DOMAIN sub' = DOMAIN sub \ {i}
      /\ \A j \in DOMAIN sub' : sub'[j] = sub[j]
  <2>1. IsBox(sub)
    BY <1>1 DEF PubSubTypeOK
  <2>2. LET new == AfterRemove(sub, {i}) IN
        /\ Derived(new, sub) /\ DOMAIN new = DOMAIN sub \ {i}
        /\ \A j \in DOMAIN sub \ {i} : new[j] = sub[j]
    BY <2>1, RemoveBox
  <2> QED BY <1>2, <2>2
<1>4. \A j \in DOMAIN sub \ DOMAIN sub' : <<j, sub[j].key>> \in settled'
  BY <1>2, <1>3 DEF Entries
<1>5. \A j, k : GoneBefore(j, k) => GoneBefore(j, k)'
  <2>1. \A d \in Clients : pc[d] = "forwarding" =>
            pc'[d] = "forwarding" /\ arg'[d] = arg[d] /\ batch'[d] = batch[d]
    BY <1>2
  <2> QED BY <1>2, <2>1, GoneStays
<1> QED BY <1>2, <1>3, <1>4, <1>5, TakeOutOrder DEF Derived, seekVars

\* Copies with the same id have the same key.
LEMMA SameKey ==
    ASSUME PubSubInv, NEW b, Copies(b) \subseteq StoredCopies,
           NEW i \in DOMAIN b, i \in DOMAIN sub
    PROVE  b[i].key = sub[i].key
<1> DEFINE x == <<i, b[i].key, b[i].at, b[i].src>>
           y == <<i, sub[i].key, sub[i].at, sub[i].src>>
<1>1. x \in StoredCopies /\ y \in StoredCopies
  BY CopyOf DEF StoredCopies
<1>2. x[1] = y[1] => x[2] = y[2]
  BY <1>1 DEF PubSubInv, CopiesOK
<1> QED BY <1>2

LEMMA PullExhaustedOrder ==
    ASSUME OrderInv, OnePublisher, SameLength, NEW c \in Clients, NEW i \in DOMAIN batch[c], PullExhausted(c, i)
    PROVE  OrderOK'
<1>1. PubSubTypeOK /\ PubSubInv
  BY DEF OrderInv, PubSubInv
<1>2. /\ pc[c] = "handling"
      /\ sub' = AfterRemove(sub, {i})
      /\ \A d \in Clients \ {c} : arg'[d] = arg[d] /\ pc'[d] = pc[d]
      /\ arg'[c].id = i /\ pc'[c] = "forwarding"
      /\ UNCHANGED <<dead, publishing, batch, seekVars, settled>>
  BY <1>1 DEF PullExhausted, Handling, PubSubTypeOK
<1>3. /\ Derived(sub', sub) /\ DOMAIN sub' = DOMAIN sub \ {i}
      /\ \A j \in DOMAIN sub' : sub'[j] = sub[j]
  <2>1. IsBox(sub)
    BY <1>1 DEF PubSubTypeOK
  <2>2. LET new == AfterRemove(sub, {i}) IN
        /\ Derived(new, sub) /\ DOMAIN new = DOMAIN sub \ {i}
        /\ \A j \in DOMAIN sub \ {i} : new[j] = sub[j]
    BY <2>1, RemoveBox
  <2> QED BY <1>2, <2>2
<1>4. i \in DOMAIN sub => batch'[c][i].key = sub[i].key
  <2>1. Copies(batch[c]) \subseteq StoredCopies
    BY DEF StoredCopies
  <2> QED BY <1>1, <1>2, <2>1, SameKey
<1>5. \A j, k : GoneBefore(j, k) => GoneBefore(j, k)'
  <2>1. \A d \in Clients : pc[d] = "forwarding" =>
            pc'[d] = "forwarding" /\ arg'[d] = arg[d] /\ batch'[d] = batch[d]
    BY <1>2
  <2> QED BY <1>2, <2>1, GoneStays
<1> QED BY <1>2, <1>3, <1>4, <1>5, TakeOutOrder DEF Derived, seekVars

LEMMA PullForwardOrder ==
    ASSUME OrderInv, OnePublisher, SameLength, NEW c \in Clients, PullForward(c)
    PROVE  OrderOK'
<1>1. PubSubTypeOK /\ PubSubInv
  BY DEF OrderInv, PubSubInv
<1>2. PICK i : i = arg[c].id
  OBVIOUS
<1>3. /\ \A d \in Clients \ {c} : pc'[d] = pc[d] /\ arg'[d] = arg[d] /\ batch'[d] = batch[d]
      /\ UNCHANGED <<sub, publishing, seekVars>>
  BY <1>1 DEF PullForward, PubSubTypeOK
<1>4. /\ DOMAIN dead \subseteq DOMAIN dead' /\ \A j \in DOMAIN dead : dead'[j] = dead[j]
      /\ settled \subseteq settled'
      /\ \/ \E j \in DOMAIN dead' : dead'[j].src = i /\ dead'[j].key = batch[c][i].key
         \/ <<i, batch[c][i].key>> \in settled'
  BY <1>1, <1>2, Forwarded
<1>5. \A j, k : GoneBefore(j, k) => GoneBefore(j, k)'
  <2>1. \A d \in Clients \ {c} : pc[d] = "forwarding" =>
            pc'[d] = "forwarding" /\ arg'[d] = arg[d] /\ batch'[d] = batch[d]
    BY <1>3
  <2> QED BY <1>2, <1>4, <2>1, GoneStays
<1> QED BY <1>3, <1>5, TakeOutOrder DEF seekVars

LEMMA PullAnswersOrder ==
    ASSUME OrderInv, OnePublisher, SameLength, NEW c \in Clients, PullAnswers(c) \/ PullFails(c)
    PROVE  OrderOK'
<1>1. /\ pc[c] = "handling"
      /\ \A d \in Clients \ {c} : batch'[d] = batch[d] /\ pc'[d] = pc[d]
      /\ UNCHANGED <<sub, dead, publishing, arg, seekVars, settled>>
  BY DEF PullAnswers, PullFails, OrderInv, PubSubInv, PubSubTypeOK
<1> QED BY <1>1, LocalStepOrder DEF seekVars

LEMMA CheckedOrder ==
    ASSUME OrderInv, OnePublisher, SameLength, NEW c \in Clients, NEW i, NEW v, NEW s,
           AckChecked(c, i, v) \/ ModAckChecked(c, i, v, s)
    PROVE  OrderOK'
<1>1. /\ pc[c] = "idle"
      /\ \A d \in Clients \ {c} : arg'[d] = arg[d] /\ pc'[d] = pc[d]
      /\ UNCHANGED <<sub, dead, publishing, batch, seekVars, settled>>
  BY DEF AckChecked, ModAckChecked, OrderInv, PubSubInv, PubSubTypeOK
<1> QED BY <1>1, LocalStepOrder DEF seekVars

LEMMA AckAppliedOrder ==
    ASSUME OrderInv, OnePublisher, SameLength, NEW c \in Clients, AckApplied(c)
    PROVE  OrderOK'
<1> DEFINE i == arg[c].id
<1>1. PubSubTypeOK /\ IsBox(sub)
  BY DEF OrderInv, PubSubInv, PubSubTypeOK
<1>2. /\ pc[c] = "acking" /\ sub' = AfterAck(sub, i)
      /\ settled' = settled \cup Entries(DOMAIN sub \ DOMAIN sub')
      /\ \A d \in Clients \ {c} : pc'[d] = pc[d] /\ arg'[d] = arg[d]
      /\ UNCHANGED <<dead, publishing, batch, seekVars>>
  BY <1>1 DEF AckApplied, PubSubTypeOK
<1>3. \A j, k : GoneBefore(j, k) => GoneBefore(j, k)'
  <2>1. \A d \in Clients : pc[d] = "forwarding" =>
            pc'[d] = "forwarding" /\ arg'[d] = arg[d] /\ batch'[d] = batch[d]
    BY <1>2
  <2> QED BY <1>2, <2>1, GoneStays
<1>4. CASE sub' = sub
  <2>1. DOMAIN sub \ DOMAIN sub' = {}
    BY <1>4
  <2> QED BY <1>2, <1>3, <1>4, <2>1, TakeOutOrder DEF seekVars
<1>5. CASE sub' = AfterRemove(sub, {i})
  <2>1. LET new == AfterRemove(sub, {i}) IN
        /\ DOMAIN new = DOMAIN sub \ {i}
        /\ \A j \in DOMAIN sub \ {i} : new[j] = sub[j]
    BY <1>1, RemoveBox
  <2>2. DOMAIN sub' = DOMAIN sub \ {i} /\ \A j \in DOMAIN sub' : sub'[j] = sub[j]
    BY <1>5, <2>1
  <2>3. \A j \in DOMAIN sub \ DOMAIN sub' : <<j, sub[j].key>> \in settled'
    BY <1>2 DEF Entries
  <2> QED BY <1>2, <1>3, <2>2, <2>3, TakeOutOrder DEF seekVars
<1>6. CASE /\ i \in DOMAIN sub /\ sub[i].key # NoKey /\ ~sub[i].acked
           /\ sub' = AfterAckKeyed(sub, i) /\ Reflagged(sub', sub)
  <2>1. KeysSorted(sub) => KeysSorted(sub') /\ HeldWaits(sub', sub)
    BY <1>1, <1>6, AckKeyedSorted
  <2> QED BY <1>2, <1>3, <1>6, <2>1, FlagsOrder DEF seekVars
<1>7. \/ sub' = sub \/ sub' = AfterRemove(sub, {i})
      \/ /\ i \in DOMAIN sub /\ sub[i].key # NoKey /\ ~sub[i].acked
         /\ sub' = AfterAckKeyed(sub, i) /\ Reflagged(sub', sub)
  BY <1>1, <1>2, AckBox
<1> QED BY <1>4, <1>5, <1>6, <1>7

LEMMA ModAckAppliedOrder ==
    ASSUME OrderInv, OnePublisher, SameLength, NEW c \in Clients, ModAckApplied(c)
    PROVE  OrderOK'
<1> DEFINE new == AfterModAck(sub, arg[c].id, arg[c].seconds, arg[c].at)
<1>1. PubSubTypeOK /\ IsBox(sub) /\ arg[c].seconds \in Nat /\ arg[c].at \in Nat
  BY DEF OrderInv, PubSubInv, PubSubTypeOK
<1>2. /\ pc[c] = "modifying" /\ sub' = new
      /\ \A d \in Clients \ {c} : pc'[d] = pc[d] /\ arg'[d] = arg[d]
      /\ UNCHANGED <<dead, publishing, batch, seekVars, settled>>
  BY <1>1 DEF ModAckApplied, PubSubTypeOK
<1>3. \A j, k : GoneBefore(j, k) => GoneBefore(j, k)'
  <2>1. \A d \in Clients : pc[d] = "forwarding" =>
            pc'[d] = "forwarding" /\ arg'[d] = arg[d] /\ batch'[d] = batch[d]
    BY <1>2
  <2> QED BY <1>2, <2>1, GoneStays
<1>4. Reflagged(new, sub) /\ (KeysSorted(sub) => KeysSorted(new) /\ HeldWaits(new, sub))
  BY <1>1, ModAckBox, ModAckSorted
<1> HIDE DEF new
<1> QED BY <1>2, <1>3, <1>4, FlagsOrder DEF seekVars

\* A request that has not put anything: what it numbers comes last.
LEMMA PublishOrder ==
    ASSUME OrderInv, OnePublisher, NEW p \in Publishers,
           \/ \E n \in 1..BatchSize, k \in Keys \cup {NoKey}, m \in Matches : TopicPublish(p, n, k, m)
           \/ PublishDraw(p) \/ PublishFails(p)
    PROVE  OrderOK'
<1> USE DEF clientVars, seekVars
<1>1. UNCHANGED <<sub, dead, clientVars, seekVars, settled>>
  BY DEF TopicPublish, PublishDraw, PublishFails
<1> SUFFICES ASSUME seeks = 0
             PROVE  KeysSorted(sub') /\ PutsLast' /\ HeldHasBlocker' /\ seeking' = "idle"
  BY <1>1 DEF OrderOK
<1>2. seeking = "idle" /\ KeysSorted(sub) /\ PutsLast /\ HeldHasBlocker
  BY DEF OrderInv, OrderOK
<1>3. /\ PubSubTypeOK /\ DOMAIN publishing = Publishers /\ seq \in Nat
      /\ \A j \in DOMAIN sub : j \in Nat /\ j <= seq
  BY DEF OrderInv, PubSubInv, PubSubTypeOK
<1>4. ASSUME publishing' = publishing PROVE PutsLast'
  BY <1>1, <1>2, <1>4 DEF PutsLast
<1>5. ASSUME PublishFails(p) PROVE PutsLast'
  <2>1. DOMAIN publishing'[p] = {}
    BY <1>3, <1>5, EmptyBoxIsBox DEF PublishFails
  <2>2. \A q \in Publishers : DOMAIN publishing'[q] = {}
    BY <2>1 DEF OnePublisher
  <2> QED BY <2>2 DEF PutsLast
<1>6. ASSUME PublishDraw(p) PROVE PutsLast'
  <2>1. PICK m : m = NewMessage(seq + 1, drawing[p])
    OBVIOUS
  <2>2. publishing'[p] = AfterPut(publishing[p], seq + 1, m) /\ seq < MaxPublished
    BY <1>3, <1>6, <2>1 DEF PublishDraw
  <2>3. ~m.acked /\ ~m.held
    BY <1>3, <2>1, <2>2, NewMessageOK
  <2>4. ASSUME NEW q \in Publishers, NEW i \in DOMAIN publishing'[q]
        PROVE  /\ \A j \in DOMAIN sub' : j < i
               /\ ~publishing'[q][i].acked /\ ~publishing'[q][i].held
    <3>1. q = p
      BY DEF OnePublisher
    <3>2. CASE i = seq + 1
      <4>1. publishing'[p][i] = m
        BY <2>2, <3>2 DEF AfterPut
      <4> QED BY <1>1, <1>3, <2>3, <3>1, <3>2, <4>1
    <3>3. CASE i # seq + 1
      <4>1. i \in DOMAIN publishing[p] /\ publishing'[p][i] = publishing[p][i]
        BY <2>2, <2>4, <3>1, <3>3 DEF AfterPut
      <4> QED BY <1>1, <1>2, <3>1, <4>1 DEF PutsLast
    <3> QED BY <3>2, <3>3
  <2> QED BY <2>4 DEF PutsLast
<1>7. PutsLast'
  BY <1>4, <1>5, <1>6 DEF TopicPublish
<1>8. HeldHasBlocker'
  BY <1>1, <1>2 DEF HeldHasBlocker, Earlier
<1> QED BY <1>1, <1>2, <1>7, <1>8

LEMMA PublishPutOrder ==
    ASSUME OrderInv, OnePublisher, SameLength, NEW p \in Publishers, PublishPut(p)
    PROVE  OrderOK'
<1> USE DEF clientVars, seekVars
<1> SUFFICES ASSUME seeks = 0
             PROVE  KeysSorted(sub') /\ PutsLast' /\ HeldHasBlocker' /\ seeking' = "idle"
  BY DEF OrderOK, PublishPut
<1>1. seeking = "idle" /\ KeysSorted(sub) /\ PutsLast /\ HeldHasBlocker
  BY DEF OrderInv, OrderOK
<1>2. PubSubTypeOK /\ IsBox(sub)
  BY DEF OrderInv, PubSubInv, PubSubTypeOK
<1>3. PICK i : i = NextToPut(p)
  OBVIOUS
<1>4. PICK m : m = publishing[p][i]
  OBVIOUS
<1>5. /\ publishing[p] # EmptyBox
      /\ sub' = AfterPut(sub, i, m)
      /\ publishing'[p] = AfterRemove(publishing[p], {i})
      /\ UNCHANGED <<now, seq, dead, clientVars, seekVars, settled>>
  BY <1>2, <1>3, <1>4 DEF PublishPut, PubSubTypeOK
<1>6. /\ i \in DOMAIN publishing[p] /\ i \in Ids /\ m \in Messages
      /\ \A j \in DOMAIN publishing[p] : j \in Nat /\ i <= j
  <2>1. i \in DOMAIN publishing[p] /\ \A j \in DOMAIN publishing[p] : i <= j
    BY <1>2, <1>3, <1>5, NextToPutLeast
  <2>2. \A j \in DOMAIN publishing[p] : j \in Ids /\ j \in Nat /\ publishing[p][j] \in Messages
    BY <1>2, IdsNat DEF PubSubTypeOK, IsBox
  <2> QED BY <1>4, <2>1, <2>2
<1>7. (\A j \in DOMAIN sub : j < i) /\ ~m.acked /\ ~m.held
  BY <1>1, <1>4, <1>6 DEF PutsLast
<1>8. /\ DOMAIN sub' = DOMAIN sub \cup {i} /\ sub'[i] = m
      /\ \A j \in DOMAIN sub : sub'[j] = sub[j]
  <2>1. /\ IsBox(AfterPut(sub, i, m)) /\ DOMAIN AfterPut(sub, i, m) = DOMAIN sub \cup {i}
        /\ AfterPut(sub, i, m)[i] = m
        /\ \A j \in DOMAIN sub \ {i} : AfterPut(sub, i, m)[j] = sub[j]
    BY <1>2, <1>6, PutBox
  <2>2. i \notin DOMAIN sub
    BY <1>6, <1>7
  <2> QED BY <1>5, <2>1, <2>2
<1>9. /\ \A j, l \in DOMAIN sub : Before(sub', j, l) <=> Before(sub, j, l)
      /\ \A j \in DOMAIN sub : ~Before(sub', i, j)
  <2>1. \A j, l \in DOMAIN sub : Before(sub', j, l) <=> Before(sub, j, l)
    BY <1>8 DEF Before
  <2>2. ASSUME NEW j \in DOMAIN sub PROVE ~Before(sub', i, j)
    <3> DEFINE x == <<j, sub[j].key, sub[j].at, sub[j].src>>
               y == <<i, m.key, m.at, m.src>>
    <3>1. x \in StoredCopies /\ y \in FreshCopies
      BY <1>4, <1>6, CopyOf DEF StoredCopies, FreshCopies
    <3>2. /\ x[1] \in FirstSeq + 1 .. seq /\ y[1] \in FirstSeq + 1 .. seq
          /\ x[1] <= y[1] => x[3] <= y[3]
      BY <3>1 DEF OrderInv, PubSubInv, CopiesOK, TimesOK
    <3>3. /\ i \in FirstSeq + 1 .. MaxId /\ j \in FirstSeq + 1 .. MaxId
          /\ i \in Nat /\ j \in Nat /\ j < i /\ sub[j].at <= m.at
      <4>1. seq \in Nat /\ seq <= MaxId /\ MaxId \in Nat /\ FirstSeq \in Nat
        BY <1>2, PubSubAssumption, PubSubStoreAssumption, SMT DEF PubSubTypeOK
      <4> QED BY <1>7, <3>2, <4>1
    <3>4. IdBefore(j, i) /\ i \in Ids /\ j \in Ids
      BY <1>2, <1>6, <3>3 DEF SameLength, IsBox
    <3>5. ~IdBefore(i, j)
      BY <3>4, IdOrder
    <3>6. m.at \in Nat /\ sub[j].at \in Nat
      BY <1>2, <1>6 DEF IsBox, Messages
    <3> QED BY <1>8, <3>3, <3>5, <3>6 DEF Before
  <2> QED BY <2>1, <2>2
<1>10. KeysSorted(sub')
  BY <1>1, <1>7, <1>8, <1>9 DEF KeysSorted
<1>11. PutsLast'
  <2>1. /\ DOMAIN publishing'[p] = DOMAIN publishing[p] \ {i}
        /\ \A j \in DOMAIN publishing'[p] : publishing'[p][j] = publishing[p][j]
    BY <1>5 DEF AfterRemove
  <2>2. ASSUME NEW q \in Publishers, NEW j \in DOMAIN publishing'[q]
        PROVE  /\ \A l \in DOMAIN sub' : l < j
               /\ ~publishing'[q][j].acked /\ ~publishing'[q][j].held
    <3>1. q = p
      BY DEF OnePublisher
    <3>2. j \in DOMAIN publishing[p] /\ j # i
      BY <2>1, <2>2, <3>1
    <3>3. i < j
      BY <1>6, <3>2
    <3> QED BY <1>1, <1>8, <2>1, <2>2, <3>1, <3>2, <3>3 DEF PutsLast
  <2> QED BY <2>2 DEF PutsLast
<1>12. HeldHasBlocker'
  <2>1. ASSUME NEW j \in DOMAIN sub', sub'[j].held, NEW k, k = sub'[j].key
        PROVE  ~sub'[j].acked /\ (Waits(sub', j) \/ GoneBefore(j, k)')
    <3>1. j \in DOMAIN sub /\ sub[j].held /\ sub[j].key = k /\ sub'[j].acked = sub[j].acked
      BY <1>7, <1>8, <2>1
    <3>2. ~sub[j].acked /\ (Waits(sub, j) \/ GoneBefore(j, k))
      BY <1>1, <3>1, HeldReason
    <3>3. GoneBefore(j, k) => GoneBefore(j, k)'
      BY <1>5 DEF GoneBefore
    <3>4. Waits(sub, j) => Waits(sub', j)
      BY <1>8, <1>9, <3>1 DEF Waits, Earlier
    <3> QED BY <3>1, <3>2, <3>3, <3>4
  <2> QED BY <2>1 DEF HeldHasBlocker, Waits, GoneBefore
<1> QED BY <1>1, <1>5, <1>10, <1>11, <1>12

LEMMA OrderInit ==
    ASSUME PubSubInit
    PROVE  OrderOK
<1>1. DOMAIN sub = {} /\ \A p \in Publishers : DOMAIN publishing[p] = {}
  BY EmptyBoxIsBox DEF PubSubInit
<1>2. KeysSorted(sub) /\ PutsLast /\ HeldHasBlocker
  BY <1>1 DEF KeysSorted, PutsLast, HeldHasBlocker
<1> QED BY <1>2 DEF OrderOK, PubSubInit

LEMMA OrderNext ==
    ASSUME OrderInv, OnePublisher, SameLength, [PubSubNext]_vars
    PROVE  OrderOK'
<1>1. CASE UNCHANGED vars \/ Tick \/ SnapshotList \/ CreateSnapshot
  <2>1. UNCHANGED <<sub, dead, publishing, settled, seeks, seeking, pc, arg, batch>>
    BY <1>1 DEF vars, Tick, SnapshotList, CreateSnapshot, clientVars, seekVars
  <2> QED BY <2>1, LocalStepOrder
<1>2. CASE SeekNext /\ ~SnapshotList /\ ~CreateSnapshot
  <2>1. seeks' # 0 \/ (seeks' = seeks /\ seeking # "idle")
    <3>1. seeks \in Nat
      BY DEF OrderInv, PubSubInv, PubSubTypeOK
    <3> QED BY <1>2, <3>1 DEF SeekNext, SeekToSnapshot, SeekToTime, SeekBegins, SeekTrim,
               SeekBump, SeekRelease, SeekClear, SeekCleared, SeekRestore, SeekRestored, SeekEnds
  <2> QED BY <2>1 DEF OrderInv, OrderOK
<1>3. ASSUME NEW p \in Publishers, PublisherNext(p) PROVE OrderOK'
  BY <1>3, PublishOrder, PublishPutOrder DEF PublisherNext
<1>4. ASSUME NEW c \in Clients, ClientNext(c) PROVE OrderOK'
  <2>1. ASSUME NEW a \in issued, AckChecked(c, a[1], a[2]) PROVE OrderOK'
    BY <2>1, CheckedOrder
  <2>2. ASSUME NEW a \in issued, NEW s \in Extensions, ModAckChecked(c, a[1], a[2], s)
        PROVE  OrderOK'
    BY <2>2, CheckedOrder
  <2>3. ASSUME NEW i \in DOMAIN batch[c], PullFiltered(c, i) \/ PullExhausted(c, i)
        PROVE  OrderOK'
    BY <2>3, PullFilteredOrder, PullExhaustedOrder
  <2>4. ASSUME SubscriptionPull(c) \/ PullForward(c) \/ PullFails(c) \/ PullAnswers(c)
        PROVE  OrderOK'
    BY <2>4, SubscriptionPullOrder, PullForwardOrder, PullAnswersOrder
  <2>5. ASSUME AckApplied(c) \/ ModAckApplied(c) PROVE OrderOK'
    BY <2>5, AckAppliedOrder, ModAckAppliedOrder
  <2> QED BY <1>4, <2>1, <2>2, <2>3, <2>4, <2>5 DEF ClientNext
<1> QED BY <1>1, <1>2, <1>3, <1>4 DEF PubSubNext, SeekNext

LEMMA OrderAcked ==
    ASSUME OrderInv, OnePublisher, SameLength
    PROVE  AckedPrefix
<1> SUFFICES ASSUME seeks = 0, NEW i \in DOMAIN sub, NEW j \in DOMAIN sub,
                    i < j, sub[i].key = sub[j].key, sub[j].acked
             PROVE  sub[i].acked
  BY DEF AckedPrefix
<1>1. Before(sub, i, j)
  BY InOrder DEF OrderInv
<1> QED BY <1>1 DEF OrderInv, OrderOK, KeysSorted

\* Acks are applied in publish order within a key as long as requests to publish
\* follow each other, ids have one length and no seek ran, for any clients and any
\* order of acks, nacks and expiries.
THEOREM AcksInOrder ==
    ASSUME OnePublisher, SameLength
    PROVE  PubSubSpec => []AckedPrefix
<1>1. PubSubInit => OrderOK
  BY OrderInit
<1>2. PubSubInv /\ OrderOK /\ [PubSubNext]_vars => OrderOK'
  BY OrderNext DEF OrderInv
<1>3. PubSubInv /\ OrderOK => AckedPrefix
  BY OrderAcked DEF OrderInv
<1> QED BY <1>1, <1>2, <1>3, PubSubInvariant, PTL DEF PubSubSpec

\* Under the same conditions a held ack waits for an unacknowledged message of its
\* key or is behind one that left the subscription in another way than by an ack.
THEOREM HeldAcksWait ==
    ASSUME OnePublisher, SameLength
    PROVE  PubSubSpec => [](seeks = 0 => HeldHasBlocker)
<1>1. PubSubInit => OrderOK
  BY OrderInit
<1>2. PubSubInv /\ OrderOK /\ [PubSubNext]_vars => OrderOK'
  BY OrderNext DEF OrderInv
<1>3. OrderOK => (seeks = 0 => HeldHasBlocker)
  BY DEF OrderOK
<1> QED BY <1>1, <1>2, <1>3, PubSubInvariant, PTL DEF PubSubSpec

-----------------------------------------------------------------------------
(* Pulls in publish order *)

\* A message that a step other than a pull leaves in the subscription is not claimed.
NoneClaimed ==
    \A j \in DOMAIN sub \cap DOMAIN sub' :
        sub'[j].attempt = sub[j].attempt \/ sub'[j].visibleAt = 0

LEMMA RemoveClaimsNone ==
    ASSUME IsBox(sub), NEW S, sub' = AfterRemove(sub, S)
    PROVE  NoneClaimed
BY RemoveBox DEF NoneClaimed, AfterRemove

LEMMA ReflagClaimsNone ==
    ASSUME Reflagged(sub', sub)
    PROVE  NoneClaimed
BY DEF NoneClaimed, Reflagged, SameMessage

LEMMA ClientClaimsNone ==
    ASSUME PubSubInv, NEW c \in Clients, ClientNext(c), ~SubscriptionPull(c)
    PROVE  NoneClaimed
<1>1. IsBox(sub) /\ arg[c].seconds \in Nat /\ arg[c].at \in Nat
  BY DEF PubSubInv, PubSubTypeOK
<1>2. CASE sub' = sub
  BY <1>2 DEF NoneClaimed
<1>3. CASE AckApplied(c)
  <2>1. \/ Reflagged(sub', sub)
        \/ sub' = AfterRemove(sub, {arg[c].id})
    <3>1. sub' = AfterAck(sub, arg[c].id)
      BY <1>3 DEF AckApplied
    <3> QED BY <1>1, <3>1, AckBox
  <2> QED BY <1>1, <2>1, RemoveClaimsNone, ReflagClaimsNone
<1>4. CASE ModAckApplied(c)
  <2>1. sub' = AfterModAck(sub, arg[c].id, arg[c].seconds, arg[c].at)
    BY <1>4 DEF ModAckApplied
  <2>2. Reflagged(sub', sub)
    BY <1>1, <2>1, ModAckBox
  <2> QED BY <2>2, ReflagClaimsNone
<1>5. ASSUME NEW i, PullFiltered(c, i) \/ PullExhausted(c, i) PROVE NoneClaimed
  <2>1. sub' = AfterRemove(sub, {i})
    BY <1>5 DEF PullFiltered, PullExhausted
  <2> QED BY <1>1, <2>1, RemoveClaimsNone
<1> QED BY <1>2, <1>3, <1>4, <1>5 DEF ClientNext, PullForward, PullFails, PullAnswers,
       AckChecked, ModAckChecked

LEMMA PublisherClaimsNone ==
    ASSUME PubSubInv, NEW p \in Publishers, PublisherNext(p)
    PROVE  NoneClaimed
<1>1. CASE sub' = sub
  BY <1>1 DEF NoneClaimed
<1>2. CASE PublishPut(p)
  <2>1. PICK i : i = NextToPut(p)
    OBVIOUS
  <2>2. publishing[p] # EmptyBox /\ sub' = AfterPut(sub, i, publishing[p][i])
    BY <1>2, <2>1 DEF PublishPut
  <2>3. i \in DOMAIN publishing[p]
    BY <2>1, <2>2, NextToPutLeast DEF PubSubInv
  <2>4. i \notin DOMAIN sub
    <3>1. SUFFICES ASSUME i \in DOMAIN sub PROVE FALSE
      OBVIOUS
    <3> DEFINE x == <<i, sub[i].key, sub[i].at, sub[i].src>>
               y == <<i, publishing[p][i].key, publishing[p][i].at, publishing[p][i].src>>
    <3>2. x \in StoredCopies /\ y \in FreshCopies
      BY <2>3, <3>1, CopyOf DEF StoredCopies, FreshCopies
    <3>3. x[1] # y[1]
      BY <3>2 DEF PubSubInv, CopiesOK
    <3> QED BY <3>3
  <2> QED BY <2>2, <2>4 DEF NoneClaimed, AfterPut
<1> QED BY <1>1, <1>2 DEF PublisherNext, TopicPublish, PublishDraw, PublishFails

LEMMA SeekClaimsNone ==
    ASSUME PubSubInv, SeekNext
    PROVE  NoneClaimed
<1>1. IsBox(sub) /\ IsBox(todo) /\ now \in Nat
  BY DEF PubSubInv, PubSubTypeOK
<1>2. CASE sub' = sub
  BY <1>2 DEF NoneClaimed
<1>3. CASE SeekTrim \/ SeekClear
  <2>1. sub' = AfterRemove(sub, {First(todo)})
    BY <1>3 DEF SeekTrim, SeekClear
  <2> QED BY <1>1, <2>1, RemoveClaimsNone
<1>4. CASE SeekBump
  <2>1. PICK S : S = DOMAIN PublishedSince(listed, target)
    OBVIOUS
  <2>2. sub' = AfterBump(sub, S)
    BY <1>4, <2>1 DEF SeekBump
  <2>3. LET new == AfterBump(sub, S) IN \A i \in DOMAIN sub : new[i].attempt = sub[i].attempt
    BY <1>1, BumpBox
  <2> QED BY <2>2, <2>3 DEF NoneClaimed
<1>5. CASE SeekRelease
  <2>1. sub' = AfterModAck(sub, First(todo), 0, now)
    BY <1>5 DEF SeekRelease
  <2>2. Reflagged(sub', sub)
    BY <1>1, <2>1, ModAckBox
  <2> QED BY <2>2, ReflagClaimsNone
<1>6. CASE SeekRestore
  <2>1. PICK f : f = First(todo)
    OBVIOUS
  <2>2. PICK m : m = Restore(f, todo[f])
    OBVIOUS
  <2>3. todo # EmptyBox /\ sub' = AfterPut(sub, f, m)
    BY <1>6, <2>1, <2>2 DEF SeekRestore
  <2>4. f \in DOMAIN todo
    BY <1>1, <2>1, <2>3, FirstIn
  <2>5. m.visibleAt = 0
    <3>1. todo[f] \in Messages
      BY <1>1, <2>4 DEF IsBox
    <3> QED BY <2>2, <3>1 DEF Restore, Messages
  <2> QED BY <2>3, <2>5 DEF NoneClaimed, AfterPut
<1> QED BY <1>2, <1>3, <1>4, <1>5, <1>6 DEF SeekNext, SnapshotList, CreateSnapshot, SeekToSnapshot, SeekToTime,
       SeekBegins, SeekCleared, SeekRestored, SeekEnds

\* A set of ids that is part of another has no more elements.
LEMMA FewerIds ==
    ASSUME NEW T \in SUBSET Ids, NEW S \in SUBSET T, NEW n \in Nat, Cardinality(T) < n
    PROVE  Cardinality(S) < n
<1>1. IsFiniteSet(Ids)
  BY PubSubStoreAssumption, FS_Interval, SMT DEF Ids
<1>2. IsFiniteSet(T)
  BY <1>1, FS_Subset
<1>3. Cardinality(S) <= Cardinality(T) /\ IsFiniteSet(S)
  BY <1>2, FS_Subset
<1>4. Cardinality(S) \in Nat /\ Cardinality(T) \in Nat
  BY <1>2, <1>3, FS_CardinalityType
<1> QED BY <1>3, <1>4

\* Pull: with a message of a key comes every earlier unacknowledged one.
LEMMA PullClaimsPrefix ==
    ASSUME NEW b, IsBox(b), NEW max \in Nat, NEW r, NEW t,
           NEW i \in DOMAIN b, NEW j \in Claimed(b, max, r, t),
           b[i].key = b[j].key, b[i].key # NoKey, Before(b, i, j), ~b[i].acked,
           i \notin Lapsed(b, max, r, t)
    PROVE  i \in Claimed(b, max, r, t)
<1> DEFINE A == Available(b, r, t)
           S(l) == {m \in A : Before(b, m, l)}
<1>1. /\ j \in A /\ j \in DOMAIN b /\ A \subseteq DOMAIN b
      /\ Cardinality(S(j)) < max
  BY DEF Claimed, Visited, Available
<1>2. DOMAIN b \subseteq Ids
  BY DEF IsBox
<1>3. S(i) \subseteq S(j)
  BY <1>1, BeforeOrder
<1>4. Cardinality(S(i)) < max
  <2>1. S(j) \in SUBSET Ids
    BY <1>1, <1>2
  <2> HIDE DEF S
  <2> QED BY <1>1, <1>3, <2>1, FewerIds
<1>5. i \in Visited(b, max, r, t)
  BY <1>4 DEF Visited
<1>6. ~Expired(b[i], r, t)
  BY <1>5 DEF Lapsed
<1>7. b[i].key \in Keys
  BY DEF IsBox, Messages
<1>8. b[j].key \notin GatedKeys(b, t)
  BY <1>1 DEF Available
<1>9. ~InFlight(b[i], t)
  BY <1>7, <1>8 DEF GatedKeys
<1>10. i \in A
  BY <1>6, <1>8, <1>9 DEF Available
<1> QED BY <1>5, <1>10 DEF Claimed

LEMMA PullPrefix ==
    ASSUME PubSubInv, NEW c \in Clients, SubscriptionPull(c),
           NEW i \in DOMAIN sub, NEW j \in DOMAIN sub, Before(sub, i, j),
           sub[i].key = sub[j].key, sub[i].key # NoKey,
           i \in DOMAIN sub', j \in DOMAIN sub', ~sub'[i].acked, ClaimedNow(j)
    PROVE  ClaimedNow(i)
<1> DEFINE C == Claimed(sub, MaxMessages, Retention, now)
           L == Lapsed(sub, MaxMessages, Retention, now)
           new == AfterPull(sub, MaxMessages, AckDeadline, Retention, now)
<1>1. /\ IsBox(sub) /\ now \in Nat /\ now >= 1 /\ AckDeadline \in Nat /\ MaxMessages \in Nat
      /\ sub' = new
  BY PubSubAssumption DEF PubSubInv, PubSubTypeOK, SubscriptionPull
<1>2. /\ DOMAIN new = DOMAIN sub \ L /\ SameAcks(new, sub)
      /\ ClaimedUntil(new, sub, C, now + AckDeadline)
  BY <1>1, PullBox
<1>3. i \in DOMAIN new /\ j \in DOMAIN new /\ {sub[i].attempt, sub[j].attempt} \subseteq Nat
  <2>1. {sub[i].attempt, sub[j].attempt} \subseteq Nat
    BY <1>1 DEF IsBox, Messages
  <2> HIDE DEF new
  <2> QED BY <1>1, <2>1
<1>4. j \in C
  <2> HIDE DEF C, L, new
  <2> QED BY <1>1, <1>2, <1>3 DEF ClaimedNow, ClaimedUntil
<1>5. ~sub[i].acked /\ i \notin L
  <2> HIDE DEF C, L, new
  <2> QED BY <1>1, <1>2, <1>3 DEF SameAcks
<1>6. i \in C
  <2> HIDE DEF new
  <2> QED BY <1>1, <1>4, <1>5, PullClaimsPrefix
<1> HIDE DEF C, L, new
<1> QED BY <1>1, <1>2, <1>3, <1>6 DEF ClaimedNow, ClaimedUntil

LEMMA StepPrefix ==
    ASSUME PubSubInv, [PubSubNext]_vars,
           NEW i \in DOMAIN sub, NEW j \in DOMAIN sub, Before(sub, i, j),
           sub[i].key = sub[j].key, sub[i].key # NoKey,
           i \in DOMAIN sub', j \in DOMAIN sub', ~sub'[i].acked, ClaimedNow(j)
    PROVE  ClaimedNow(i)
<1>1. CASE NoneClaimed
  <2>1. sub[j].attempt \in Nat
    BY DEF PubSubInv, PubSubTypeOK, IsBox, Messages
  <2> QED BY <1>1, <2>1 DEF NoneClaimed, ClaimedNow
<1>2. CASE UNCHANGED vars \/ Tick
  <2>1. sub' = sub
    BY <1>2 DEF vars, Tick
  <2> QED BY <1>1, <2>1 DEF NoneClaimed
<1>3. CASE SeekNext
  BY <1>1, <1>3, SeekClaimsNone
<1>4. ASSUME NEW p \in Publishers, PublisherNext(p) PROVE ClaimedNow(i)
  BY <1>1, <1>4, PublisherClaimsNone
<1>5. ASSUME NEW c \in Clients, ClientNext(c) PROVE ClaimedNow(i)
  BY <1>1, <1>5, PullPrefix, ClientClaimsNone
<1> QED BY <1>2, <1>3, <1>4, <1>5 DEF PubSubNext

\* Pull claims the messages of a key from its first unacknowledged one on, in the
\* order of the store: publish time, then id (memory.go: the loop of Pull and
\* inFlightGroups), for any number of publishers and clients and with seeks.
THEOREM PullsInOrder == PubSubSpec => PullsKeyPrefix
<1> DEFINE Prefix ==
        \A i, j \in DOMAIN sub :
            /\ Before(sub, i, j) /\ sub[i].key = sub[j].key /\ sub[i].key # NoKey
            /\ {i, j} \subseteq DOMAIN sub' /\ ~sub'[i].acked
            /\ ClaimedNow(j)
            => ClaimedNow(i)
<1>1. PubSubInv /\ [PubSubNext]_vars => Prefix
  BY StepPrefix
<1>2. PubSubInv /\ [PubSubNext]_vars => [Prefix]_vars
  BY <1>1
<1> HIDE DEF Prefix
<1>3. PubSubSpec => [][Prefix]_vars
  BY <1>2, PubSubInvariant, PTL DEF PubSubSpec
<1> QED BY <1>3 DEF PullsKeyPrefix, Prefix
=============================================================================
