----------------------------- MODULE SqsProofs ------------------------------
(***************************************************************************)
(* Proofs about SqsQueue and SqsMove.                                      *)
(*                                                                         *)
(*  - Types and group order: the lemmas say what each operation of the     *)
(*    store preserves, and there is one step per action.                   *)
(*  - Leases: a consumer's claims on messages, and that nobody breaks one. *)
(*  - Losses: the redrive sends before it deletes.                         *)
(*  - Move tasks keep types and group order, and claims like consumers do. *)
(*  - One of each message: the copies are counted by who carries one.      *)
(***************************************************************************)
EXTENDS SqsMove, FiniteSetTheorems, TLAPS

\* What Receive does to a message it takes.
LEMMA ReceivedMessage ==
    ASSUME NEW m \in Message, NEW t \in Nat
    PROVE  /\ Received(m, t) \in Message
           /\ Received(m, t).group = m.group
           /\ Received(m, t).delayUntil = m.delayUntil
<1> DEFINE count == m.count + 1
           at == t + TempVisibility
<1>2. Received(m, t) = [m EXCEPT !.count = count, !.visibleAt = at]
  BY DEF Received
<1>3. count \in Nat /\ at \in Nat
  BY SqsStoreAssumption DEF Message
<1> HIDE DEF count, at
<1> QED BY <1>2, <1>3 DEF Message

\* Receive keeps the queue well formed and in group order: it takes a message
\* of a group only if every earlier one is delayed.
LEMMA ReceiveKeeps ==
    ASSUME NEW q, IsQueue(q), NEW max \in Nat, NEW t \in Nat
    PROVE  /\ IsQueue(AfterReceive(q, max, t))
           /\ DOMAIN AfterReceive(q, max, t) = DOMAIN q
           /\ InGroupOrder(q) => InGroupOrder(AfterReceive(q, max, t))
<1> DEFINE r == AfterReceive(q, max, t)
<1>1. DOMAIN r = DOMAIN q
  BY DEF AfterReceive
<1>2. \A i \in DOMAIN q :
         r[i] = IF i \in Picked(q, max, t) THEN Received(q[i], t) ELSE q[i]
  BY DEF AfterReceive
<1>3. \A i \in DOMAIN q : q[i] \in Message
  BY DEF IsQueue
<1>4. \A i \in DOMAIN q : /\ r[i] \in Message
                          /\ r[i].group = q[i].group
                          /\ r[i].delayUntil = q[i].delayUntil
                          /\ i \notin Picked(q, max, t) => r[i].count = q[i].count
  <2> SUFFICES ASSUME NEW i \in DOMAIN q
               PROVE  /\ r[i] \in Message
                      /\ r[i].group = q[i].group
                      /\ r[i].delayUntil = q[i].delayUntil
                      /\ i \notin Picked(q, max, t) => r[i].count = q[i].count
    OBVIOUS
  <2> HIDE DEF r
  <2>2. CASE i \in Picked(q, max, t)
    BY <1>2, <1>3, <2>2, ReceivedMessage
  <2>3. CASE i \notin Picked(q, max, t)
    BY <1>2, <1>3, <2>3
  <2> QED BY <2>2, <2>3
<1>5. IsQueue(r)
  BY <1>1, <1>4 DEF IsQueue, AfterReceive
<1>6. ASSUME InGroupOrder(q), NEW i \in DOMAIN q, NEW j \in DOMAIN q,
             i < j, q[i].group = q[j].group, q[i].group # NoGroup, r[j].count > 0
      PROVE  q[i].delayUntil > 0
  <2>1. CASE j \notin Picked(q, max, t)
    BY <1>4, <1>6, <2>1 DEF InGroupOrder
  <2>2. CASE j \in Picked(q, max, t)
    <3>1. j \in Candidates(q, t)
      BY <2>2 DEF Picked
    <3>2. ~Eligible(q, i, t) /\ Eligible(q, j, t)
      BY <3>1, <1>6 DEF Candidates
    <3>3. ~InFlight(q[i], t)
      BY <3>2, <1>6 DEF Eligible, InFlightGroups
    <3>4. t < q[i].delayUntil
      BY <3>2, <3>3, <1>6 DEF Eligible, Delayed
    <3> QED BY <3>4, <1>3 DEF Message
  <2> QED BY <2>1, <2>2
<1> QED BY <1>1, <1>4, <1>5, <1>6 DEF InGroupOrder

\* Hiding a message changes nothing but its visibleAt.
LEMMA ChangeVisibilityKeeps ==
    ASSUME NEW q, IsQueue(q), NEW h, NEW timeout \in Nat, NEW t \in Nat
    PROVE  /\ IsQueue(AfterChangeVisibility(q, h, timeout, t))
           /\ DOMAIN AfterChangeVisibility(q, h, timeout, t) = DOMAIN q
           /\ InGroupOrder(q) => InGroupOrder(AfterChangeVisibility(q, h, timeout, t))
<1> DEFINE r == AfterChangeVisibility(q, h, timeout, t)
<1>1. CASE ~Current(q, h)
  BY <1>1 DEF AfterChangeVisibility
<1>2. CASE Current(q, h)
  <2>1. r = [q EXCEPT ![h[1]].visibleAt = IF timeout = 0 THEN 0 ELSE t + timeout]
    BY <1>2 DEF AfterChangeVisibility
  <2>2. DOMAIN r = DOMAIN q
    BY <2>1
  <2>3. \A i \in DOMAIN q : q[i] \in Message
    BY DEF IsQueue
  <2>4. \A i \in DOMAIN q : /\ r[i] \in Message
                            /\ r[i].group = q[i].group
                            /\ r[i].delayUntil = q[i].delayUntil
                            /\ r[i].count = q[i].count
    BY <2>1, <2>3 DEF Message
  <2>5. r \in [DOMAIN q -> Message]
    BY <2>1, <2>2, <2>4
  <2> QED BY <2>2, <2>4, <2>5 DEF IsQueue, InGroupOrder
<1> QED BY <1>1, <1>2

\* Taking messages out of a queue keeps it well formed and in group order.
LEMMA WithoutKeeps ==
    ASSUME NEW q, IsQueue(q), NEW gone
    PROVE  /\ IsQueue(Without(q, gone))
           /\ DOMAIN Without(q, gone) \subseteq DOMAIN q
           /\ InGroupOrder(q) => InGroupOrder(Without(q, gone))
BY DEF IsQueue, Without, InGroupOrder

\* So do Delete and the retention sweep.
LEMMA DeleteKeeps ==
    ASSUME NEW q, IsQueue(q), NEW h
    PROVE  /\ IsQueue(AfterDelete(q, h))
           /\ DOMAIN AfterDelete(q, h) \subseteq DOMAIN q
           /\ InGroupOrder(q) => InGroupOrder(AfterDelete(q, h))
BY WithoutKeeps DEF AfterDelete

LEMMA SweepKeeps ==
    ASSUME NEW q, IsQueue(q), NEW t
    PROVE  /\ IsQueue(AfterSweep(q, t))
           /\ DOMAIN AfterSweep(q, t) \subseteq DOMAIN q
           /\ InGroupOrder(q) => InGroupOrder(AfterSweep(q, t))
BY WithoutKeeps DEF AfterSweep

\* The empty queue is well formed and in order.
LEMMA EmptyKeeps ==
    IsQueue(EmptyQueue) /\ DOMAIN EmptyQueue = {} /\ InGroupOrder(EmptyQueue)
BY DEF IsQueue, EmptyQueue, InGroupOrder

\* A message nobody has received yet may be appended.
LEMMA SendKeeps ==
    ASSUME NEW q, IsQueue(q), NEW n \in Nat, NEW m \in Message, NEW t \in Nat,
           \A i \in DOMAIN q : i < n
    PROVE  /\ IsQueue(AfterSend(q, n, m, t))
           /\ DOMAIN AfterSend(q, n, m, t) = DOMAIN q \cup {n}
           /\ m.count = 0 /\ InGroupOrder(q) => InGroupOrder(AfterSend(q, n, m, t))
<1> DEFINE r == AfterSend(q, n, m, t)
<1>1. DOMAIN r = DOMAIN q \cup {n}
  BY DEF AfterSend
<1>2. \A i \in DOMAIN q : r[i] = q[i] /\ q[i] \in Message /\ i \in Nat
  BY DEF AfterSend, IsQueue
<1>3. r[n] \in Message /\ r[n].count = m.count
  BY DEF AfterSend, Message
<1>4. IsQueue(r)
  BY <1>1, <1>2, <1>3 DEF IsQueue, AfterSend
<1>5. ASSUME m.count = 0, InGroupOrder(q), NEW i \in DOMAIN r, NEW j \in DOMAIN r,
             i < j, r[i].group = r[j].group, r[i].group # NoGroup, r[j].count > 0
      PROVE  r[i].delayUntil > 0
  <2>1. j # n
    BY <1>3, <1>5
  <2>2. j \in DOMAIN q /\ i \in DOMAIN q
    BY <1>1, <1>2, <1>5, <2>1
  <2> QED BY <1>2, <1>5, <2>2 DEF InGroupOrder
<1> QED BY <1>1, <1>4, <1>5 DEF InGroupOrder

-----------------------------------------------------------------------------

StoreOK == BoxTypeOK /\ GroupHeadOnly
SqsInv == SqsTypeOK /\ GroupHeadOnly

\* A step that replaces the contents of one queue by a part of them.
LEMMA BoxStep ==
    ASSUME StoreOK, NEW q \in Queues, NEW r, IsQueue(r), DOMAIN r \subseteq DOMAIN box[q],
           InGroupOrder(box[q]) => InGroupOrder(r),
           box' = [box EXCEPT ![q] = r], next' = next
    PROVE  StoreOK'
BY DEF StoreOK, BoxTypeOK, GroupHeadOnly

\* store.Send keeps the store in order.
LEMMA StoreSendStep ==
    ASSUME SqsInv, NEW q \in Queues, NEW m \in Message, m.count = 0, StoreSend(q, m)
    PROVE  StoreOK' /\ dedup' \in [Queues -> [DedupKeys -> Nat]]
<1> USE DEF SqsInv, SqsTypeOK
<1>1. CASE Duplicate(dedup[q], m, GroupScope, now)
  BY <1>1 DEF StoreSend, StoreOK, BoxTypeOK, GroupHeadOnly
<1>2. CASE ~Duplicate(dedup[q], m, GroupScope, now)
  <2> DEFINE r == AfterSend(box[q], next, m, now)
  <2>1. /\ dedup' = [dedup EXCEPT ![q] = AfterDedup(dedup[q], m, GroupScope, now)]
        /\ box' = [box EXCEPT ![q] = r]
        /\ next' = next + 1
    BY <1>2 DEF StoreSend
  <2>2. now \in Nat
    BY SqsQueueAssumption
  <2>3. IsQueue(r) /\ DOMAIN r = DOMAIN box[q] \cup {next} /\ InGroupOrder(r)
    <3>1. /\ IsQueue(box[q]) /\ InGroupOrder(box[q]) /\ next \in Nat
          /\ \A i \in DOMAIN box[q] : i < next
      BY DEF BoxTypeOK, GroupHeadOnly
    <3> HIDE DEF SqsInv, SqsTypeOK
    <3>2. m.count = 0 /\ InGroupOrder(box[q]) => InGroupOrder(r)
      BY <2>2, <3>1, SendKeeps
    <3>3. IsQueue(r) /\ DOMAIN r = DOMAIN box[q] \cup {next}
      BY <2>2, <3>1, SendKeeps
    <3> QED BY <3>1, <3>2, <3>3
  <2>4. dedup' \in [Queues -> [DedupKeys -> Nat]]
    <3>1. now + DedupWindow \in Nat
      BY <2>2, SqsStoreAssumption
    <3>2. AfterDedup(dedup[q], m, GroupScope, now) \in [DedupKeys -> Nat]
      BY <3>1 DEF AfterDedup
    <3> QED BY <2>1, <3>2
  <2> HIDE DEF r
  <2>5. \A i \in DOMAIN box[q] : i \in Nat /\ i < next
    BY DEF BoxTypeOK, IsQueue
  <2>6. \A p \in Queues : /\ IsQueue(box'[p]) /\ InGroupOrder(box'[p])
                          /\ \A i \in DOMAIN box'[p] : i < next'
    <3> SUFFICES ASSUME NEW p \in Queues
                 PROVE  /\ IsQueue(box'[p]) /\ InGroupOrder(box'[p])
                        /\ \A i \in DOMAIN box'[p] : i < next'
      OBVIOUS
    <3>1. CASE p = q
      BY <2>1, <2>3, <2>5, <3>1 DEF BoxTypeOK
    <3>2. CASE p # q
      <4>1. box'[p] = box[p]
        BY <2>1, <3>2 DEF BoxTypeOK
      <4>2. \A i \in DOMAIN box[p] : i \in Nat /\ i < next
        BY DEF BoxTypeOK, IsQueue
      <4> QED BY <2>1, <4>1, <4>2 DEF BoxTypeOK, GroupHeadOnly
    <3> QED BY <3>1, <3>2
  <2>7. next' \in Nat /\ DOMAIN box' = Queues
    BY <2>1 DEF BoxTypeOK
  <2> QED BY <2>4, <2>6, <2>7 DEF StoreOK, BoxTypeOK, GroupHeadOnly
<1> QED BY <1>1, <1>2

\* What a step that leaves the store and the clock alone has to preserve.
LEMMA StoreUnchanged == ASSUME StoreOK, UNCHANGED <<box, next>> PROVE StoreOK'
BY DEF StoreOK, BoxTypeOK, GroupHeadOnly

\* Every send keeps the invariant: the message is new, so nobody received it.
LEMMA AcceptStep ==
    ASSUME SqsInv, NEW id \in MessageIds, NEW g \in Groups \cup {NoGroup},
           NEW k \in DedupIds \cup {NoDedup}, NEW delay \in Nat, Accept(id, g, k, delay)
    PROVE  SqsInv'
<1> DEFINE m == NewMessage(id, g, k, delay)
<1>1. now \in Nat
  BY SqsQueueAssumption DEF SqsInv, SqsTypeOK
<1>2. m \in Message /\ m.count = 0
  BY <1>1 DEF NewMessage, Message
<1>3. StoreSend("source", m)
  BY DEF Accept
<1>4. StoreOK' /\ dedup' \in [Queues -> [DedupKeys -> Nat]]
  BY <1>2, <1>3, StoreSendStep DEF Queues
<1>5. /\ UNCHANGED <<now, pc, asked, deadline, woken, got, inbox>>
      /\ pending' = TRUE
      /\ fate' \in [MessageIds -> {"new", "duplicate", "accepted", "done"}]
  BY DEF Accept, pollVars, SqsInv, SqsTypeOK
<1> QED BY <1>4, <1>5 DEF SqsInv, SqsTypeOK, StoreOK, PollTypeOK

\* ReceiveMessage returns.
LEMMA ReturnStep ==
    ASSUME SqsInv, NEW c \in Consumers, Return(c),
           UNCHANGED <<now, box, next, dedup, pending, got, inbox, fate>>
    PROVE  SqsInv'
<1>1. StoreOK'
  BY StoreUnchanged DEF SqsInv, SqsTypeOK, StoreOK
<1>2. PollTypeOK'
  BY DEF Return, PollTypeOK, SqsInv, SqsTypeOK
<1> QED BY <1>1, <1>2 DEF SqsInv, SqsTypeOK, StoreOK

\* Everything but the store is left alone by a step that changes one queue.
LEMMA OneQueueStep ==
    ASSUME SqsInv, NEW q \in Queues, NEW r, IsQueue(r), DOMAIN r \subseteq DOMAIN box[q],
           InGroupOrder(box[q]) => InGroupOrder(r),
           box' = [box EXCEPT ![q] = r], UNCHANGED <<now, next, dedup, pending>>,
           PollTypeOK', inbox' \in [Consumers -> SUBSET Leases],
           fate' \in [MessageIds -> {"new", "duplicate", "accepted", "done"}]
    PROVE  SqsInv'
<1>1. StoreOK'
  BY BoxStep DEF SqsInv, SqsTypeOK, StoreOK
<1> QED BY <1>1 DEF SqsInv, SqsTypeOK, StoreOK

\* The facts about one queue the steps below start from.
LEMMA QueueFacts ==
    ASSUME SqsInv
    PROVE  /\ "source" \in Queues /\ now \in Nat
           /\ \A q \in Queues : IsQueue(box[q]) /\ InGroupOrder(box[q])
BY SqsQueueAssumption DEF SqsInv, SqsTypeOK, BoxTypeOK, GroupHeadOnly, Queues

\* What a handler copied out of the queue, and what is left of it.
LEMMA CopyFacts ==
    ASSUME SqsInv, NEW c \in Consumers, NEW i \in DOMAIN got[c]
    PROVE  /\ got[c][i] \in Message /\ Handle(got[c], i) \in Nat \X Nat
           /\ DOMAIN Handled(c, i) = Consumers
           /\ \A d \in Consumers : IsQueue(Handled(c, i)[d])
<1>1. DOMAIN got = Consumers /\ \A d \in Consumers : IsQueue(got[d])
  BY DEF SqsInv, SqsTypeOK, PollTypeOK
<1>2. got[c][i] \in Message /\ i \in Nat
  BY <1>1 DEF IsQueue
<1>3. Handle(got[c], i) \in Nat \X Nat
  BY <1>2 DEF Handle, Message
<1>4. IsQueue(Without(got[c], {i}))
  BY <1>1, WithoutKeeps
<1> QED BY <1>1, <1>2, <1>3, <1>4 DEF Handled

\* The copy sent to the dead-letter queue counts as not received.
LEMMA DeadLetterMessage ==
    ASSUME NEW m \in Message
    PROVE  DeadLetter(m) \in Message /\ DeadLetter(m).count = 0
BY DEF DeadLetter, Message

\* ReceiveMessage keeps the invariant, whatever the other handlers did between
\* its calls into the store.
LEMMA ReceiveStep ==
    ASSUME SqsInv, NEW c \in Consumers, Receive(c)
    PROVE  SqsInv'
<1> USE DEF SqsInv, SqsTypeOK
<1>0. StoreOK
  BY DEF StoreOK
<1>1. CASE ReceiveSome(c)
  <2> DEFINE t == ReceiveTime(c)
             r == AfterReceive(box["source"], MaxMessages, t)
  <2>1. t \in Nat /\ MaxMessages \in Nat
    BY QueueFacts, SqsQueueAssumption DEF ReceiveTime, PollTypeOK
  <2>2. IsQueue(r) /\ DOMAIN r = DOMAIN box["source"]
        /\ (InGroupOrder(box["source"]) => InGroupOrder(r))
    <3> HIDE DEF SqsInv, SqsTypeOK, t
    <3> QED BY <2>1, QueueFacts, ReceiveKeeps
  <2>3. /\ box' = [box EXCEPT !["source"] = r]
        /\ got' = [got EXCEPT ![c] = [i \in Available(c) |-> box'["source"][i]]]
        /\ pc' = [pc EXCEPT ![c] = "handling"]
        /\ UNCHANGED <<now, next, dedup, pending, asked, deadline, woken, inbox, fate>>
    BY <1>1 DEF ReceiveSome
  <2> HIDE DEF r
  <2>4. box'["source"] = r
    BY <2>3, QueueFacts DEF BoxTypeOK
  <2>5. Available(c) \subseteq DOMAIN box["source"]
    BY DEF Available, Picked, Candidates
  <2>6. IsQueue([i \in Available(c) |-> box'["source"][i]])
    BY <2>2, <2>4, <2>5 DEF IsQueue
  <2>7. PollTypeOK'
    BY <2>3, <2>6 DEF PollTypeOK
  <2>8. /\ inbox' \in [Consumers -> SUBSET Leases]
        /\ fate' \in [MessageIds -> {"new", "duplicate", "accepted", "done"}]
    BY <2>3
  <2> HIDE DEF SqsInv
  <2> QED BY <2>2, <2>3, <2>7, <2>8, QueueFacts, OneQueueStep
<1>2. CASE ReceiveNone(c)
  <2>1. CASE LongPoll(c)
    <3>1. PollTypeOK'
      BY <1>2, <2>1 DEF ReceiveNone, PollTypeOK
    <3> QED BY <1>0, <1>2, <3>1, StoreUnchanged DEF ReceiveNone, StoreOK
  <2>2. CASE ~LongPoll(c)
    <3> HIDE DEF SqsInv
    <3> QED BY <1>2, <2>2, ReturnStep DEF ReceiveNone
  <2> QED BY <2>1, <2>2
<1>3. CASE Register(c)
  <2>1. CASE now >= deadline[c]
    <3> HIDE DEF SqsInv
    <3> QED BY <1>3, <2>1, ReturnStep DEF Register
  <2>2. CASE ~(now >= deadline[c])
    <3>1. PollTypeOK'
      BY <1>3, <2>2 DEF Register, PollTypeOK
    <3> QED BY <1>0, <1>3, <2>2, <3>1, StoreUnchanged DEF Register, StoreOK
  <2> QED BY <2>1, <2>2
<1>4. CASE WaitEnds(c)
  <2>1. PollTypeOK'
    BY <1>4 DEF WaitEnds, PollTypeOK
  <2> QED BY <1>0, <1>4, <2>1, StoreUnchanged DEF WaitEnds, StoreOK
<1>5. ASSUME NEW i \in DOMAIN got[c], DlqSend(c, i)
      PROVE  SqsInv'
  <2>1. StoreOK' /\ dedup' \in [Queues -> [DedupKeys -> Nat]]
    <3> HIDE DEF SqsInv
    <3> QED BY <1>5, CopyFacts, DeadLetterMessage, StoreSendStep DEF DlqSend, Queues
  <2>2. PollTypeOK'
    BY <1>5 DEF DlqSend, PollTypeOK
  <2> QED BY <1>5, <2>1, <2>2 DEF DlqSend, StoreOK
<1>6. ASSUME NEW i \in DOMAIN got[c], DlqDelete(c, i)
      PROVE  SqsInv'
  <2> DEFINE r == AfterDelete(box["source"], Handle(got[c], i))
  <2>1. IsQueue(r) /\ DOMAIN r \subseteq DOMAIN box["source"]
        /\ (InGroupOrder(box["source"]) => InGroupOrder(r))
    BY QueueFacts, DeleteKeeps
  <2>2. PollTypeOK'
    BY <1>6, CopyFacts DEF DlqDelete, PollTypeOK
  <2>3. /\ inbox' \in [Consumers -> SUBSET Leases]
        /\ fate' \in [MessageIds -> {"new", "duplicate", "accepted", "done"}]
    BY <1>6 DEF DlqDelete
  <2>4. box' = [box EXCEPT !["source"] = r] /\ UNCHANGED <<now, next, dedup, pending>>
    BY <1>6 DEF DlqDelete
  <2> HIDE DEF SqsInv, r
  <2> QED BY <2>1, <2>2, <2>3, <2>4, QueueFacts, OneQueueStep
<1>7. ASSUME NEW i \in DOMAIN got[c], Hide(c, i)
      PROVE  SqsInv'
  <2> DEFINE r == AfterChangeVisibility(box["source"], Handle(got[c], i), VisTimeout, asked[c])
  <2>1. asked[c] \in Nat /\ VisTimeout \in Nat
    BY SqsQueueAssumption DEF PollTypeOK
  <2>2. IsQueue(r) /\ DOMAIN r = DOMAIN box["source"]
        /\ (InGroupOrder(box["source"]) => InGroupOrder(r))
    <3> HIDE DEF SqsInv, SqsTypeOK
    <3> QED BY <2>1, QueueFacts, ChangeVisibilityKeeps
  <2>3. PollTypeOK'
    BY <1>7, CopyFacts DEF Hide, PollTypeOK
  <2>4. [id |-> got[c][i].id, handle |-> Handle(got[c], i),
         until |-> asked[c] + VisTimeout] \in Leases
    BY <2>1, CopyFacts DEF Leases, Message
  <2>5. /\ inbox' \in [Consumers -> SUBSET Leases]
        /\ fate' \in [MessageIds -> {"new", "duplicate", "accepted", "done"}]
    BY <1>7, <2>4 DEF Hide
  <2>6. box' = [box EXCEPT !["source"] = r] /\ UNCHANGED <<now, next, dedup, pending>>
    BY <1>7 DEF Hide
  <2> HIDE DEF SqsInv, r
  <2> QED BY <2>2, <2>3, <2>5, <2>6, QueueFacts, OneQueueStep
<1>8. CASE Answer(c)
  <2> HIDE DEF SqsInv
  <2> QED BY <1>8, ReturnStep DEF Answer
<1> QED BY <1>1, <1>2, <1>3, <1>4, <1>5, <1>6, <1>7, <1>8 DEF Receive

\* So do the operations of the clients.
LEMMA ClientStep ==
    ASSUME SqsInv, NEW c \in Consumers, Client(c)
    PROVE  SqsInv'
<1> USE DEF SqsInv, SqsTypeOK
<1>0. StoreOK
  BY DEF StoreOK
<1>1. ASSUME NEW wait \in Waits, ReceiveBegin(c, wait)
      PROVE  SqsInv'
  <2>1. now \in Nat /\ now + wait \in Nat
    BY QueueFacts, SqsQueueAssumption
  <2>2. PollTypeOK'
    BY <1>1, <2>1 DEF ReceiveBegin, PollTypeOK
  <2> QED BY <1>0, <1>1, <2>2, StoreUnchanged DEF ReceiveBegin, StoreOK
<1>2. CASE HangUp(c)
  <2> HIDE DEF SqsInv
  <2> QED BY <1>2, ReturnStep DEF HangUp
<1>3. ASSUME NEW l \in inbox[c], DeleteMessage(c, l)
      PROVE  SqsInv'
  <2> DEFINE r == AfterDelete(box["source"], l.handle)
  <2>1. IsQueue(r) /\ DOMAIN r \subseteq DOMAIN box["source"]
        /\ (InGroupOrder(box["source"]) => InGroupOrder(r))
    BY QueueFacts, DeleteKeeps
  <2>2. box' = [box EXCEPT !["source"] = r] /\ UNCHANGED <<now, next, dedup, pending>>
    BY <1>3 DEF DeleteMessage
  <2>3. PollTypeOK'
    BY <1>3 DEF DeleteMessage, pollVars, PollTypeOK
  <2>4. /\ inbox' \in [Consumers -> SUBSET Leases]
        /\ fate' \in [MessageIds -> {"new", "duplicate", "accepted", "done"}]
    BY <1>3 DEF DeleteMessage
  <2> HIDE DEF SqsInv, r
  <2> QED BY <2>1, <2>2, <2>3, <2>4, QueueFacts, OneQueueStep
<1>4. ASSUME NEW l \in inbox[c], NEW t \in Timeouts, ChangeMessageVisibility(c, l, t)
      PROVE  SqsInv'
  <2> DEFINE r == AfterChangeVisibility(box["source"], l.handle, t, now)
             until == IF Current(box["source"], l.handle) /\ t # 0 THEN now + t ELSE 0
  <2>1. t \in Nat /\ now \in Nat /\ until \in Nat
    BY QueueFacts, SqsQueueAssumption
  <2>2. IsQueue(r) /\ DOMAIN r = DOMAIN box["source"]
        /\ (InGroupOrder(box["source"]) => InGroupOrder(r))
    <3> HIDE DEF SqsInv, SqsTypeOK
    <3> QED BY <2>1, QueueFacts, ChangeVisibilityKeeps
  <2>3. box' = [box EXCEPT !["source"] = r] /\ UNCHANGED <<now, next, dedup, pending>>
    BY <1>4 DEF ChangeMessageVisibility
  <2>4. PollTypeOK'
    BY <1>4 DEF ChangeMessageVisibility, pollVars, PollTypeOK
  <2>5. inbox' = [inbox EXCEPT ![c] = (@ \ {l}) \cup {[l EXCEPT !.until = until]}]
    BY <1>4 DEF ChangeMessageVisibility
  <2> HIDE DEF until
  <2>6. [l EXCEPT !.until = until] \in Leases
    BY <2>1 DEF Leases
  <2>7. /\ inbox' \in [Consumers -> SUBSET Leases]
        /\ fate' \in [MessageIds -> {"new", "duplicate", "accepted", "done"}]
    BY <1>4, <2>5, <2>6 DEF ChangeMessageVisibility
  <2> HIDE DEF SqsInv, r
  <2> QED BY <2>2, <2>3, <2>4, <2>7, QueueFacts, OneQueueStep
<1> QED BY <1>1, <1>2, <1>3, <1>4 DEF Client

\* The whole step relation keeps the invariant.
LEMMA SqsStep ==
    ASSUME SqsInv, [SqsNext]_vars
    PROVE  SqsInv'
<1> USE DEF SqsInv, SqsTypeOK
<1>0. StoreOK
  BY DEF StoreOK
<1>1. CASE Send
  <2>1. PICK id \in MessageIds, g \in Groups \cup {NoGroup}, k \in DedupIds \cup {NoDedup},
             delay \in Delays \cup BatchDelays \cup {QueueDelay} : Accept(id, g, k, delay)
    BY <1>1 DEF Send, SendMessage, SendMessageBatch
  <2>2. delay \in Nat
    BY SqsQueueAssumption
  <2> HIDE DEF SqsInv
  <2> QED BY <2>1, <2>2, AcceptStep
<1>2. CASE Notify
  <2>1. PollTypeOK'
    BY <1>2 DEF Notify, PollTypeOK
  <2> QED BY <1>0, <1>2, <2>1, StoreUnchanged DEF Notify, StoreOK
<1>3. ASSUME NEW c \in Consumers, Receive(c) \/ Client(c)
      PROVE  SqsInv'
  BY <1>3, ReceiveStep, ClientStep
<1>4. ASSUME NEW q \in Queues, PurgeQueue(q)
      PROVE  SqsInv'
  <2>1. PollTypeOK'
    BY <1>4 DEF PurgeQueue, pollVars, PollTypeOK
  <2>2. /\ inbox' \in [Consumers -> SUBSET Leases]
        /\ fate' \in [MessageIds -> {"new", "duplicate", "accepted", "done"}]
    BY <1>4 DEF PurgeQueue, Ended
  <2>3. box' = [box EXCEPT ![q] = EmptyQueue] /\ UNCHANGED <<now, next, dedup, pending>>
    BY <1>4 DEF PurgeQueue
  <2> HIDE DEF SqsInv
  <2> QED BY <2>1, <2>2, <2>3, EmptyKeeps, OneQueueStep
<1>5. ASSUME NEW q \in Queues, RemoveExpired(q)
      PROVE  SqsInv'
  <2> DEFINE r == AfterSweep(box[q], now)
  <2>1. PollTypeOK'
    BY <1>5 DEF RemoveExpired, pollVars, PollTypeOK
  <2>2. /\ inbox' \in [Consumers -> SUBSET Leases]
        /\ fate' \in [MessageIds -> {"new", "duplicate", "accepted", "done"}]
    BY <1>5 DEF RemoveExpired, Ended
  <2>3. box' = [box EXCEPT ![q] = r] /\ UNCHANGED <<now, next, dedup, pending>>
    BY <1>5 DEF RemoveExpired
  <2>4. IsQueue(r) /\ DOMAIN r \subseteq DOMAIN box[q]
        /\ (InGroupOrder(box[q]) => InGroupOrder(r))
    BY QueueFacts, SweepKeeps
  <2> HIDE DEF SqsInv, r
  <2> QED BY <2>1, <2>2, <2>3, <2>4, OneQueueStep
<1>6. CASE Tick
  <2>1. PollTypeOK' /\ now' \in 1..MaxTime
    BY <1>6, SqsQueueAssumption DEF Tick, pollVars, PollTypeOK
  <2> QED BY <1>0, <1>6, <2>1, StoreUnchanged DEF Tick, pollVars, StoreOK
<1>7. CASE UNCHANGED vars
  <2>1. PollTypeOK'
    BY <1>7 DEF vars, pollVars, PollTypeOK
  <2> QED BY <1>0, <1>7, <2>1, StoreUnchanged DEF vars, StoreOK
<1> QED BY <1>1, <1>2, <1>3, <1>4, <1>5, <1>6, <1>7 DEF SqsNext

\* At the start every queue is empty.
LEMMA SqsInitInv == ASSUME SqsInit PROVE SqsInv
<1>1. \A q \in Queues : box[q] = EmptyQueue
  BY DEF SqsInit
<1>2. BoxTypeOK /\ GroupHeadOnly
  BY <1>1, EmptyKeeps DEF SqsInit, BoxTypeOK, GroupHeadOnly
<1>3. PollTypeOK
  BY EmptyKeeps DEF SqsInit, PollTypeOK
<1>4. now \in 1..MaxTime
  <2>1. MaxTime \in Nat \ {0}
    BY SqsQueueAssumption
  <2>2. now = 1
    BY DEF SqsInit
  <2> QED BY <2>1, <2>2
<1>7. pending \in BOOLEAN
  BY DEF SqsInit
<1>5. inbox \in [Consumers -> SUBSET Leases]
  BY DEF SqsInit
<1>6. /\ dedup \in [Queues -> [DedupKeys -> Nat]]
      /\ fate \in [MessageIds -> {"new", "duplicate", "accepted", "done"}]
  BY DEF SqsInit
<1> QED BY <1>2, <1>3, <1>4, <1>5, <1>6, <1>7 DEF SqsInv, SqsTypeOK

\* SqsTypeOK and GroupHeadOnly together are inductive.
THEOREM SqsInvariant == SqsSpec => []SqsInv
<1>1. SqsInit => SqsInv
  BY SqsInitInv
<1>2. SqsInv /\ [SqsNext]_vars => SqsInv'
  BY SqsStep
<1> QED BY <1>1, <1>2, PTL DEF SqsSpec

\* Whatever handlers, senders and the retention worker do, the queues hold well
\* formed messages under arrival numbers already given out, and every copy and
\* lease a consumer has is of such a message.
THEOREM SqsTypes == SqsSpec => []SqsTypeOK
BY SqsInvariant, PTL DEF SqsInv

\* For any number of consumers, messages, groups and any delays and timeouts,
\* Receive and checkDLQ never hand out a message of a group before an earlier
\* one that is still in the queue and was sent without a delay.
THEOREM SqsGroupOrder == SqsSpec => []GroupHeadOnly
BY SqsInvariant, PTL DEF SqsInv

-----------------------------------------------------------------------------
(***************************************************************************)
(* Leases and losses.  A consumer's claim on a message is the arrival      *)
(* number and the receive count of its handle, the id it was told and a    *)
(* time up to which the message is the consumer's alone.                   *)
(***************************************************************************)

Source == box["source"]

\* q is the source queue, f the fates and t the time.  While the message is in
\* the queue it has the claimed id and was received no less often; until the
\* claim ends it is in the queue, was not received again and stays hidden at
\* least that long, unless it was purged or expired.
ClaimOK(q, f, t, i, n, id, until) ==
    /\ f[id] # "new"
    /\ i \in DOMAIN q => q[i].id = id /\ n <= q[i].count
    /\ t < until /\ f[id] = "accepted"
          => i \in DOMAIN q /\ q[i].count = n /\ until <= q[i].visibleAt

\* A copy a handler works on is a claim until the end of Receive's 30 seconds,
\* which has not come; a lease is one until it ends.
CopyOK(c, i) ==
    /\ i < next /\ now < got[c][i].visibleAt
    /\ ClaimOK(Source, fate, now, i, got[c][i].count, got[c][i].id, got[c][i].visibleAt)
LeaseOK(l) ==
    /\ l.handle[1] < next
    /\ ClaimOK(Source, fate, now, l.handle[1], l.handle[2], l.id, l.until)

ClaimsOK == /\ \A c \in Consumers : \A i \in DOMAIN got[c] : CopyOK(c, i)
            /\ \A c \in Consumers : \A l \in inbox[c] : LeaseOK(l)

\* No two claims have the same handle.
CopiesApart == \A c, d \in Consumers : \A i \in DOMAIN got[c] :
    i \in DOMAIN got[d] /\ got[c][i].count = got[d][i].count => c = d
CopiesUnleased == \A c, d \in Consumers : \A i \in DOMAIN got[c] : \A l \in inbox[d] :
    l.handle # Handle(got[c], i)
LeasesApart == \A c, d \in Consumers : \A k \in inbox[c] : \A l \in inbox[d] :
    k.handle = l.handle => c = d /\ k = l

\* The time a handler captured is past, and less than 30 seconds ago if it is
\* about to hand it to the store.
TimesOK == \A c \in Consumers :
    /\ asked[c] <= now
    /\ pc[c] \in {"empty", "waiting"} => LongPoll(c)
    /\ pc[c] = "polling" /\ ~LongPoll(c) => now < asked[c] + TempVisibility

\* What is in a queue was accepted once.
BoxKnown == \A q \in Queues : \A i \in DOMAIN box[q] : fate[box[q][i].id] # "new"

HandlesOK == CopiesApart /\ CopiesUnleased /\ LeasesApart

LeaseInv == SqsInv /\ ClaimsOK /\ HandlesOK /\ TimesOK /\ BoxKnown

\* Time may pass and other fates be settled ...
LEMMA ClaimFrame ==
    ASSUME NEW q, IsQueue(q), NEW f, NEW g, NEW t \in Nat, NEW u \in Nat, t <= u,
           NEW i \in Nat, NEW n \in Nat, NEW id, NEW until \in Nat,
           ClaimOK(q, f, t, i, n, id, until),
           g[id] # "new", g[id] = "accepted" => f[id] = "accepted"
    PROVE  ClaimOK(q, g, u, i, n, id, until)
BY DEF ClaimOK

\* A message that is appended is under nobody's claim ...
LEMMA ClaimSend ==
    ASSUME NEW q, NEW f, NEW t, NEW i \in Nat, NEW n, NEW id, NEW until,
           ClaimOK(q, f, t, i, n, id, until), NEW k \in Nat, i < k, NEW m
    PROVE  ClaimOK(AfterSend(q, k, m, t), f, t, i, n, id, until)
<1> DEFINE r == AfterSend(q, k, m, t)
<1>1. i # k
  OBVIOUS
<1>2. i \in DOMAIN r <=> i \in DOMAIN q
  BY <1>1 DEF AfterSend
<1>3. i \in DOMAIN q => r[i] = q[i]
  BY <1>1 DEF AfterSend
<1> QED BY <1>2, <1>3 DEF ClaimOK

\* ... a message under a claim that has not ended is hidden from Receive ...
LEMMA ClaimReceive ==
    ASSUME NEW q, IsQueue(q), NEW f, NEW t \in Nat, NEW i \in Nat, NEW n \in Nat, NEW id,
           NEW until \in Nat, ClaimOK(q, f, t, i, n, id, until),
           NEW max, NEW at \in Nat, at <= t
    PROVE  ClaimOK(AfterReceive(q, max, at), f, t, i, n, id, until)
<1> DEFINE r == AfterReceive(q, max, at)
<1>1. DOMAIN r = DOMAIN q
  BY DEF AfterReceive
<1>2. ASSUME i \in DOMAIN q
      PROVE  /\ r[i].id = q[i].id /\ q[i].count <= r[i].count
             /\ at < q[i].visibleAt => r[i] = q[i]
  <2>1. q[i] \in Message
    BY <1>2 DEF IsQueue
  <2>2. r[i] = IF i \in Picked(q, max, at) THEN Received(q[i], at) ELSE q[i]
    BY <1>2 DEF AfterReceive
  <2>3. Received(q[i], at).id = q[i].id /\ q[i].count <= Received(q[i], at).count
    BY <2>1 DEF Received, Message
  <2>4. at < q[i].visibleAt => i \notin Picked(q, max, at)
    BY DEF Picked, Candidates, Eligible, InFlight
  <2>5. q[i].count <= q[i].count
    BY <2>1 DEF Message
  <2> HIDE DEF r
  <2> QED BY <2>2, <2>3, <2>4, <2>5
<1>3. ASSUME i \in DOMAIN q
      PROVE  q[i].count \in Nat /\ q[i].visibleAt \in Nat
  BY <1>3 DEF IsQueue, Message
<1>4. ASSUME i \in DOMAIN q
      PROVE  r[i].count \in Nat
  <2>1. q[i] \in Message
    BY <1>4 DEF IsQueue
  <2>2. r[i] = IF i \in Picked(q, max, at) THEN Received(q[i], at) ELSE q[i]
    BY <1>4 DEF AfterReceive
  <2> QED BY <2>1, <2>2, ReceivedMessage DEF Message
<1> HIDE DEF r
<1>5. ClaimOK(r, f, t, i, n, id, until)
  BY <1>1, <1>2, <1>3, <1>4 DEF ClaimOK
<1> QED BY <1>5 DEF r

\* ... other handles neither delete nor hide nor uncover it ...
LEMMA ClaimDelete ==
    ASSUME NEW q, NEW f, NEW t, NEW i, NEW n, NEW id, NEW until,
           ClaimOK(q, f, t, i, n, id, until), NEW h, h # <<i, n>>
    PROVE  ClaimOK(AfterDelete(q, h), f, t, i, n, id, until)
<1>1. CASE ~Current(q, h)
  BY <1>1 DEF AfterDelete
<1>2. CASE Current(q, h)
  <2> DEFINE r == AfterDelete(q, h)
  <2>1. /\ DOMAIN r = DOMAIN q \ {h[1]}
        /\ \A j \in DOMAIN r : r[j] = q[j]
    BY <1>2 DEF AfterDelete, Without
  <2>2. i \in DOMAIN q /\ q[i].count = n => i # h[1]
    BY <1>2 DEF Current, Handle
  <2> HIDE DEF r
  <2>3. ClaimOK(r, f, t, i, n, id, until)
    BY <2>1, <2>2 DEF ClaimOK
  <2> QED BY <2>3 DEF r
<1> QED BY <1>1, <1>2

LEMMA ClaimChange ==
    ASSUME NEW q, NEW f, NEW t, NEW i, NEW n, NEW id, NEW until, IsQueue(q),
           ClaimOK(q, f, t, i, n, id, until), NEW h, h # <<i, n>>, NEW timeout, NEW at
    PROVE  ClaimOK(AfterChangeVisibility(q, h, timeout, at), f, t, i, n, id, until)
<1>1. CASE ~Current(q, h)
  BY <1>1 DEF AfterChangeVisibility
<1>2. CASE Current(q, h)
  <2> DEFINE r == AfterChangeVisibility(q, h, timeout, at)
  <2>1. r = [q EXCEPT ![h[1]].visibleAt = IF timeout = 0 THEN 0 ELSE at + timeout]
    BY <1>2 DEF AfterChangeVisibility
  <2>2. DOMAIN r = DOMAIN q /\ \A j \in DOMAIN q : j # h[1] => r[j] = q[j]
    BY <2>1
  <2>3. ASSUME i = h[1], i \in DOMAIN q
        PROVE  r[i].id = q[i].id /\ r[i].count = q[i].count /\ q[i].count # n
    <3>1. q[i] \in Message
      BY <2>3 DEF IsQueue
    <3>2. r[i] = [q[i] EXCEPT !.visibleAt = IF timeout = 0 THEN 0 ELSE at + timeout]
      BY <2>1, <2>3
    <3>3. q[i].count # n
      BY <1>2, <2>3 DEF Current, Handle
    <3> QED BY <3>1, <3>2, <3>3 DEF Message
  <2> HIDE DEF r
  <2>4. ClaimOK(r, f, t, i, n, id, until)
    <3>1. CASE i # h[1]
      BY <2>2, <3>1 DEF ClaimOK
    <3>2. CASE i = h[1]
      BY <2>2, <2>3, <3>2 DEF ClaimOK
    <3> QED BY <3>1, <3>2
  <2> QED BY <2>4 DEF r
<1> QED BY <1>1, <1>2

\* ... and what is purged or expires is under no claim that counts.
LEMMA ClaimEnd ==
    ASSUME NEW q, NEW f, NEW g, NEW t, NEW i, NEW n, NEW id, NEW until,
           ClaimOK(q, f, t, i, n, id, until), NEW gone,
           g[id] = IF \E j \in gone : q[j].id = id THEN "done" ELSE f[id]
    PROVE  ClaimOK(Without(q, gone), g, t, i, n, id, until)
<1> DEFINE r == Without(q, gone)
<1>1. DOMAIN r = DOMAIN q \ gone /\ \A j \in DOMAIN r : r[j] = q[j]
  BY DEF Without
<1>2. i \in DOMAIN q /\ i \in gone => g[id] = "done"
  BY DEF ClaimOK
<1>3. g[id] # "new" /\ (g[id] = "accepted" => f[id] = "accepted")
  BY DEF ClaimOK
<1> HIDE DEF r
<1>4. ClaimOK(r, g, t, i, n, id, until)
  BY <1>1, <1>2, <1>3 DEF ClaimOK
<1> QED BY <1>4 DEF r

\* The parts of a claim have their types.
LEMMA ClaimTypes ==
    ASSUME SqsInv
    PROVE  /\ next \in Nat /\ now \in Nat /\ IsQueue(Source) /\ Source = box["source"]
           /\ \A i \in DOMAIN Source : i \in Nat /\ i < next /\ Source[i] \in Message
           /\ \A c \in Consumers : IsQueue(got[c]) /\ asked[c] \in Nat
           /\ \A c \in Consumers : \A i \in DOMAIN got[c] :
                 /\ i \in Nat /\ got[c][i].count \in Nat
                 /\ got[c][i].id \in MessageIds /\ got[c][i].visibleAt \in Nat
           /\ \A c \in Consumers : \A l \in inbox[c] :
                 /\ l.handle[1] \in Nat /\ l.handle[2] \in Nat
                 /\ l.handle = <<l.handle[1], l.handle[2]>>
                 /\ l.id \in MessageIds /\ l.until \in Nat /\ l \in Leases
<1>1. /\ next \in Nat /\ now \in Nat /\ IsQueue(Source) /\ Source = box["source"]
      /\ \A i \in DOMAIN Source : i < next
  BY QueueFacts DEF SqsInv, SqsTypeOK, BoxTypeOK, Source
<1>2. \A i \in DOMAIN Source : i \in Nat /\ Source[i] \in Message
  BY <1>1 DEF IsQueue
<1>3. \A c \in Consumers : IsQueue(got[c]) /\ asked[c] \in Nat
  BY DEF SqsInv, SqsTypeOK, PollTypeOK
<1>4. \A c \in Consumers : \A i \in DOMAIN got[c] :
         /\ i \in Nat /\ got[c][i].count \in Nat
         /\ got[c][i].id \in MessageIds /\ got[c][i].visibleAt \in Nat
  BY <1>3 DEF IsQueue, Message
<1>5. \A c \in Consumers : \A l \in inbox[c] : l \in Leases
  BY DEF SqsInv, SqsTypeOK
<1>6. \A l \in Leases : /\ l.handle[1] \in Nat /\ l.handle[2] \in Nat
                        /\ l.handle = <<l.handle[1], l.handle[2]>>
                        /\ l.id \in MessageIds /\ l.until \in Nat
  BY DEF Leases
<1> QED BY <1>1, <1>2, <1>3, <1>4, <1>5, <1>6

\* A step that leaves copies and leases alone and every claim intact.
LEMMA ClaimsFrame ==
    ASSUME LeaseInv, got' = got, inbox' = inbox, next' \in Nat, next <= next',
           \A c \in Consumers : \A i \in DOMAIN got[c] : now' < got[c][i].visibleAt,
           \A i \in Nat, n \in Nat, id \in MessageIds, until \in Nat :
              i < next /\ ClaimOK(Source, fate, now, i, n, id, until)
              => ClaimOK(Source', fate', now', i, n, id, until)
    PROVE  ClaimsOK' /\ HandlesOK'
<1>1. SqsInv
  BY DEF LeaseInv
<1>2. HandlesOK'
  BY DEF LeaseInv, HandlesOK, CopiesApart, CopiesUnleased, LeasesApart, Handle
<1>3. ASSUME NEW c \in Consumers, NEW i \in DOMAIN got[c]
      PROVE  CopyOK(c, i)'
  <2>1. CopyOK(c, i)
    BY DEF LeaseInv, ClaimsOK
  <2>2. i \in Nat /\ next \in Nat
    BY <1>1, ClaimTypes
  <2>3. ClaimOK(Source', fate', now', i, got[c][i].count, got[c][i].id, got[c][i].visibleAt)
    BY <1>1, <2>1, ClaimTypes DEF CopyOK
  <2> QED BY <2>1, <2>2, <2>3 DEF CopyOK
<1>4. ASSUME NEW c \in Consumers, NEW l \in inbox[c]
      PROVE  LeaseOK(l)'
  <2>1. LeaseOK(l)
    BY DEF LeaseInv, ClaimsOK
  <2>2. l.handle[1] \in Nat /\ next \in Nat
    BY <1>1, ClaimTypes
  <2>3. ClaimOK(Source', fate', now', l.handle[1], l.handle[2], l.id, l.until)
    BY <1>1, <2>1, ClaimTypes DEF LeaseOK
  <2> QED BY <2>1, <2>2, <2>3 DEF LeaseOK
<1> QED BY <1>2, <1>3, <1>4 DEF ClaimsOK

\* The clock is no later than the end of a copy's claim.
LEMMA CopyHidden ==
    ASSUME LeaseInv, NEW c \in Consumers, NEW i \in DOMAIN got[c]
    PROVE  now < got[c][i].visibleAt
BY DEF LeaseInv, ClaimsOK, CopyOK

\* A step that changes neither the store nor the claims.
LEMMA QuietStep ==
    ASSUME LeaseInv, SqsInv', TimesOK', UNCHANGED <<now, box, next, got, inbox, fate>>
    PROVE  LeaseInv'
<1>1. Source' = Source /\ next \in Nat
  BY ClaimTypes DEF Source, LeaseInv
<1>2. ClaimsOK' /\ HandlesOK'
  BY <1>1, CopyHidden, ClaimsFrame
<1>3. BoxKnown'
  BY DEF LeaseInv, BoxKnown
<1> QED BY <1>2, <1>3 DEF LeaseInv

\* A step of a poll on its own: it reads the clock, waits or returns.
LEMMA PollTimes ==
    ASSUME LeaseInv, NEW c \in Consumers,
           \/ ReceiveNone(c) \/ Register(c) \/ WaitEnds(c) \/ HangUp(c) \/ Answer(c)
           \/ \E wait \in Waits : ReceiveBegin(c, wait)
    PROVE  TimesOK' /\ UNCHANGED <<now, box, next, got, inbox, fate>>
<1> USE DEF LongPoll
<1>1. TimesOK /\ PollTypeOK /\ now \in Nat /\ TempVisibility \in Nat \ {0}
  BY QueueFacts, SqsStoreAssumption DEF LeaseInv, SqsInv, SqsTypeOK
<1>2. \A d \in Consumers : asked[d] \in Nat /\ deadline[d] \in Nat
  BY <1>1 DEF PollTypeOK
<1>3. ASSUME Return(c), now' = now
      PROVE  TimesOK'
  BY <1>1, <1>2, <1>3 DEF Return, TimesOK, PollTypeOK
<1>4. CASE ReceiveNone(c)
  <2>1. CASE LongPoll(c)
    BY <1>1, <1>2, <1>4, <2>1 DEF ReceiveNone, TimesOK, PollTypeOK
  <2>2. CASE ~LongPoll(c)
    BY <1>3, <1>4, <2>2 DEF ReceiveNone
  <2> QED BY <2>1, <2>2
<1>5. CASE Register(c)
  <2>1. CASE now >= deadline[c]
    BY <1>3, <1>5, <2>1 DEF Register
  <2>2. CASE ~(now >= deadline[c])
    BY <1>1, <1>2, <1>5, <2>2 DEF Register, TimesOK, PollTypeOK
  <2> QED BY <2>1, <2>2
<1>6. CASE WaitEnds(c)
  BY <1>1, <1>2, <1>6 DEF WaitEnds, TimesOK, PollTypeOK
<1>7. CASE HangUp(c) \/ Answer(c)
  BY <1>3, <1>7 DEF HangUp, Answer
<1>8. ASSUME NEW wait \in Waits, ReceiveBegin(c, wait)
      PROVE  TimesOK' /\ UNCHANGED <<now, box, next, got, inbox, fate>>
  BY <1>1, <1>2, <1>8 DEF ReceiveBegin, TimesOK, PollTypeOK
<1> QED BY <1>4, <1>5, <1>6, <1>7, <1>8

\* Steps that touch neither the clock nor a poll's times, or end a poll's search.
LEMMA TimesFrame ==
    ASSUME LeaseInv, UNCHANGED <<now, asked, deadline>>,
           \/ UNCHANGED pc
           \/ \E c \in Consumers, p \in {"handling", "moving"} : pc' = [pc EXCEPT ![c] = p]
    PROVE  TimesOK'
<1>1. TimesOK /\ PollTypeOK
  BY DEF LeaseInv, SqsInv, SqsTypeOK
<1> QED BY <1>1 DEF TimesOK, PollTypeOK, LongPoll

\* A step that at most takes messages out, and only forgets fates.
LEMMA KnownStep ==
    ASSUME LeaseInv, \A id \in MessageIds : fate'[id] \in {fate[id], "done"},
           \A q \in Queues : \A i \in DOMAIN box'[q] :
              i \in DOMAIN box[q] /\ box'[q][i].id = box[q][i].id
    PROVE  BoxKnown'
<1> SUFFICES ASSUME NEW q \in Queues, NEW i \in DOMAIN box'[q]
             PROVE  fate'[box'[q][i].id] # "new"
  BY DEF BoxKnown
<1>1. box[q][i].id \in MessageIds
  BY QueueFacts DEF LeaseInv, IsQueue, Message
<1> QED BY <1>1 DEF LeaseInv, BoxKnown

\* store.Send leaves every claim alone, and adds at most the message.
LEMMA SendClaims ==
    ASSUME LeaseInv, NEW q \in Queues, NEW m \in Message, StoreSend(q, m)
    PROVE  /\ next' \in Nat /\ next <= next'
           /\ \A i \in Nat, n \in Nat, id \in MessageIds, until \in Nat :
                 i < next /\ ClaimOK(Source, fate, now, i, n, id, until)
                 => ClaimOK(Source', fate, now, i, n, id, until)
           /\ \A p \in Queues : \A i \in DOMAIN box'[p] :
                 \/ i \in DOMAIN box[p] /\ box'[p][i] = box[p][i]
                 \/ ~Duplicate(dedup[q], m, GroupScope, now) /\ box'[p][i].id = m.id
<1>1. SqsInv /\ next \in Nat /\ DOMAIN box = Queues
  BY ClaimTypes DEF LeaseInv, SqsInv, SqsTypeOK, BoxTypeOK
<1>2. CASE Duplicate(dedup[q], m, GroupScope, now)
  BY <1>1, <1>2 DEF StoreSend, Source
<1>3. CASE ~Duplicate(dedup[q], m, GroupScope, now)
  <2> DEFINE r == AfterSend(box[q], next, m, now)
  <2>1. box' = [box EXCEPT ![q] = r] /\ next' = next + 1
    BY <1>3 DEF StoreSend
  <2>2. \A i \in DOMAIN r : \/ i \in DOMAIN box[q] /\ r[i] = box[q][i]
                            \/ r[i].id = m.id
    <3>1. [m EXCEPT !.sentAt = now].id = m.id
      BY DEF Message
    <3>2. \A i \in DOMAIN r : r[i] = IF i = next THEN [m EXCEPT !.sentAt = now] ELSE box[q][i]
      BY DEF AfterSend
    <3>3. DOMAIN r = DOMAIN box[q] \cup {next}
      BY DEF AfterSend
    <3> HIDE DEF r
    <3> QED BY <3>1, <3>2, <3>3
  <2>3. ASSUME NEW i \in Nat, NEW n \in Nat, NEW id \in MessageIds, NEW until \in Nat,
               i < next, ClaimOK(Source, fate, now, i, n, id, until)
        PROVE  ClaimOK(Source', fate, now, i, n, id, until)
    <3>1. CASE q = "source"
      <4>1. Source' = AfterSend(Source, next, m, now)
        BY <1>1, <2>1, <3>1 DEF Source
      <4> HIDE DEF r
      <4> QED BY <1>1, <2>3, <4>1, ClaimSend
    <3>2. CASE q # "source"
      <4>1. Source' = Source
        BY <2>1, <3>2 DEF Source
      <4> QED BY <2>3, <4>1
    <3> QED BY <3>1, <3>2
  <2> HIDE DEF r
  <2>4. \A p \in Queues : \A i \in DOMAIN box'[p] :
           \/ i \in DOMAIN box[p] /\ box'[p][i] = box[p][i]
           \/ box'[p][i].id = m.id
    BY <1>1, <2>1, <2>2
  <2> QED BY <1>1, <1>3, <2>1, <2>3, <2>4
<1> QED BY <1>2, <1>3

\* Every send keeps the claims: nobody has one on an id that is new.
LEMMA AcceptLease ==
    ASSUME LeaseInv, SqsInv', NEW id \in MessageIds, NEW g \in Groups \cup {NoGroup},
           NEW k \in DedupIds \cup {NoDedup}, NEW delay \in Nat, Accept(id, g, k, delay)
    PROVE  LeaseInv'
<1> DEFINE m == NewMessage(id, g, k, delay)
<1>1. SqsInv /\ now \in Nat /\ next \in Nat /\ IsQueue(Source) /\ DOMAIN fate = MessageIds
  BY ClaimTypes DEF LeaseInv, SqsInv, SqsTypeOK
<1>2. m \in Message /\ m.id = id
  BY <1>1 DEF NewMessage, Message
<1>3. /\ StoreSend("source", m) /\ "source" \in Queues
      /\ UNCHANGED <<now, pc, asked, deadline, got, inbox>>
      /\ fate[id] = "new" /\ fate'[id] # "new"
      /\ \A o \in MessageIds \ {id} : fate'[o] = fate[o]
  <2>1. PICK v \in {"duplicate", "accepted"} : fate' = [fate EXCEPT ![id] = v]
    BY DEF Accept
  <2>2. fate'[id] = v /\ \A o \in MessageIds \ {id} : fate'[o] = fate[o]
    BY <1>1, <2>1
  <2> QED BY <2>2 DEF Accept, pollVars, Queues
<1> HIDE DEF m
<1>4. /\ next' \in Nat /\ next <= next'
      /\ \A i \in Nat, n \in Nat, o \in MessageIds, until \in Nat :
            i < next /\ ClaimOK(Source, fate, now, i, n, o, until)
            => ClaimOK(Source', fate, now, i, n, o, until)
      /\ \A p \in Queues : \A i \in DOMAIN box'[p] :
            (i \in DOMAIN box[p] /\ box'[p][i] = box[p][i]) \/ box'[p][i].id = m.id
  BY <1>2, <1>3, SendClaims
<1>5. ASSUME NEW i \in Nat, NEW n \in Nat, NEW o \in MessageIds, NEW until \in Nat,
             i < next, ClaimOK(Source, fate, now, i, n, o, until)
      PROVE  ClaimOK(Source', fate', now', i, n, o, until)
  <2>1. o # id
    BY <1>3, <1>5 DEF ClaimOK
  <2>2. ClaimOK(Source', fate, now, i, n, o, until) /\ fate'[o] = fate[o] /\ now' = now
    BY <1>3, <1>4, <1>5, <2>1
  <2> QED BY <2>2 DEF ClaimOK
<1>6. ClaimsOK' /\ HandlesOK'
  BY <1>3, <1>4, <1>5, CopyHidden, ClaimsFrame
<1>7. BoxKnown'
  <2> SUFFICES ASSUME NEW p \in Queues, NEW i \in DOMAIN box'[p]
               PROVE  fate'[box'[p][i].id] # "new"
    BY DEF BoxKnown
  <2>1. CASE box'[p][i].id = m.id
    BY <1>2, <1>3, <2>1
  <2>2. CASE i \in DOMAIN box[p] /\ box'[p][i] = box[p][i]
    <3>1. fate[box[p][i].id] # "new" /\ box[p][i].id \in MessageIds
      BY <1>1, <2>2, QueueFacts DEF LeaseInv, BoxKnown, IsQueue, Message
    <3> QED BY <1>3, <2>2, <3>1
  <2> QED BY <1>4, <2>1, <2>2
<1>8. TimesOK'
  BY <1>3, TimesFrame
<1> QED BY <1>6, <1>7, <1>8 DEF LeaseInv

\* Purge and the retention sweep end the claims on what they take out.
LEMMA EndLease ==
    ASSUME LeaseInv, SqsInv', NEW q \in Queues, NEW gone,
           box' = [box EXCEPT ![q] = Without(box[q], gone)], fate' = Ended(q, gone),
           UNCHANGED <<now, next, pc, asked, deadline, got, inbox>>
    PROVE  LeaseInv'
<1>1. SqsInv /\ now \in Nat /\ next \in Nat /\ IsQueue(Source) /\ DOMAIN box = Queues
  BY ClaimTypes DEF LeaseInv, SqsInv, SqsTypeOK, BoxTypeOK
<1>2. \A id \in MessageIds :
         fate'[id] = IF \E j \in gone : box[q][j].id = id THEN "done" ELSE fate[id]
  BY DEF Ended
<1>3. ASSUME NEW i \in Nat, NEW n \in Nat, NEW id \in MessageIds, NEW until \in Nat,
             i < next, ClaimOK(Source, fate, now, i, n, id, until)
      PROVE  ClaimOK(Source', fate', now', i, n, id, until)
  <2>1. CASE q = "source"
    <3>1. Source' = Without(Source, gone) /\ now' = now
      BY <1>1, <2>1 DEF Source
    <3>2. fate'[id] = IF \E j \in gone : Source[j].id = id THEN "done" ELSE fate[id]
      BY <1>2, <2>1 DEF Source
    <3> QED BY <1>3, <3>1, <3>2, ClaimEnd
  <2>2. CASE q # "source"
    <3>1. Source' = Source /\ now' = now
      BY <2>2 DEF Source
    <3>2. fate'[id] # "new" /\ (fate'[id] = "accepted" => fate[id] = "accepted")
      BY <1>2, <1>3 DEF ClaimOK
    <3> QED BY <1>1, <1>3, <3>1, <3>2, ClaimFrame
  <2> QED BY <2>1, <2>2
<1>4. ClaimsOK' /\ HandlesOK'
  BY <1>1, <1>3, CopyHidden, ClaimsFrame
<1>5. BoxKnown'
  <2>1. \A p \in Queues : \A i \in DOMAIN box'[p] :
           i \in DOMAIN box[p] /\ box'[p][i].id = box[p][i].id
    BY <1>1 DEF Without
  <2> QED BY <1>2, <2>1, KnownStep
<1>6. TimesOK'
  BY TimesFrame
<1> QED BY <1>4, <1>5, <1>6 DEF LeaseInv

\* Receive takes only what nobody else has a claim on, under fresh handles.
LEMMA ReceiveLease ==
    ASSUME LeaseInv, SqsInv', NEW c \in Consumers, ReceiveSome(c)
    PROVE  LeaseInv'
<1> DEFINE at == ReceiveTime(c)
           r == AfterReceive(Source, MaxMessages, at)
<1>1. SqsInv /\ DOMAIN box = Queues /\ DOMAIN got = Consumers /\ DOMAIN fate = MessageIds
  BY DEF LeaseInv, SqsInv, SqsTypeOK, BoxTypeOK, PollTypeOK
<1>2. at \in Nat /\ at <= now /\ now < at + TempVisibility
  <2>1. now \in Nat /\ asked[c] \in Nat /\ TempVisibility \in Nat \ {0}
    BY <1>1, ClaimTypes, SqsStoreAssumption
  <2>2. CASE LongPoll(c)
    BY <2>1, <2>2 DEF ReceiveTime
  <2>3. CASE ~LongPoll(c)
    BY <2>1, <2>3 DEF ReceiveTime, LeaseInv, TimesOK, ReceiveSome
  <2> QED BY <2>2, <2>3
<1>3. /\ Source' = r /\ UNCHANGED <<now, next, asked, deadline, inbox, fate>>
      /\ box' = [box EXCEPT !["source"] = r]
      /\ got' = [got EXCEPT ![c] = [i \in Available(c) |-> r[i]]]
      /\ pc' = [pc EXCEPT ![c] = "handling"]
  <2>1. box' = [box EXCEPT !["source"] = r]
    BY DEF ReceiveSome, Source
  <2>2. box'["source"] = r
    BY <1>1, <2>1 DEF Queues
  <2> QED BY <2>1, <2>2 DEF ReceiveSome, Source
<1>4. Available(c) = Picked(Source, MaxMessages, at) /\ Available(c) \subseteq DOMAIN Source
  BY DEF Available, Source, Picked, Candidates
<1> HIDE DEF at
<1>5. DOMAIN r = DOMAIN Source
  BY DEF AfterReceive
<1>6. \A i \in Available(c) : /\ r[i].id = Source[i].id
                              /\ r[i].count = Source[i].count + 1
                              /\ r[i].visibleAt = at + TempVisibility
  <2> TAKE i \in Available(c)
  <2>1. r[i] = Received(Source[i], at)
    BY <1>4 DEF AfterReceive
  <2>2. Source[i] \in Message
    BY <1>1, <1>4, ClaimTypes
  <2> QED BY <2>1, <2>2 DEF Received, Message
<1>7. \A i \in Nat, n \in Nat, id \in MessageIds, until \in Nat :
         ClaimOK(Source, fate, now, i, n, id, until) => ClaimOK(r, fate, now, i, n, id, until)
  BY <1>1, <1>2, ClaimTypes, ClaimReceive
<1>8. \A i \in DOMAIN Source : r[i].id = Source[i].id
  <2> TAKE i \in DOMAIN Source
  <2>1. CASE i \in Available(c)
    BY <1>6, <2>1
  <2>2. CASE i \notin Available(c)
    BY <1>4, <2>2 DEF AfterReceive
  <2> QED BY <2>1, <2>2
<1> HIDE DEF r
<1>9. DOMAIN got'[c] = Available(c) /\ \A i \in Available(c) : got'[c][i] = r[i]
  BY <1>1, <1>3
<1>10. \A d \in Consumers : d # c => got'[d] = got[d]
  BY <1>1, <1>3
<1>11. \A i \in Available(c) : Source[i].count \in Nat /\ i \in Nat /\ i < next
                               /\ Source[i].id \in MessageIds /\ fate[Source[i].id] # "new"
  <2>1. \A i \in Available(c) : i \in Nat /\ i < next /\ Source[i] \in Message
    BY <1>1, <1>4, ClaimTypes
  <2>2. \A i \in Available(c) : fate[Source[i].id] # "new"
    BY <1>4 DEF LeaseInv, BoxKnown, Source, Queues
  <2> QED BY <2>1, <2>2 DEF Message
<1>12. ASSUME NEW d \in Consumers, NEW i \in DOMAIN got'[d]
       PROVE  CopyOK(d, i)'
  <2>1. CASE d = c
    <3>1. i \in Available(c) /\ got'[d][i] = r[i]
      BY <1>9, <1>12, <2>1
    <3>2. ClaimOK(r, fate, now, i, r[i].count, r[i].id, r[i].visibleAt)
      <4>1. r[i].count \in Nat /\ r[i].visibleAt \in Nat
        BY <1>2, <1>6, <1>11, <3>1, SqsStoreAssumption
      <4>2. fate[r[i].id] # "new" /\ i \in DOMAIN r
        BY <1>4, <1>5, <1>6, <1>11, <3>1
      <4> QED BY <4>1, <4>2 DEF ClaimOK
    <3>3. now < r[i].visibleAt /\ i < next
      BY <1>2, <1>6, <1>11, <3>1
    <3> QED BY <1>3, <3>1, <3>2, <3>3 DEF CopyOK
  <2>2. CASE d # c
    <3>1. got'[d] = got[d] /\ i \in DOMAIN got[d]
      BY <1>10, <1>12, <2>2
    <3>2. CopyOK(d, i)
      BY <3>1 DEF LeaseInv, ClaimsOK
    <3>3. ClaimOK(r, fate, now, i, got[d][i].count, got[d][i].id, got[d][i].visibleAt)
      BY <1>1, <1>7, <3>1, <3>2, ClaimTypes DEF CopyOK
    <3> QED BY <1>3, <3>1, <3>2, <3>3 DEF CopyOK
  <2> QED BY <2>1, <2>2
<1>13. ASSUME NEW d \in Consumers, NEW l \in inbox'[d]
       PROVE  LeaseOK(l)'
  <2>1. l \in inbox[d] /\ LeaseOK(l)
    BY <1>3, <1>13 DEF LeaseInv, ClaimsOK
  <2>2. ClaimOK(r, fate, now, l.handle[1], l.handle[2], l.id, l.until)
    BY <1>1, <1>7, <2>1, ClaimTypes DEF LeaseOK
  <2> QED BY <1>3, <2>1, <2>2 DEF LeaseOK
<1>14. CopiesApart'
  <2> SUFFICES ASSUME NEW d \in Consumers, NEW e \in Consumers, NEW i \in DOMAIN got'[d],
                      i \in DOMAIN got'[e], got'[d][i].count = got'[e][i].count
               PROVE  d = e
    BY DEF CopiesApart
  <2>1. ASSUME NEW b \in Consumers, b # c, i \in DOMAIN got[b], i \in Available(c)
        PROVE  got[b][i].count # r[i].count
    <3>1. got[b][i].count <= Source[i].count /\ got[b][i].count \in Nat
      BY <1>1, <1>4, <2>1, ClaimTypes DEF LeaseInv, ClaimsOK, CopyOK, ClaimOK
    <3> QED BY <1>6, <1>11, <2>1, <3>1
  <2>2. CASE d = c \/ e = c
    BY <1>9, <1>10, <2>1, <2>2
  <2>3. CASE d # c /\ e # c
    BY <1>10, <2>3 DEF LeaseInv, HandlesOK, CopiesApart
  <2> QED BY <2>2, <2>3
<1>15. CopiesUnleased'
  <2> SUFFICES ASSUME NEW d \in Consumers, NEW e \in Consumers, NEW i \in DOMAIN got'[d],
                      NEW l \in inbox'[e]
               PROVE  l.handle # Handle(got'[d], i)
    BY DEF CopiesUnleased, Handle
  <2>1. l \in inbox[e] /\ LeaseOK(l)
    BY <1>3 DEF LeaseInv, ClaimsOK
  <2>2. CASE d = c
    <3>1. i \in Available(c) /\ got'[d][i].count = Source[i].count + 1
      BY <1>6, <1>9, <2>2
    <3>2. ASSUME l.handle[1] = i
          PROVE  l.handle[2] <= Source[i].count /\ l.handle[2] \in Nat
      BY <1>1, <1>4, <2>1, <3>1, <3>2, ClaimTypes DEF LeaseOK, ClaimOK
    <3>3. l.handle[1] = i => l.handle[2] # got'[d][i].count
      BY <1>11, <3>1, <3>2
    <3> QED BY <3>3 DEF Handle
  <2>3. CASE d # c
    BY <1>10, <2>1, <2>3 DEF LeaseInv, HandlesOK, CopiesUnleased, Handle
  <2> QED BY <2>2, <2>3
<1>16. LeasesApart'
  BY <1>3 DEF LeaseInv, HandlesOK, LeasesApart
<1>17. BoxKnown'
  <2>1. \A q \in Queues : \A i \in DOMAIN box'[q] :
           i \in DOMAIN box[q] /\ box'[q][i].id = box[q][i].id
    BY <1>1, <1>3, <1>5, <1>8 DEF Source
  <2> QED BY <1>3, <2>1, KnownStep
<1>18. TimesOK'
  BY <1>3, TimesFrame
<1> QED BY <1>12, <1>13, <1>14, <1>15, <1>16, <1>17, <1>18 DEF LeaseInv, ClaimsOK, HandlesOK

\* The copy sent to the dead-letter queue is of an accepted message.
LEMMA DlqSendLease ==
    ASSUME LeaseInv, SqsInv', NEW c \in Consumers, NEW i \in DOMAIN got[c], DlqSend(c, i)
    PROVE  LeaseInv'
<1> DEFINE m == DeadLetter(got[c][i])
<1>1. SqsInv
  BY DEF LeaseInv
<1>2. m \in Message /\ m.id = got[c][i].id /\ fate[m.id] # "new" /\ m.id \in MessageIds
  <2>1. got[c][i] \in Message /\ m.id = got[c][i].id
    BY <1>1, CopyFacts DEF DeadLetter, Message
  <2>2. fate[got[c][i].id] # "new"
    BY DEF LeaseInv, ClaimsOK, CopyOK, ClaimOK
  <2>3. got[c][i].id \in MessageIds
    BY <2>1 DEF Message
  <2> HIDE DEF m
  <2> QED BY <2>1, <2>2, <2>3, DeadLetterMessage DEF m
<1>3. StoreSend("dlq", m) /\ "dlq" \in Queues /\ pc' = [pc EXCEPT ![c] = "moving"]
      /\ UNCHANGED <<now, asked, deadline, got, inbox, fate>>
  BY DEF DlqSend, Queues
<1> HIDE DEF m
<1>4. /\ next' \in Nat /\ next <= next'
      /\ \A j \in Nat, n \in Nat, o \in MessageIds, until \in Nat :
            j < next /\ ClaimOK(Source, fate, now, j, n, o, until)
            => ClaimOK(Source', fate, now, j, n, o, until)
      /\ \A p \in Queues : \A j \in DOMAIN box'[p] :
            (j \in DOMAIN box[p] /\ box'[p][j] = box[p][j]) \/ box'[p][j].id = m.id
  BY <1>2, <1>3, SendClaims
<1>5. ClaimsOK' /\ HandlesOK'
  BY <1>3, <1>4, CopyHidden, ClaimsFrame
<1>6. BoxKnown'
  BY <1>2, <1>3, <1>4 DEF LeaseInv, BoxKnown
<1>7. TimesOK'
  BY <1>3, TimesFrame
<1> QED BY <1>5, <1>6, <1>7 DEF LeaseInv

\* The clock moves on only while every handler is prompt.
LEMMA TickLease ==
    ASSUME LeaseInv, SqsInv', Tick
    PROVE  LeaseInv'
<1>1. /\ SqsInv /\ now \in Nat /\ next \in Nat /\ IsQueue(Source) /\ now' = now + 1
      /\ UNCHANGED <<box, next, pc, asked, deadline, got, inbox, fate>> /\ Source' = Source
  BY ClaimTypes DEF LeaseInv, Tick, pollVars, Source
<1>2. \A c \in Consumers : \A i \in DOMAIN got[c] : now' < got[c][i].visibleAt
  BY <1>1 DEF Tick, Prompt
<1>3. \A i \in Nat, n \in Nat, id \in MessageIds, until \in Nat :
         ClaimOK(Source, fate, now, i, n, id, until) => ClaimOK(Source', fate', now', i, n, id, until)
  <2>1. now' \in Nat /\ now <= now' /\ Source' = Source /\ fate' = fate
    BY <1>1
  <2>2. ASSUME NEW i \in Nat, NEW n \in Nat, NEW id \in MessageIds, NEW until \in Nat,
               ClaimOK(Source, fate, now, i, n, id, until)
        PROVE  ClaimOK(Source, fate, now', i, n, id, until)
    <3>1. fate[id] # "new"
      BY <2>2 DEF ClaimOK
    <3> QED BY <1>1, <2>1, <2>2, <3>1, ClaimFrame
  <2> QED BY <2>1, <2>2
<1>4. ClaimsOK' /\ HandlesOK'
  BY <1>1, <1>2, <1>3, ClaimsFrame
<1>5. BoxKnown'
  BY <1>1 DEF LeaseInv, BoxKnown
<1>6. TimesOK'
  <2> SUFFICES ASSUME NEW c \in Consumers
               PROVE  /\ asked'[c] <= now'
                      /\ pc'[c] \in {"empty", "waiting"} => LongPoll(c)'
                      /\ pc'[c] = "polling" /\ ~LongPoll(c)' => now' < asked'[c] + TempVisibility
    BY DEF TimesOK
  <2>1. asked[c] \in Nat /\ Prompt(c)
    BY <1>1, ClaimTypes DEF Tick
  <2>2. LongPoll(c)' = LongPoll(c)
    BY <1>1 DEF LongPoll
  <2> QED BY <1>1, <2>1, <2>2 DEF LeaseInv, TimesOK, Prompt
<1> QED BY <1>4, <1>5, <1>6 DEF LeaseInv

\* A step by one handle leaves the claims under other handles as they are.
HandleStep(h) ==
    /\ \/ Source' = AfterDelete(Source, h)
       \/ \E timeout, at : Source' = AfterChangeVisibility(Source, h, timeout, at)
    /\ box' = [box EXCEPT !["source"] = Source']
    /\ UNCHANGED <<now, next>>
    /\ \A id \in MessageIds : fate'[id] \in {fate[id], "done"}

LEMMA OtherClaims ==
    ASSUME LeaseInv, NEW h, HandleStep(h), NEW i \in Nat, NEW n \in Nat, NEW id \in MessageIds,
           NEW until \in Nat, h # <<i, n>>, ClaimOK(Source, fate, now, i, n, id, until)
    PROVE  ClaimOK(Source', fate', now', i, n, id, until)
<1>1. IsQueue(Source)
  BY ClaimTypes DEF LeaseInv
<1>2. ClaimOK(Source', fate, now, i, n, id, until)
  <2>1. CASE Source' = AfterDelete(Source, h)
    BY <2>1, ClaimDelete
  <2>2. ASSUME NEW timeout, NEW at, Source' = AfterChangeVisibility(Source, h, timeout, at)
        PROVE  ClaimOK(Source', fate, now, i, n, id, until)
    BY <1>1, <2>2, ClaimChange
  <2> QED BY <2>1, <2>2 DEF HandleStep
<1> QED BY <1>2 DEF ClaimOK, HandleStep

LEMMA OtherCopies ==
    ASSUME LeaseInv, NEW h, HandleStep(h), NEW c \in Consumers, NEW i \in DOMAIN got[c],
           h # Handle(got[c], i), i \in DOMAIN got'[c], got'[c][i] = got[c][i]
    PROVE  CopyOK(c, i)'
<1>1. CopyOK(c, i) /\ now' = now /\ next' = next
  BY DEF LeaseInv, ClaimsOK, HandleStep
<1>2. ClaimOK(Source', fate', now', i, got[c][i].count, got[c][i].id, got[c][i].visibleAt)
  <2>1. i \in Nat /\ got[c][i].count \in Nat /\ got[c][i].id \in MessageIds
        /\ got[c][i].visibleAt \in Nat
    BY ClaimTypes DEF LeaseInv
  <2>2. h # <<i, got[c][i].count>>
    BY DEF Handle
  <2> QED BY <1>1, <2>1, <2>2, OtherClaims DEF CopyOK
<1> QED BY <1>1, <1>2 DEF CopyOK

LEMMA OtherLeases ==
    ASSUME LeaseInv, NEW h, HandleStep(h), NEW c \in Consumers, NEW l \in inbox[c], h # l.handle
    PROVE  LeaseOK(l)'
<1>1. LeaseOK(l) /\ now' = now /\ next' = next
  BY DEF LeaseInv, ClaimsOK, HandleStep
<1>2. /\ l.handle[1] \in Nat /\ l.handle[2] \in Nat /\ l.id \in MessageIds /\ l.until \in Nat
      /\ h # <<l.handle[1], l.handle[2]>>
  BY ClaimTypes DEF LeaseInv
<1>3. ClaimOK(Source', fate', now', l.handle[1], l.handle[2], l.id, l.until)
  BY <1>1, <1>2, OtherClaims DEF LeaseOK
<1> QED BY <1>1, <1>3 DEF LeaseOK

\* It takes nothing new in.
LEMMA HandleKnown ==
    ASSUME LeaseInv, NEW h, HandleStep(h)
    PROVE  BoxKnown'
<1>1. IsQueue(Source) /\ DOMAIN box = Queues
  BY ClaimTypes DEF LeaseInv, SqsInv, SqsTypeOK, BoxTypeOK
<1>2. \A i \in DOMAIN Source' : i \in DOMAIN Source /\ Source'[i].id = Source[i].id
  <2>1. CASE Source' = AfterDelete(Source, h)
    BY <2>1 DEF AfterDelete, Without
  <2>2. ASSUME NEW timeout, NEW at, Source' = AfterChangeVisibility(Source, h, timeout, at)
        PROVE  \A i \in DOMAIN Source' : i \in DOMAIN Source /\ Source'[i].id = Source[i].id
    <3>1. CASE ~Current(Source, h)
      BY <2>2, <3>1 DEF AfterChangeVisibility
    <3>2. CASE Current(Source, h)
      <4>1. Source' = [Source EXCEPT ![h[1]].visibleAt = IF timeout = 0 THEN 0 ELSE at + timeout]
        BY <2>2, <3>2 DEF AfterChangeVisibility
      <4>2. \A i \in DOMAIN Source : Source[i] \in Message
        BY <1>1 DEF IsQueue
      <4> QED BY <4>1, <4>2 DEF Message
    <3> QED BY <3>1, <3>2
  <2> QED BY <2>1, <2>2 DEF HandleStep
<1>3. \A q \in Queues : \A i \in DOMAIN box'[q] :
         i \in DOMAIN box[q] /\ box'[q][i].id = box[q][i].id
  BY <1>1, <1>2 DEF HandleStep, Source
<1> QED BY <1>3, KnownStep DEF HandleStep

\* What is left of the copies when one of them has been dealt with.
LEMMA HandledCopies ==
    ASSUME LeaseInv, NEW c \in Consumers, NEW i \in DOMAIN got[c], got' = Handled(c, i)
    PROVE  /\ \A d \in Consumers : \A j \in DOMAIN got'[d] :
                 /\ j \in DOMAIN got[d] /\ got'[d][j] = got[d][j]
                 /\ Handle(got[d], j) # Handle(got[c], i)
           /\ CopiesApart'
<1>1. DOMAIN got = Consumers
  BY DEF LeaseInv, SqsInv, SqsTypeOK, PollTypeOK
<1>2. \A d \in Consumers : \A j \in DOMAIN got'[d] :
         j \in DOMAIN got[d] /\ got'[d][j] = got[d][j] /\ ~(d = c /\ j = i)
  BY <1>1 DEF Handled, Without
<1>3. ASSUME NEW d \in Consumers, NEW j \in DOMAIN got'[d], Handle(got[d], j) = Handle(got[c], i)
      PROVE  FALSE
  BY <1>2, <1>3 DEF Handle, LeaseInv, HandlesOK, CopiesApart
<1> QED BY <1>2, <1>3 DEF LeaseInv, HandlesOK, CopiesApart

\* checkDLQ deletes under its own handle.
LEMMA DlqDeleteLease ==
    ASSUME LeaseInv, SqsInv', NEW c \in Consumers, NEW i \in DOMAIN got[c], DlqDelete(c, i)
    PROVE  LeaseInv'
<1> DEFINE h == Handle(got[c], i)
<1>1. /\ got' = Handled(c, i) /\ inbox' = inbox /\ pc' = [pc EXCEPT ![c] = "handling"]
      /\ UNCHANGED <<now, asked, deadline>>
  BY DEF DlqDelete
<1>2. HandleStep(h)
  <2>1. DOMAIN box = Queues
    BY DEF LeaseInv, SqsInv, SqsTypeOK, BoxTypeOK
  <2> QED BY <2>1 DEF DlqDelete, HandleStep, Source, Queues
<1>3. /\ \A d \in Consumers : \A j \in DOMAIN got'[d] :
            j \in DOMAIN got[d] /\ got'[d][j] = got[d][j] /\ Handle(got[d], j) # h
      /\ CopiesApart'
  BY <1>1, HandledCopies
<1>4. \A d \in Consumers : \A l \in inbox[d] : l.handle # h
  BY DEF LeaseInv, HandlesOK, CopiesUnleased
<1> HIDE DEF h
<1>5. ClaimsOK'
  BY <1>1, <1>2, <1>3, <1>4, OtherCopies, OtherLeases DEF ClaimsOK
<1>6. CopiesUnleased' /\ LeasesApart'
  BY <1>1, <1>3 DEF LeaseInv, HandlesOK, CopiesUnleased, LeasesApart, Handle
<1>7. TimesOK' /\ BoxKnown'
  BY <1>1, <1>2, TimesFrame, HandleKnown
<1> QED BY <1>3, <1>5, <1>6, <1>7 DEF LeaseInv, HandlesOK

\* The handler hides the message under its own handle, and hands that one out.
LEMMA HideLease ==
    ASSUME LeaseInv, SqsInv', NEW c \in Consumers, NEW i \in DOMAIN got[c], Hide(c, i)
    PROVE  LeaseInv'
<1> DEFINE h == Handle(got[c], i)
           until == asked[c] + VisTimeout
<1> PICK new : new = [id |-> got[c][i].id, handle |-> h, until |-> until]
  OBVIOUS
<1>0. SqsInv /\ DOMAIN box = Queues /\ DOMAIN inbox = Consumers /\ VisTimeout \in Nat
      /\ asked[c] \in Nat /\ asked[c] <= now /\ now \in Nat
  BY ClaimTypes, SqsQueueAssumption DEF LeaseInv, SqsInv, SqsTypeOK, BoxTypeOK, TimesOK
<1>1. /\ got' = Handled(c, i) /\ inbox' = [inbox EXCEPT ![c] = @ \cup {new}]
      /\ UNCHANGED <<now, next, fate, pc, asked, deadline>>
      /\ Source' = AfterChangeVisibility(Source, h, VisTimeout, asked[c])
  BY <1>0 DEF Hide, Source, Queues
<1>2. HandleStep(h)
  BY <1>0, <1>1 DEF Hide, HandleStep, Source, Queues
<1>3. /\ \A d \in Consumers : \A j \in DOMAIN got'[d] :
            j \in DOMAIN got[d] /\ got'[d][j] = got[d][j] /\ Handle(got[d], j) # h
      /\ CopiesApart'
  BY <1>1, HandledCopies
<1>4. \A d \in Consumers : \A l \in inbox[d] : l.handle # h
  BY DEF LeaseInv, HandlesOK, CopiesUnleased
<1>5. LeaseOK(new)'
  <2>1. CopyOK(c, i) /\ i \in Nat /\ got[c][i].count \in Nat /\ until \in Nat
    BY <1>0, ClaimTypes DEF LeaseInv, ClaimsOK
  <2>2. i < next' /\ fate'[got[c][i].id] # "new"
    BY <1>1, <2>1 DEF CopyOK, ClaimOK
  <2>3. ASSUME i \in DOMAIN Source'
        PROVE  Source'[i].id = got[c][i].id /\ got[c][i].count <= Source'[i].count
    <3>1. CASE ~Current(Source, h)
      BY <1>1, <2>1, <2>3, <3>1 DEF AfterChangeVisibility, CopyOK, ClaimOK
    <3>2. CASE Current(Source, h)
      <4>1. Source' = [Source EXCEPT ![h[1]].visibleAt =
                          IF VisTimeout = 0 THEN 0 ELSE asked[c] + VisTimeout]
        BY <1>1, <3>2 DEF AfterChangeVisibility
      <4>2. i \in DOMAIN Source /\ Source[i] \in Message
        BY <1>0, <2>3, <4>1, ClaimTypes
      <4>3. Source'[i].id = Source[i].id /\ Source'[i].count = Source[i].count
        BY <4>1, <4>2 DEF Message
      <4> QED BY <2>1, <4>2, <4>3 DEF CopyOK, ClaimOK
    <3> QED BY <3>1, <3>2
  <2>4. ASSUME now < until, fate[got[c][i].id] = "accepted"
        PROVE  /\ i \in DOMAIN Source' /\ Source'[i].count = got[c][i].count
               /\ until <= Source'[i].visibleAt
    <3>1. i \in DOMAIN Source /\ Source[i].count = got[c][i].count
      BY <2>1, <2>4 DEF CopyOK, ClaimOK
    <3>2. Current(Source, h) /\ h[1] = i
      BY <3>1 DEF Current, Handle
    <3>3. VisTimeout # 0
      BY <1>0, <2>4
    <3>4. Source' = [Source EXCEPT ![i].visibleAt = until]
      BY <1>1, <3>2, <3>3 DEF AfterChangeVisibility
    <3>5. Source[i] \in Message
      BY <1>0, <3>1, ClaimTypes
    <3> HIDE DEF until
    <3>6. Source'[i] = [Source[i] EXCEPT !.visibleAt = until]
      BY <3>1, <3>4
    <3>7. Source'[i].count = Source[i].count /\ Source'[i].visibleAt = until
      BY <3>5, <3>6 DEF Message
    <3> QED BY <2>1, <3>1, <3>4, <3>7
  <2>5. new.handle[1] = i /\ new.handle[2] = got[c][i].count
    BY DEF Handle
  <2> HIDE DEF until, h
  <2>6. new.id = got[c][i].id /\ new.until = until
    OBVIOUS
  <2> QED BY <1>1, <2>2, <2>3, <2>4, <2>5, <2>6 DEF LeaseOK, ClaimOK
<1>6. new.handle = h
  OBVIOUS
<1> HIDE DEF h
<1>7. \A d \in Consumers : \A l \in inbox'[d] : (l \in inbox[d]) \/ (d = c /\ l = new)
  BY <1>0, <1>1
<1>8. ClaimsOK'
  <2>1. \A d \in Consumers : \A l \in inbox'[d] : LeaseOK(l)'
    BY <1>2, <1>4, <1>5, <1>7, OtherLeases
  <2>2. \A d \in Consumers : \A j \in DOMAIN got'[d] : CopyOK(d, j)'
    BY <1>2, <1>3, OtherCopies
  <2> QED BY <2>1, <2>2 DEF ClaimsOK
<1>9. CopiesUnleased'
  <2> SUFFICES ASSUME NEW d \in Consumers, NEW e \in Consumers, NEW j \in DOMAIN got'[d],
                      NEW l \in inbox'[e]
               PROVE  l.handle # Handle(got'[d], j)
    BY DEF CopiesUnleased, Handle
  <2>1. Handle(got'[d], j) = Handle(got[d], j) /\ j \in DOMAIN got[d]
    BY <1>3 DEF Handle
  <2>2. CASE l \in inbox[e]
    BY <2>1, <2>2 DEF LeaseInv, HandlesOK, CopiesUnleased
  <2>3. CASE l = new
    BY <1>3, <1>6, <2>1, <2>3
  <2> QED BY <1>7, <2>2, <2>3
<1>10. LeasesApart'
  <2> SUFFICES ASSUME NEW d \in Consumers, NEW e \in Consumers, NEW k \in inbox'[d],
                      NEW l \in inbox'[e], k.handle = l.handle
               PROVE  d = e /\ k = l
    BY DEF LeasesApart
  <2>1. CASE k \in inbox[d] /\ l \in inbox[e]
    BY <2>1 DEF LeaseInv, HandlesOK, LeasesApart
  <2>2. CASE ~(k \in inbox[d] /\ l \in inbox[e])
    BY <1>4, <1>6, <1>7, <2>2
  <2> QED BY <2>1, <2>2
<1>11. TimesOK' /\ BoxKnown'
  BY <1>1, <1>2, TimesFrame, HandleKnown
<1> QED BY <1>3, <1>8, <1>9, <1>10, <1>11 DEF LeaseInv, HandlesOK

\* DeleteMessage: a handle that is current is that of one lease only.
LEMMA DeleteLease ==
    ASSUME LeaseInv, SqsInv', NEW c \in Consumers, NEW l \in inbox[c], DeleteMessage(c, l)
    PROVE  LeaseInv'
<1>0. DOMAIN box = Queues /\ DOMAIN inbox = Consumers /\ DOMAIN fate = MessageIds
  BY DEF LeaseInv, SqsInv, SqsTypeOK, BoxTypeOK
<1>1. /\ inbox' = [inbox EXCEPT ![c] = @ \ {l}] /\ got' = got
      /\ UNCHANGED <<now, next, pc, asked, deadline>>
  BY DEF DeleteMessage, pollVars
<1>2. HandleStep(l.handle)
  <2>1. \A id \in MessageIds : fate'[id] \in {fate[id], "done"}
    BY <1>0 DEF DeleteMessage
  <2> QED BY <1>0, <1>1, <2>1 DEF DeleteMessage, HandleStep, Source, Queues
<1>3. \A d \in Consumers : \A k \in inbox'[d] : k \in inbox[d] /\ k.handle # l.handle
  BY <1>0, <1>1 DEF LeaseInv, HandlesOK, LeasesApart
<1>4. \A d \in Consumers : \A j \in DOMAIN got[d] : l.handle # Handle(got[d], j)
  BY DEF LeaseInv, HandlesOK, CopiesUnleased
<1>5. ClaimsOK'
  <2>1. \A d \in Consumers : \A k \in inbox'[d] : LeaseOK(k)'
    BY <1>2, <1>3, OtherLeases
  <2>2. \A d \in Consumers : \A j \in DOMAIN got'[d] : CopyOK(d, j)'
    BY <1>1, <1>2, <1>4, OtherCopies
  <2> QED BY <2>1, <2>2 DEF ClaimsOK
<1>6. HandlesOK'
  BY <1>1, <1>3 DEF LeaseInv, HandlesOK, CopiesApart, CopiesUnleased, LeasesApart, Handle
<1>7. TimesOK' /\ BoxKnown'
  BY <1>1, <1>2, TimesFrame, HandleKnown
<1> QED BY <1>5, <1>6, <1>7 DEF LeaseInv

\* ChangeMessageVisibility: the lease goes on under the same handle.
LEMMA ChangeLease ==
    ASSUME LeaseInv, SqsInv', NEW c \in Consumers, NEW l \in inbox[c], NEW t \in Timeouts,
           ChangeMessageVisibility(c, l, t)
    PROVE  LeaseInv'
<1> DEFINE until == IF Current(Source, l.handle) /\ t # 0 THEN now + t ELSE 0
<1> PICK new : new = [l EXCEPT !.until = until]
  OBVIOUS
<1>0. /\ SqsInv /\ DOMAIN box = Queues /\ DOMAIN inbox = Consumers
      /\ now \in Nat /\ t \in Nat /\ l \in Leases /\ until \in Nat
  <2>1. now \in Nat /\ t \in Nat
    BY ClaimTypes, SqsQueueAssumption DEF LeaseInv
  <2> QED BY <2>1, ClaimTypes DEF LeaseInv, SqsInv, SqsTypeOK, BoxTypeOK
<1>1. /\ inbox' = [inbox EXCEPT ![c] = (@ \ {l}) \cup {new}] /\ got' = got
      /\ UNCHANGED <<now, next, fate, pc, asked, deadline>>
      /\ Source' = AfterChangeVisibility(Source, l.handle, t, now)
  BY <1>0 DEF ChangeMessageVisibility, pollVars, Source, Queues
<1>2. HandleStep(l.handle)
  BY <1>0, <1>1 DEF ChangeMessageVisibility, HandleStep, Source, Queues
<1> HIDE DEF until
<1>3. new.handle = l.handle /\ new.id = l.id /\ new.until = until
  BY <1>0 DEF Leases
<1>4. \A d \in Consumers : \A k \in inbox'[d] :
         (k \in inbox[d] /\ k.handle # l.handle) \/ (d = c /\ k = new)
  BY <1>0, <1>1 DEF LeaseInv, HandlesOK, LeasesApart
<1>5. \A d \in Consumers : \A j \in DOMAIN got[d] : l.handle # Handle(got[d], j)
  BY DEF LeaseInv, HandlesOK, CopiesUnleased
<1>6. LeaseOK(new)'
  <2>1. LeaseOK(l) /\ l.handle[1] \in Nat /\ l.handle[2] \in Nat
    BY <1>0, ClaimTypes DEF LeaseInv, ClaimsOK
  <2>2. CASE ~Current(Source, l.handle)
    <3>1. Source' = Source /\ until = 0
      BY <1>1, <2>2 DEF AfterChangeVisibility, until
    <3> QED BY <1>0, <1>1, <1>3, <2>1, <3>1 DEF LeaseOK, ClaimOK
  <2>3. CASE Current(Source, l.handle)
    <3> DEFINE i == l.handle[1]
    <3>1. Source' = [Source EXCEPT ![i].visibleAt = IF t = 0 THEN 0 ELSE now + t]
      BY <1>1, <2>3 DEF AfterChangeVisibility
    <3>2. i \in DOMAIN Source /\ Source[i] \in Message /\ Source[i].count = l.handle[2]
      BY <1>0, <2>3, ClaimTypes DEF Current, Handle
    <3>3. Source'[i] = [Source[i] EXCEPT !.visibleAt = IF t = 0 THEN 0 ELSE now + t]
          /\ i \in DOMAIN Source'
      BY <3>1, <3>2
    <3>4. /\ Source'[i].id = Source[i].id /\ Source'[i].count = Source[i].count
          /\ Source'[i].visibleAt = IF t = 0 THEN 0 ELSE now + t
      BY <3>2, <3>3 DEF Message
    <3>5. until = IF t = 0 THEN 0 ELSE now + t
      BY <2>3 DEF until
    <3>6. /\ i < next /\ fate[l.id] # "new"
          /\ Source[i].id = l.id /\ l.handle[2] <= Source[i].count
      BY <2>1, <3>2 DEF LeaseOK, ClaimOK
    <3>7. until <= Source'[i].visibleAt
      BY <1>0, <3>4, <3>5
    <3>8. ClaimOK(Source', fate', now', i, l.handle[2], l.id, until)
      BY <1>1, <3>2, <3>3, <3>4, <3>6, <3>7 DEF ClaimOK
    <3> QED BY <1>1, <1>3, <3>6, <3>8 DEF LeaseOK
  <2> QED BY <2>2, <2>3
<1>7. ClaimsOK'
  <2>1. \A d \in Consumers : \A k \in inbox'[d] : LeaseOK(k)'
    BY <1>2, <1>4, <1>6, OtherLeases
  <2>2. \A d \in Consumers : \A j \in DOMAIN got'[d] : CopyOK(d, j)'
    BY <1>1, <1>2, <1>5, OtherCopies
  <2> QED BY <2>1, <2>2 DEF ClaimsOK
<1>8. CopiesApart' /\ CopiesUnleased'
  <2>1. CopiesApart'
    BY <1>1 DEF LeaseInv, HandlesOK, CopiesApart
  <2>2. \A d, e \in Consumers : \A j \in DOMAIN got[d] : \A k \in inbox'[e] :
           k.handle # Handle(got[d], j)
    BY <1>3, <1>4, <1>5 DEF LeaseInv, HandlesOK, CopiesUnleased
  <2>3. CopiesUnleased'
    BY <1>1, <2>2 DEF CopiesUnleased, Handle
  <2> QED BY <2>1, <2>3
<1>9. LeasesApart'
  <2> SUFFICES ASSUME NEW d \in Consumers, NEW e \in Consumers, NEW j \in inbox'[d],
                      NEW k \in inbox'[e], j.handle = k.handle
               PROVE  d = e /\ j = k
    BY DEF LeasesApart
  <2>1. CASE j \in inbox[d] /\ k \in inbox[e]
    BY <2>1 DEF LeaseInv, HandlesOK, LeasesApart
  <2>2. CASE ~(j \in inbox[d] /\ k \in inbox[e])
    BY <1>3, <1>4, <2>2
  <2> QED BY <2>1, <2>2
<1>10. TimesOK' /\ BoxKnown'
  BY <1>1, <1>2, TimesFrame, HandleKnown
<1> QED BY <1>7, <1>8, <1>9, <1>10 DEF LeaseInv, HandlesOK

\* Purge and the retention sweep are both the removal of some arrivals.
LEMMA EndIsWithout ==
    ASSUME SqsInv, NEW q \in Queues, PurgeQueue(q) \/ RemoveExpired(q)
    PROVE  \E gone \in SUBSET DOMAIN box[q] :
              box' = [box EXCEPT ![q] = Without(box[q], gone)] /\ fate' = Ended(q, gone)
<1>0. DOMAIN box = Queues
  BY DEF SqsInv, SqsTypeOK, BoxTypeOK
<1>1. CASE PurgeQueue(q)
  <2>1. Without(box[q], DOMAIN box[q]) = EmptyQueue
    BY DEF Without, EmptyQueue
  <2> QED BY <1>1, <2>1 DEF PurgeQueue
<1>2. CASE RemoveExpired(q)
  <2> DEFINE gone == {i \in DOMAIN box[q] : box[q][i].sentAt < now - Retention}
  <2>1. box' = [box EXCEPT ![q] = Without(box[q], gone)]
    BY <1>2 DEF RemoveExpired, AfterSweep
  <2>2. DOMAIN box[q] \ DOMAIN box'[q] = gone
    BY <1>0, <2>1 DEF Without
  <2>3. fate' = Ended(q, gone)
    BY <1>2, <2>2 DEF RemoveExpired
  <2> QED BY <2>1, <2>3
<1> QED BY <1>1, <1>2

\* Every step keeps the claims.
LEMMA LeaseStep ==
    ASSUME LeaseInv, [SqsNext]_vars
    PROVE  LeaseInv'
<1>1. SqsInv /\ SqsInv'
  BY SqsStep DEF LeaseInv
<1>2. CASE Send
  <2>1. PICK id \in MessageIds, g \in Groups \cup {NoGroup}, k \in DedupIds \cup {NoDedup},
             delay \in Delays \cup BatchDelays \cup {QueueDelay} : Accept(id, g, k, delay)
    BY <1>2 DEF Send, SendMessage, SendMessageBatch
  <2>2. delay \in Nat
    BY SqsQueueAssumption
  <2> QED BY <1>1, <2>1, <2>2, AcceptLease
<1>3. CASE Notify \/ UNCHANGED vars
  <2>1. UNCHANGED <<now, box, next, got, inbox, fate, pc, asked, deadline>>
    BY <1>3 DEF Notify, vars, pollVars
  <2> QED BY <1>1, <2>1, TimesFrame, QuietStep
<1>4. ASSUME NEW c \in Consumers, Receive(c)
      PROVE  LeaseInv'
  <2>1. CASE ReceiveNone(c) \/ Register(c) \/ WaitEnds(c) \/ Answer(c)
    BY <1>1, <2>1, PollTimes, QuietStep
  <2>2. CASE ReceiveSome(c)
    BY <1>1, <2>2, ReceiveLease
  <2>3. ASSUME NEW i \in DOMAIN got[c], DlqSend(c, i) \/ DlqDelete(c, i) \/ Hide(c, i)
        PROVE  LeaseInv'
    BY <1>1, <2>3, DlqSendLease, DlqDeleteLease, HideLease
  <2> QED BY <1>4, <2>1, <2>2, <2>3 DEF Receive
<1>5. ASSUME NEW c \in Consumers, Client(c)
      PROVE  LeaseInv'
  <2>1. CASE HangUp(c) \/ \E wait \in Waits : ReceiveBegin(c, wait)
    BY <1>1, <2>1, PollTimes, QuietStep
  <2>2. ASSUME NEW l \in inbox[c], DeleteMessage(c, l)
        PROVE  LeaseInv'
    BY <1>1, <2>2, DeleteLease
  <2>3. ASSUME NEW l \in inbox[c], NEW t \in Timeouts, ChangeMessageVisibility(c, l, t)
        PROVE  LeaseInv'
    BY <1>1, <2>3, ChangeLease
  <2> QED BY <1>5, <2>1, <2>2, <2>3 DEF Client
<1>6. ASSUME NEW q \in Queues, PurgeQueue(q) \/ RemoveExpired(q)
      PROVE  LeaseInv'
  <2>1. PICK gone \in SUBSET DOMAIN box[q] :
           box' = [box EXCEPT ![q] = Without(box[q], gone)] /\ fate' = Ended(q, gone)
    BY <1>1, <1>6, EndIsWithout
  <2>2. UNCHANGED <<now, next, pc, asked, deadline, got, inbox>>
    BY <1>6 DEF PurgeQueue, RemoveExpired, pollVars
  <2> QED BY <1>1, <2>1, <2>2, EndLease
<1>7. CASE Tick
  BY <1>1, <1>7, TickLease
<1> QED BY <1>2, <1>3, <1>4, <1>5, <1>6, <1>7 DEF SqsNext

\* At the start there are no claims.
LEMMA LeaseInitInv == ASSUME SqsInit PROVE LeaseInv
<1>1. SqsInv
  BY SqsInitInv
<1>2. /\ \A q \in Queues : DOMAIN box[q] = {}
      /\ \A c \in Consumers : DOMAIN got[c] = {} /\ inbox[c] = {}
      /\ \A c \in Consumers : asked[c] = 0 /\ pc[c] = "idle"
      /\ now = 1
  BY EmptyKeeps DEF SqsInit
<1>3. ClaimsOK /\ HandlesOK /\ BoxKnown
  BY <1>2 DEF ClaimsOK, HandlesOK, CopiesApart, CopiesUnleased, LeasesApart, BoxKnown
<1>4. TimesOK
  BY <1>2 DEF TimesOK
<1> QED BY <1>1, <1>3, <1>4 DEF LeaseInv

\* The claims are kept by every interleaving of handlers, clients, senders, the
\* retention worker and the clock.
THEOREM SqsClaims == SqsSpec => []LeaseInv
<1>1. LeaseInv /\ [SqsNext]_vars => LeaseInv'
  BY LeaseStep
<1> QED BY <1>1, LeaseInitInv, PTL DEF SqsSpec

LEMMA LeaseInvHonours == ASSUME LeaseInv PROVE LeaseHonoured
<1> SUFFICES ASSUME NEW c \in Consumers, NEW l \in inbox[c],
                    now < l.until, fate[l.id] = "accepted"
             PROVE  /\ Current(box["source"], l.handle)
                    /\ InFlight(box["source"][l.handle[1]], now)
  BY DEF LeaseHonoured
<1>1. /\ l.handle[1] \in DOMAIN Source /\ Source[l.handle[1]].count = l.handle[2]
      /\ l.until <= Source[l.handle[1]].visibleAt
  BY DEF LeaseInv, ClaimsOK, LeaseOK, ClaimOK
<1>2. /\ l.handle = <<l.handle[1], l.handle[2]>> /\ now \in Nat /\ l.until \in Nat
      /\ Source[l.handle[1]] \in Message /\ Source = box["source"]
  BY <1>1, ClaimTypes DEF LeaseInv
<1>3. now < Source[l.handle[1]].visibleAt
  BY <1>1, <1>2 DEF Message
<1> QED BY <1>1, <1>2, <1>3 DEF Current, Handle, InFlight

\* For any number of consumers and any timeouts: until its lease ends a consumer
\* alone holds the message, hidden and under the handle ReceiveMessage gave it.
THEOREM LeasesHonoured == SqsSpec => []LeaseHonoured
<1>1. LeaseInv => LeaseHonoured
  BY LeaseInvHonours
<1> QED BY <1>1, SqsClaims, PTL

-----------------------------------------------------------------------------
(* No loss *)

\* No message with a deduplication id was moved to the dead-letter queue yet.
DlqUndeduped == \A k \in DedupKeys : dedup["dlq"][k] = 0

Holds(q, id) == \E j \in DOMAIN q : q[j].id = id

\* Between the two calls of checkDLQ the message is in the dead-letter queue.
MovingOK == \A c \in Consumers : \A i \in DOMAIN got[c] :
    pc[c] = "moving" /\ First(c, i) /\ fate[got[c][i].id] = "accepted"
    => Holds(box["dlq"], got[c][i].id)

LossInv == LeaseInv /\ (DlqUndeduped => MovingOK /\ NothingLost)

\* A message leaves a queue only when its fate is settled or when it is in the
\* dead-letter queue; a handler starts to move it by sending it there.
LEMMA LossFrame ==
    ASSUME LeaseInv, MovingOK, NothingLost,
           \A q \in Queues : \A i \in DOMAIN box[q] :
              \/ i \in DOMAIN box'[q] /\ box'[q][i].id = box[q][i].id
              \/ fate'[box[q][i].id] # "accepted"
              \/ q = "source" /\ Holds(box'["dlq"], box[q][i].id),
           \A id \in MessageIds : fate'[id] = "accepted" =>
              fate[id] = "accepted" \/ (fate[id] = "new" /\ Holds(box'["source"], id)),
           \A c \in Consumers : pc'[c] = "moving" =>
              \/ pc[c] = "moving" /\ got'[c] = got[c]
              \/ \A i \in DOMAIN got'[c] : First(c, i)' => Holds(box'["dlq"], got'[c][i].id)
    PROVE  MovingOK' /\ NothingLost'
<1>0. SqsInv /\ {"source", "dlq"} = Queues
  BY DEF LeaseInv, Queues
<1>1. \A id \in MessageIds : InSomeQueue(id) <=> \E q \in Queues : Holds(box[q], id)
  BY DEF InSomeQueue, Holds
<1>2. \A id \in MessageIds : InSomeQueue(id)' <=> \E q \in Queues : Holds(box'[q], id)
  BY DEF InSomeQueue, Holds
<1>3. ASSUME NEW id \in MessageIds, fate'[id] = "accepted"
      PROVE  \E q \in Queues : Holds(box'[q], id)
  <2>1. CASE fate[id] = "accepted"
    <3>1. PICK q \in Queues : \E i \in DOMAIN box[q] : box[q][i].id = id
      BY <1>1, <2>1 DEF NothingLost, Holds
    <3>2. PICK i \in DOMAIN box[q] : box[q][i].id = id
      BY <3>1
    <3> QED BY <1>0, <1>3, <3>2 DEF Holds
  <2>2. CASE fate[id] # "accepted"
    BY <1>0, <1>3, <2>2
  <2> QED BY <2>1, <2>2
<1>4. NothingLost'
  BY <1>2, <1>3 DEF NothingLost
<1>5. ASSUME NEW c \in Consumers, NEW i \in DOMAIN got'[c], pc'[c] = "moving", First(c, i)',
             fate'[got'[c][i].id] = "accepted"
      PROVE  Holds(box'["dlq"], got'[c][i].id)
  <2> SUFFICES ASSUME pc[c] = "moving", got'[c] = got[c]
               PROVE  Holds(box'["dlq"], got'[c][i].id)
    BY <1>5
  <2>1. First(c, i) /\ i \in DOMAIN got[c] /\ got'[c][i].id = got[c][i].id
    BY <1>5 DEF First
  <2>2. got[c][i].id \in MessageIds /\ fate[got[c][i].id] # "new"
    BY <1>0, <2>1, ClaimTypes DEF LeaseInv, ClaimsOK, CopyOK, ClaimOK
  <2>3. fate[got[c][i].id] = "accepted"
    BY <1>5, <2>1, <2>2
  <2>4. PICK j \in DOMAIN box["dlq"] : box["dlq"][j].id = got[c][i].id
    BY <2>1, <2>3 DEF MovingOK, Holds
  <2> QED BY <1>0, <1>5, <2>1, <2>4 DEF Holds
<1>6. MovingOK'
  BY <1>5 DEF MovingOK
<1> QED BY <1>4, <1>6

\* Nothing leaves the dedup map of the dead-letter queue for good, and as long as
\* it has no entry nothing is swallowed there.
LEMMA UndedupedStep ==
    ASSUME SqsInv, [SqsNext]_vars, DlqUndeduped'
    PROVE  DlqUndeduped
<1>1. /\ now \in Nat /\ DedupWindow \in Nat \ {0} /\ "dlq" \in Queues
      /\ dedup \in [Queues -> [DedupKeys -> Nat]]
  BY QueueFacts, SqsStoreAssumption DEF SqsInv, SqsTypeOK, Queues
<1>2. ASSUME NEW q \in Queues, NEW m \in Message, StoreSend(q, m)
      PROVE  DlqUndeduped
  <2>1. CASE UNCHANGED dedup \/ q # "dlq"
    BY <1>1, <1>2, <2>1 DEF StoreSend, DlqUndeduped
  <2>2. CASE ~UNCHANGED dedup /\ q = "dlq"
    <3>1. dedup' = [dedup EXCEPT !["dlq"] = AfterDedup(dedup["dlq"], m, GroupScope, now)]
      BY <1>2, <2>2 DEF StoreSend
    <3>2. CASE m.dedup = NoDedup
      BY <1>1, <3>1, <3>2 DEF AfterDedup, DlqUndeduped
    <3>3. CASE m.dedup # NoDedup
      <4> DEFINE k == DedupKey(m, GroupScope)
      <4>1. k \in DedupKeys
        BY <3>3 DEF DedupKey, DedupKeys, Message
      <4> HIDE DEF k
      <4>2. dedup'["dlq"] = [dedup["dlq"] EXCEPT ![k] = now + DedupWindow]
        BY <1>1, <3>1, <3>3 DEF AfterDedup, k
      <4>3. dedup'["dlq"][k] = now + DedupWindow
        BY <1>1, <4>1, <4>2
      <4> QED BY <1>1, <4>1, <4>3 DEF DlqUndeduped
    <3> QED BY <3>2, <3>3
  <2> QED BY <2>1, <2>2
<1>3. CASE Send
  <2>1. PICK id \in MessageIds, g \in Groups \cup {NoGroup}, k \in DedupIds \cup {NoDedup},
             delay \in Delays \cup BatchDelays \cup {QueueDelay} : Accept(id, g, k, delay)
    BY <1>3 DEF Send, SendMessage, SendMessageBatch
  <2>2. delay \in Nat
    BY SqsQueueAssumption
  <2>3. NewMessage(id, g, k, delay) \in Message
    BY <1>1, <2>2 DEF NewMessage, Message
  <2> QED BY <1>2, <2>1, <2>3 DEF Accept, Queues
<1>4. ASSUME NEW c \in Consumers, NEW i \in DOMAIN got[c], DlqSend(c, i)
      PROVE  DlqUndeduped
  <2>1. DeadLetter(got[c][i]) \in Message
    BY CopyFacts, DeadLetterMessage
  <2> QED BY <1>1, <1>2, <1>4, <2>1 DEF DlqSend
<1>5. CASE UNCHANGED dedup
  BY <1>5 DEF DlqUndeduped
<1>6. \/ Send \/ UNCHANGED dedup
      \/ \E c \in Consumers : \E i \in DOMAIN got[c] : DlqSend(c, i)
  BY DEF SqsNext, Notify, Receive, Client, ReceiveSome, ReceiveNone, Register, WaitEnds, DlqDelete,
     Hide, Answer, ReceiveBegin, HangUp, DeleteMessage, ChangeMessageVisibility, PurgeQueue,
     RemoveExpired, Tick, vars
<1> QED BY <1>3, <1>4, <1>5, <1>6

LEMMA UndedupedSend ==
    ASSUME SqsInv, DlqUndeduped, NEW m \in Message
    PROVE  ~Duplicate(dedup["dlq"], m, GroupScope, now)
<1>1. now \in Nat
  BY QueueFacts
<1>2. m.dedup # NoDedup => DedupKey(m, GroupScope) \in DedupKeys
  BY DEF DedupKey, DedupKeys, Message
<1> QED BY <1>1, <1>2 DEF Duplicate, DlqUndeduped

\* store.Send keeps what is there, and a message it does not swallow is there.
LEMMA SendRows ==
    ASSUME SqsInv, NEW q \in Queues, NEW m \in Message, StoreSend(q, m)
    PROVE  /\ \A p \in Queues : \A i \in DOMAIN box[p] : i \in DOMAIN box'[p] /\ box'[p][i] = box[p][i]
           /\ Duplicate(dedup[q], m, GroupScope, now) <=> next' = next
           /\ ~Duplicate(dedup[q], m, GroupScope, now) => Holds(box'[q], m.id)
<1>1. next \in Nat /\ DOMAIN box = Queues /\ \A p \in Queues : next \notin DOMAIN box[p]
  BY DEF SqsInv, SqsTypeOK, BoxTypeOK
<1>2. CASE Duplicate(dedup[q], m, GroupScope, now)
  BY <1>2 DEF StoreSend
<1>3. CASE ~Duplicate(dedup[q], m, GroupScope, now)
  <2> DEFINE r == AfterSend(box[q], next, m, now)
  <2>1. box' = [box EXCEPT ![q] = r] /\ next' = next + 1
    BY <1>3 DEF StoreSend
  <2>2. \A i \in DOMAIN box[q] : i \in DOMAIN r /\ r[i] = box[q][i]
    BY <1>1 DEF AfterSend
  <2>3. next \in DOMAIN r /\ r[next].id = m.id
    BY DEF AfterSend, Message
  <2> HIDE DEF r
  <2> QED BY <1>1, <1>3, <2>1, <2>2, <2>3 DEF Holds
<1> QED BY <1>2, <1>3

\* Receive, ChangeVisibility and Delete keep the ids of what they leave there.
LEMMA ReceiveRows ==
    ASSUME NEW q, IsQueue(q), NEW max, NEW at \in Nat
    PROVE  \A i \in DOMAIN q : /\ i \in DOMAIN AfterReceive(q, max, at)
                               /\ AfterReceive(q, max, at)[i].id = q[i].id
<1> TAKE i \in DOMAIN q
<1>1. q[i] \in Message
  BY DEF IsQueue
<1>2. Received(q[i], at).id = q[i].id
  BY <1>1 DEF Received, Message
<1> QED BY <1>2 DEF AfterReceive

LEMMA ChangeRows ==
    ASSUME NEW q, IsQueue(q), NEW h, NEW timeout, NEW at
    PROVE  \A i \in DOMAIN q : /\ i \in DOMAIN AfterChangeVisibility(q, h, timeout, at)
                               /\ AfterChangeVisibility(q, h, timeout, at)[i].id = q[i].id
<1>1. CASE ~Current(q, h)
  BY <1>1 DEF AfterChangeVisibility
<1>2. CASE Current(q, h)
  <2>1. AfterChangeVisibility(q, h, timeout, at)
           = [q EXCEPT ![h[1]].visibleAt = IF timeout = 0 THEN 0 ELSE at + timeout]
    BY <1>2 DEF AfterChangeVisibility
  <2>2. \A i \in DOMAIN q : q[i] \in Message
    BY DEF IsQueue
  <2> QED BY <2>1, <2>2 DEF Message
<1> QED BY <1>1, <1>2

LEMMA DeleteRows ==
    ASSUME NEW q, NEW h
    PROVE  \A i \in DOMAIN q \ (IF Current(q, h) THEN {h[1]} ELSE {}) :
              i \in DOMAIN AfterDelete(q, h) /\ AfterDelete(q, h)[i].id = q[i].id
BY DEF AfterDelete, Without

\* No step loses a message as long as nothing is swallowed at the dead-letter queue.
LEMMA LossStep ==
    ASSUME LossInv, [SqsNext]_vars
    PROVE  LossInv'
<1>1. LeaseInv /\ LeaseInv' /\ SqsInv
  BY LeaseStep DEF LossInv, LeaseInv
<1> SUFFICES ASSUME DlqUndeduped'
             PROVE  MovingOK' /\ NothingLost'
  BY <1>1 DEF LossInv
<1>2. DlqUndeduped /\ MovingOK /\ NothingLost
  BY <1>1, UndedupedStep DEF LossInv
<1>3. DOMAIN pc = Consumers /\ DOMAIN got = Consumers /\ DOMAIN fate = MessageIds
  BY <1>1 DEF SqsInv, SqsTypeOK, PollTypeOK
<1>4. DOMAIN box = Queues
  BY <1>1 DEF SqsInv, SqsTypeOK, BoxTypeOK
<1>5. CASE Send
  <2>1. PICK id \in MessageIds, g \in Groups \cup {NoGroup}, k \in DedupIds \cup {NoDedup},
             delay \in Delays \cup BatchDelays \cup {QueueDelay} : Accept(id, g, k, delay)
    BY <1>5 DEF Send, SendMessage, SendMessageBatch
  <2> DEFINE m == NewMessage(id, g, k, delay)
  <2>2. m \in Message /\ m.id = id
    <3>1. delay \in Nat /\ now \in Nat
      BY <1>1, QueueFacts, SqsQueueAssumption
    <3> QED BY <3>1 DEF NewMessage, Message
  <2>3. /\ StoreSend("source", m) /\ "source" \in Queues /\ fate[id] = "new"
        /\ UNCHANGED <<pc, got>>
        /\ fate' = [fate EXCEPT ![id] = IF next' = next THEN "duplicate" ELSE "accepted"]
    BY <2>1 DEF Accept, pollVars, Queues
  <2> HIDE DEF m
  <2>4. /\ \A p \in Queues : \A i \in DOMAIN box[p] :
              i \in DOMAIN box'[p] /\ box'[p][i] = box[p][i]
        /\ next' # next => Holds(box'["source"], id)
    BY <1>1, <2>2, <2>3, SendRows
  <2>5. \A o \in MessageIds : fate'[o] = "accepted" =>
           fate[o] = "accepted" \/ (fate[o] = "new" /\ Holds(box'["source"], o))
    BY <1>3, <2>3, <2>4
  <2> QED BY <1>1, <1>2, <2>3, <2>4, <2>5, LossFrame
<1>6. ASSUME NEW c \in Consumers, NEW i \in DOMAIN got[c], DlqSend(c, i)
      PROVE  MovingOK' /\ NothingLost'
  <2> DEFINE m == DeadLetter(got[c][i])
  <2>1. m \in Message /\ m.id = got[c][i].id
    <3>1. got[c][i] \in Message
      BY <1>1, CopyFacts
    <3> QED BY <3>1, DeadLetterMessage DEF DeadLetter, Message
  <2>2. StoreSend("dlq", m) /\ "dlq" \in Queues /\ First(c, i) /\ UNCHANGED <<got, fate>>
        /\ pc' = [pc EXCEPT ![c] = "moving"]
    BY <1>6 DEF DlqSend, Queues
  <2> HIDE DEF m
  <2>3. /\ \A p \in Queues : \A j \in DOMAIN box[p] :
              j \in DOMAIN box'[p] /\ box'[p][j] = box[p][j]
        /\ Holds(box'["dlq"], got[c][i].id)
    BY <1>1, <1>2, <2>1, <2>2, SendRows, UndedupedSend
  <2>4. \A j \in DOMAIN got'[c] : First(c, j)' => j = i
    <3>1. \A j \in DOMAIN got[c] : j \in Nat
      BY <1>1, ClaimTypes
    <3> QED BY <2>2, <3>1 DEF First
  <2>5. \A d \in Consumers : pc'[d] = "moving" =>
           \/ pc[d] = "moving" /\ got'[d] = got[d]
           \/ \A j \in DOMAIN got'[d] : First(d, j)' => Holds(box'["dlq"], got'[d][j].id)
    BY <1>3, <2>2, <2>3, <2>4
  <2> QED BY <1>1, <1>2, <2>2, <2>3, <2>5, LossFrame
<1>7. ASSUME NEW c \in Consumers, ReceiveSome(c)
      PROVE  MovingOK' /\ NothingLost'
  <2> DEFINE r == AfterReceive(Source, MaxMessages, ReceiveTime(c))
  <2>1. /\ box' = [box EXCEPT !["source"] = r] /\ fate' = fate
        /\ pc' = [pc EXCEPT ![c] = "handling"] /\ \A d \in Consumers : d # c => got'[d] = got[d]
    BY <1>3, <1>7 DEF ReceiveSome, Source
  <2>2. \A i \in DOMAIN Source : i \in DOMAIN r /\ r[i].id = Source[i].id
    <3>1. ReceiveTime(c) \in Nat /\ IsQueue(Source)
      BY <1>1, ClaimTypes DEF ReceiveTime
    <3> QED BY <3>1, ReceiveRows
  <2> HIDE DEF r
  <2>3. \A q \in Queues : \A i \in DOMAIN box[q] :
           i \in DOMAIN box'[q] /\ box'[q][i].id = box[q][i].id
    BY <1>4, <2>1, <2>2 DEF Source
  <2>4. \A d \in Consumers : pc'[d] = "moving" => pc[d] = "moving" /\ got'[d] = got[d]
    BY <1>3, <2>1
  <2> QED BY <1>1, <1>2, <2>1, <2>3, <2>4, LossFrame
<1>8. ASSUME NEW c \in Consumers, NEW i \in DOMAIN got[c], DlqDelete(c, i)
      PROVE  MovingOK' /\ NothingLost'
  <2> DEFINE h == Handle(got[c], i)
             r == AfterDelete(Source, h)
             gone == IF Current(Source, h) THEN {h[1]} ELSE {}
  <2>1. /\ pc[c] = "moving" /\ First(c, i) /\ box' = [box EXCEPT !["source"] = r]
        /\ fate' = fate /\ pc' = [pc EXCEPT ![c] = "handling"]
        /\ \A d \in Consumers : d # c => got'[d] = got[d]
    BY <1>3, <1>8 DEF DlqDelete, Source, Handled
  <2>2. \A j \in DOMAIN Source \ gone : j \in DOMAIN r /\ r[j].id = Source[j].id
    BY DeleteRows
  <2>3. ASSUME NEW j \in DOMAIN Source, j \in gone
        PROVE  Source[j].id = got[c][i].id
    <3>1. j = i
      BY <2>3 DEF Handle
    <3> QED BY <3>1 DEF LeaseInv, LossInv, ClaimsOK, CopyOK, ClaimOK
  <2> HIDE DEF r, gone
  <2>4. \A q \in Queues : \A j \in DOMAIN box[q] :
           \/ j \in DOMAIN box'[q] /\ box'[q][j].id = box[q][j].id
           \/ q = "source" /\ j \in gone
    BY <1>4, <2>1, <2>2 DEF Source
  <2>5. box'["dlq"] = box["dlq"]
    BY <2>1
  <2>6. fate[got[c][i].id] = "accepted" => Holds(box'["dlq"], got[c][i].id)
    BY <1>2, <2>1, <2>5 DEF MovingOK
  <2>7. \A q \in Queues : \A j \in DOMAIN box[q] :
           \/ j \in DOMAIN box'[q] /\ box'[q][j].id = box[q][j].id
           \/ fate'[box[q][j].id] # "accepted"
           \/ q = "source" /\ Holds(box'["dlq"], box[q][j].id)
    BY <2>1, <2>3, <2>4, <2>6 DEF Source
  <2>8. \A d \in Consumers : pc'[d] = "moving" => pc[d] = "moving" /\ got'[d] = got[d]
    BY <1>3, <2>1
  <2> QED BY <1>1, <1>2, <2>1, <2>7, <2>8, LossFrame
<1>9. ASSUME NEW c \in Consumers, NEW i \in DOMAIN got[c], Hide(c, i)
      PROVE  MovingOK' /\ NothingLost'
  <2> DEFINE r == AfterChangeVisibility(Source, Handle(got[c], i), VisTimeout, asked[c])
  <2>1. /\ pc[c] = "handling" /\ box' = [box EXCEPT !["source"] = r] /\ UNCHANGED <<fate, pc>>
        /\ \A d \in Consumers : d # c => got'[d] = got[d]
    BY <1>3, <1>9 DEF Hide, Source, Handled
  <2>2. \A j \in DOMAIN Source : j \in DOMAIN r /\ r[j].id = Source[j].id
    BY <1>1, ClaimTypes, ChangeRows
  <2> HIDE DEF r
  <2>3. \A q \in Queues : \A j \in DOMAIN box[q] :
           j \in DOMAIN box'[q] /\ box'[q][j].id = box[q][j].id
    BY <1>4, <2>1, <2>2 DEF Source
  <2>4. \A d \in Consumers : pc'[d] = "moving" => pc[d] = "moving" /\ got'[d] = got[d]
    BY <2>1
  <2> QED BY <1>1, <1>2, <2>1, <2>3, <2>4, LossFrame
<1>10. ASSUME NEW c \in Consumers, NEW l \in inbox[c], DeleteMessage(c, l)
       PROVE  MovingOK' /\ NothingLost'
  <2> DEFINE r == AfterDelete(Source, l.handle)
             gone == IF Current(Source, l.handle) THEN {l.handle[1]} ELSE {}
  <2>1. /\ box' = [box EXCEPT !["source"] = r] /\ UNCHANGED <<pc, got>>
        /\ fate' = IF Current(Source, l.handle) THEN [fate EXCEPT ![l.id] = "done"] ELSE fate
    BY <1>10 DEF DeleteMessage, pollVars, Source
  <2>2. \A j \in DOMAIN Source \ gone : j \in DOMAIN r /\ r[j].id = Source[j].id
    BY DeleteRows
  <2>3. ASSUME NEW j \in DOMAIN Source, j \in gone
        PROVE  Source[j].id = l.id /\ fate'[l.id] # "accepted"
    <3>1. j = l.handle[1] /\ Current(Source, l.handle)
      BY <2>3
    <3>2. Source[j].id = l.id
      BY <3>1 DEF LeaseInv, LossInv, ClaimsOK, LeaseOK, ClaimOK
    <3>3. l.id \in MessageIds
      BY <1>1, ClaimTypes
    <3> QED BY <1>3, <2>1, <3>1, <3>2, <3>3
  <2>4. \A id \in MessageIds : fate'[id] = "accepted" => fate[id] = "accepted"
    BY <1>3, <2>1
  <2> HIDE DEF r, gone
  <2>5. \A q \in Queues : \A j \in DOMAIN box[q] :
           \/ j \in DOMAIN box'[q] /\ box'[q][j].id = box[q][j].id
           \/ q = "source" /\ j \in gone
    BY <1>4, <2>1, <2>2 DEF Source
  <2>6. \A q \in Queues : \A j \in DOMAIN box[q] :
           \/ j \in DOMAIN box'[q] /\ box'[q][j].id = box[q][j].id
           \/ fate'[box[q][j].id] # "accepted"
    BY <2>3, <2>5 DEF Source
  <2> QED BY <1>1, <1>2, <2>1, <2>4, <2>6, LossFrame
<1>11. ASSUME NEW c \in Consumers, NEW l \in inbox[c], NEW t \in Timeouts,
              ChangeMessageVisibility(c, l, t)
       PROVE  MovingOK' /\ NothingLost'
  <2> DEFINE r == AfterChangeVisibility(Source, l.handle, t, now)
  <2>1. box' = [box EXCEPT !["source"] = r] /\ UNCHANGED <<fate, pc, got>>
    BY <1>11 DEF ChangeMessageVisibility, pollVars, Source
  <2>2. \A j \in DOMAIN Source : j \in DOMAIN r /\ r[j].id = Source[j].id
    BY <1>1, ClaimTypes, ChangeRows
  <2> HIDE DEF r
  <2>3. \A q \in Queues : \A j \in DOMAIN box[q] :
           j \in DOMAIN box'[q] /\ box'[q][j].id = box[q][j].id
    BY <1>4, <2>1, <2>2 DEF Source
  <2> QED BY <1>1, <1>2, <2>1, <2>3, LossFrame
<1>12. ASSUME NEW q \in Queues, PurgeQueue(q) \/ RemoveExpired(q)
       PROVE  MovingOK' /\ NothingLost'
  <2>1. PICK gone \in SUBSET DOMAIN box[q] :
           box' = [box EXCEPT ![q] = Without(box[q], gone)] /\ fate' = Ended(q, gone)
    BY <1>1, <1>12, EndIsWithout
  <2>2. UNCHANGED <<pc, got>>
    BY <1>12 DEF PurgeQueue, RemoveExpired, pollVars
  <2>3. \A id \in MessageIds :
           fate'[id] = IF \E j \in gone : box[q][j].id = id THEN "done" ELSE fate[id]
    BY <2>1 DEF Ended
  <2>4. DOMAIN box = Queues /\ \A p \in Queues : \A j \in DOMAIN box[p] : box[p][j].id \in MessageIds
    BY <1>1, QueueFacts DEF SqsInv, SqsTypeOK, BoxTypeOK, IsQueue, Message
  <2>5. \A p \in Queues : \A j \in DOMAIN box[p] :
           \/ j \in DOMAIN box'[p] /\ box'[p][j].id = box[p][j].id
           \/ fate'[box[p][j].id] # "accepted"
    <3> TAKE p \in Queues
    <3> TAKE j \in DOMAIN box[p]
    <3>1. CASE p = q /\ j \in gone
      BY <2>3, <2>4, <3>1
    <3>2. CASE ~(p = q /\ j \in gone)
      BY <2>1, <2>4, <3>2 DEF Without
    <3> QED BY <3>1, <3>2
  <2>6. \A id \in MessageIds : fate'[id] = "accepted" => fate[id] = "accepted"
    BY <2>3
  <2> QED BY <1>1, <1>2, <2>2, <2>5, <2>6, LossFrame
<1>13. ASSUME UNCHANGED <<box, fate, got>>,
              \A d \in Consumers : pc'[d] = "moving" => pc[d] = "moving"
       PROVE  MovingOK' /\ NothingLost'
  BY <1>1, <1>2, <1>13, LossFrame
<1>14. ASSUME NEW c \in Consumers,
              \/ ReceiveNone(c) \/ Register(c) \/ WaitEnds(c) \/ HangUp(c) \/ Answer(c)
              \/ \E wait \in Waits : ReceiveBegin(c, wait)
       PROVE  MovingOK' /\ NothingLost'
  <2>1. \A d \in Consumers : pc'[d] = "moving" => pc[d] = "moving"
    BY <1>3, <1>14 DEF ReceiveNone, Register, WaitEnds, HangUp, Answer, ReceiveBegin, Return
  <2> QED BY <1>1, <1>13, <1>14, <2>1, PollTimes
<1>15. CASE Notify \/ Tick \/ UNCHANGED vars
  <2>1. UNCHANGED <<box, fate, got, pc>>
    BY <1>15 DEF Notify, Tick, vars, pollVars
  <2> QED BY <1>13, <2>1
<1> QED BY <1>5, <1>6, <1>7, <1>8, <1>9, <1>10, <1>11, <1>12, <1>14, <1>15
        DEF SqsNext, Receive, Client

\* As long as no message with a deduplication id has come to the dead-letter
\* queue, no message is lost, for any consumers, timings and policies.
THEOREM LossOnlyByDedup == SqsSpec => [](DlqUndeduped => NothingLost)
<1>1. SqsInit => LossInv
  <2> SUFFICES ASSUME SqsInit
               PROVE  LossInv
    OBVIOUS
  <2>1. LeaseInv
    BY LeaseInitInv
  <2>2. MovingOK /\ NothingLost
    BY DEF SqsInit, MovingOK, NothingLost
  <2> QED BY <2>1, <2>2 DEF LossInv
<1>2. LossInv /\ [SqsNext]_vars => LossInv'
  BY LossStep
<1>3. LossInv => (DlqUndeduped => NothingLost)
  BY DEF LossInv
<1> QED BY <1>1, <1>2, <1>3, PTL DEF SqsSpec

\* A queue whose messages have no deduplication id loses none: checkDLQ sends the
\* copy before it deletes the original, whatever the others do in between.
THEOREM NothingIsLost ==
    ASSUME DedupIds = {}
    PROVE  SqsSpec => []NothingLost
<1>1. DlqUndeduped
  BY DEF DlqUndeduped, DedupKeys
<1> QED BY <1>1, LossOnlyByDedup, PTL

-----------------------------------------------------------------------------
(***************************************************************************)
(* Move tasks.  The steps of the queue are those above; a step of a task   *)
(* is a receive, a send or a delete of the store.                          *)
(***************************************************************************)

MoveInv == SqsInv /\ MoveTypeOK

\* A step that leaves all of SqsQueue's variables but the store alone.
LEMMA OthersUnchanged ==
    ASSUME SqsInv, UNCHANGED <<now, pending, pollVars, inbox, fate>>
    PROVE  /\ now' \in 1..MaxTime /\ pending' \in BOOLEAN /\ PollTypeOK'
           /\ inbox' \in [Consumers -> SUBSET Leases]
           /\ fate' \in [MessageIds -> {"new", "duplicate", "accepted", "done"}]
BY DEF SqsInv, SqsTypeOK, PollTypeOK, pollVars

\* The copy a task sends counts as not received.
LEMMA MovedMessage ==
    ASSUME NEW m \in Message
    PROVE  Moved(m) \in Message /\ Moved(m).count = 0
BY DEF Moved, Message

\* A task is started, cancelled or ends: the queues are left alone.
LEMMA TaskStep ==
    ASSUME MoveInv, NEW t \in Tasks,
           \/ \E from \in MoveFrom, dest \in MoveTo : StartMessageMoveTask(t, from, dest)
           \/ CancelMessageMoveTask(t) \/ MoveCompletes(t) \/ MoveCancelled(t)
    PROVE  MoveInv'
<1>1. UNCHANGED vars
  BY DEF StartMessageMoveTask, CancelMessageMoveTask, MoveCompletes, MoveCancelled
<1>2. SqsInv'
  BY <1>1, SqsStep DEF MoveInv
<1>3. MoveTypeOK'
  <2>1. ASSUME NEW from \in MoveFrom, NEW dest \in MoveTo, StartMessageMoveTask(t, from, dest)
        PROVE  MoveTypeOK'
    BY <2>1, SqsMoveAssumption DEF StartMessageMoveTask, MoveInv, MoveTypeOK
  <2>2. CASE CancelMessageMoveTask(t)
    BY <2>2 DEF CancelMessageMoveTask, MoveInv, MoveTypeOK
  <2>3. CASE MoveCompletes(t)
    BY <2>3 DEF MoveCompletes, MoveInv, MoveTypeOK
  <2>4. CASE MoveCancelled(t)
    BY <2>4 DEF MoveCancelled, MoveInv, MoveTypeOK
  <2> QED BY <2>1, <2>2, <2>3, <2>4
<1> QED BY <1>2, <1>3 DEF MoveInv

\* The receive of a task keeps the queue in order, and what it takes is a message.
LEMMA MoveReceiveStep ==
    ASSUME MoveInv, NEW t \in Tasks, MoveReceive(t)
    PROVE  MoveInv'
<1> DEFINE q == task[t].from
           r == AfterReceive(box[q], 1, now)
<1>1. q \in Queues /\ SqsInv
  BY DEF MoveInv, MoveTypeOK
<1>2. IsQueue(box[q]) /\ now \in Nat
  BY <1>1, QueueFacts
<1>3. IsQueue(r) /\ DOMAIN r = DOMAIN box[q] /\ (InGroupOrder(box[q]) => InGroupOrder(r))
  BY <1>2, ReceiveKeeps
<1>4. /\ box' = [box EXCEPT ![q] = r]
      /\ taken' = [taken EXCEPT ![t] = [i \in Movable(t) |-> box'[q][i]]]
      /\ step' = [step EXCEPT ![t] = "sending"]
      /\ UNCHANGED <<now, next, dedup, pending, pollVars, inbox, fate, task>>
  BY DEF MoveReceive
<1>5. Movable(t) \subseteq DOMAIN box[q]
  BY DEF Movable, From, Picked, Candidates
<1> HIDE DEF r, q
<1>6. box'[q] = r
  BY <1>1, <1>4 DEF SqsInv, SqsTypeOK, BoxTypeOK
<1>7. IsQueue([i \in Movable(t) |-> box'[q][i]])
  BY <1>3, <1>5, <1>6 DEF IsQueue
<1>8. MoveTypeOK'
  BY <1>4, <1>7 DEF MoveInv, MoveTypeOK
<1>9. SqsInv'
  BY <1>1, <1>3, <1>4, OthersUnchanged, OneQueueStep
<1> QED BY <1>8, <1>9 DEF MoveInv

\* The copy goes to the end of the destination, where nobody has received it yet.
LEMMA MoveSendStep ==
    ASSUME MoveInv, NEW t \in Tasks, NEW i \in DOMAIN taken[t], MoveSend(t, i)
    PROVE  MoveInv'
<1>1. SqsInv /\ task[t].to \in Queues /\ taken[t][i] \in Message
  BY DEF MoveInv, MoveTypeOK, IsQueue
<1>2. StoreSend(task[t].to, Moved(taken[t][i]))
  BY DEF MoveSend
<1>3. StoreOK' /\ dedup' \in [Queues -> [DedupKeys -> Nat]]
  BY <1>1, <1>2, MovedMessage, StoreSendStep
<1>4. UNCHANGED <<now, pending, pollVars, inbox, fate, task, taken>>
  BY DEF MoveSend
<1>5. SqsInv'
  BY <1>1, <1>3, <1>4, OthersUnchanged DEF SqsInv, SqsTypeOK, StoreOK
<1>6. MoveTypeOK'
  BY <1>4 DEF MoveSend, MoveInv, MoveTypeOK
<1> QED BY <1>5, <1>6 DEF MoveInv

\* Deleting the original, or nothing if the handle is not the current one.
LEMMA MoveDeleteStep ==
    ASSUME MoveInv, NEW t \in Tasks, NEW i \in DOMAIN taken[t], MoveDelete(t, i)
    PROVE  MoveInv'
<1> DEFINE q == task[t].from
           r == AfterDelete(box[q], Handle(taken[t], i))
<1>1. q \in Queues /\ SqsInv
  BY DEF MoveInv, MoveTypeOK
<1>2. IsQueue(r) /\ DOMAIN r \subseteq DOMAIN box[q] /\ (InGroupOrder(box[q]) => InGroupOrder(r))
  BY <1>1, QueueFacts, DeleteKeeps
<1>3. /\ box' = [box EXCEPT ![q] = r]
      /\ UNCHANGED <<now, next, dedup, pending, pollVars, inbox, fate>>
  BY DEF MoveDelete
<1>4. MoveTypeOK'
  <2>1. task[t].moved + 1 \in Nat
    BY DEF MoveInv, MoveTypeOK
  <2> QED BY <2>1, EmptyKeeps DEF MoveDelete, MoveInv, MoveTypeOK
<1> HIDE DEF r, q
<1>5. SqsInv'
  BY <1>1, <1>2, <1>3, OthersUnchanged, OneQueueStep
<1> QED BY <1>4, <1>5 DEF MoveInv

LEMMA MoveInvStep ==
    ASSUME MoveInv, [MoveNext]_allVars
    PROVE  MoveInv'
<1>1. CASE QueueStep \/ UNCHANGED allVars
  <2>1. [SqsNext]_vars /\ UNCHANGED moveVars
    BY <1>1 DEF QueueStep, allVars
  <2>2. SqsInv'
    BY <2>1, SqsStep DEF MoveInv
  <2> QED BY <2>1, <2>2 DEF MoveInv, moveVars, MoveTypeOK
<1>2. ASSUME NEW t \in Tasks,
             \/ \E from \in MoveFrom, dest \in MoveTo : StartMessageMoveTask(t, from, dest)
             \/ CancelMessageMoveTask(t) \/ Move(t)
      PROVE  MoveInv'
  BY <1>2, TaskStep, MoveReceiveStep, MoveSendStep, MoveDeleteStep DEF Move
<1> QED BY <1>1, <1>2 DEF MoveNext

LEMMA MoveInitInv == ASSUME MoveInit PROVE MoveInv
<1>1. SqsInv
  BY SqsInitInv DEF MoveInit
<1>2. MoveTypeOK
  BY EmptyKeeps DEF MoveInit, MoveTypeOK, NoTask, Queues
<1> QED BY <1>1, <1>2 DEF MoveInv

\* The types and the group order are kept by every step of the composition.
THEOREM MoveInvariant == MoveSpec => []MoveInv
<1>1. MoveInv /\ [MoveNext]_allVars => MoveInv'
  BY MoveInvStep
<1> QED BY <1>1, MoveInitInv, PTL DEF MoveSpec

\* With any number of move tasks in any direction, also from a queue to itself,
\* Receive, checkDLQ and runMoveTask never hand out a message of a group before an
\* earlier one that is still in the queue and was sent without a delay.
THEOREM MoveGroupOrder == MoveSpec => []GroupHeadOnly
BY MoveInvariant, PTL DEF MoveInv, SqsInv

-----------------------------------------------------------------------------
(***************************************************************************)
(* One of each message beside the move tasks.  What a task has taken is a  *)
(* claim on its source like a consumer's copy, and no two claims have the  *)
(* same handle: so whoever has sent a copy of a message deletes the        *)
(* original it took, and no two of them took the same one.                 *)
(***************************************************************************)

TakenOK(t, i) ==
    /\ i < next /\ now < taken[t][i].visibleAt
    /\ ClaimOK(From(t), fate, now, i, taken[t][i].count, taken[t][i].id, taken[t][i].visibleAt)

\* A task takes one message at a time, and none before it is started.
TasksOK ==
    /\ \A t \in Tasks : \A i \in DOMAIN taken[t] : TakenOK(t, i)
    /\ \A t \in Tasks : \A i, j \in DOMAIN taken[t] : i = j
    /\ \A t \in Tasks : task[t].status = "none" => step[t] = "none" /\ DOMAIN taken[t] = {}

\* No claim of a task has the handle of another claim.
TakenApart == \A t, u \in Tasks : \A i \in DOMAIN taken[t] :
    /\ i \in DOMAIN taken[u] /\ task[t].from = task[u].from
    /\ taken[t][i].count = taken[u][i].count
    => t = u
TakenUncopied == \A t \in Tasks, c \in Consumers : \A i \in DOMAIN taken[t] :
    task[t].from = "source" /\ i \in DOMAIN got[c] => taken[t][i].count # got[c][i].count
TakenUnleased == \A t \in Tasks, c \in Consumers : \A i \in DOMAIN taken[t] : \A l \in inbox[c] :
    task[t].from = "source" => l.handle # Handle(taken[t], i)
TakenHandlesOK == TakenApart /\ TakenUncopied /\ TakenUnleased

TaskInv == MoveInv /\ LeaseInv /\ TasksOK /\ TakenHandlesOK

\* The parts of what a task has taken have their types.
LEMMA TakenTypes ==
    ASSUME MoveTypeOK, NEW t \in Tasks
    PROVE  /\ task[t].from \in Queues /\ task[t].to \in Queues
           /\ \A i \in DOMAIN taken[t] :
                 /\ i \in Nat /\ taken[t][i] \in Message /\ taken[t][i].count \in Nat
                 /\ taken[t][i].id \in MessageIds /\ taken[t][i].visibleAt \in Nat
<1>1. task[t].from \in Queues /\ task[t].to \in Queues /\ IsQueue(taken[t])
  BY DEF MoveTypeOK
<1> QED BY <1>1 DEF IsQueue, Message

\* Both queues are well formed.
LEMMA BoxTypes ==
    ASSUME SqsInv
    PROVE  /\ next \in Nat /\ now \in Nat /\ DOMAIN box = Queues /\ DOMAIN fate = MessageIds
           /\ \A q \in Queues : IsQueue(box[q])
           /\ \A q \in Queues : \A i \in DOMAIN box[q] :
                 /\ i \in Nat /\ i < next /\ box[q][i] \in Message
                 /\ box[q][i].id \in MessageIds /\ box[q][i].count \in Nat
<1>1. /\ next \in Nat /\ now \in Nat /\ DOMAIN box = Queues /\ DOMAIN fate = MessageIds
      /\ \A q \in Queues : IsQueue(box[q]) /\ \A i \in DOMAIN box[q] : i < next
  BY QueueFacts DEF SqsInv, SqsTypeOK, BoxTypeOK
<1>2. \A q \in Queues : \A i \in DOMAIN box[q] : i \in Nat /\ box[q][i] \in Message
  BY <1>1 DEF IsQueue
<1> QED BY <1>1, <1>2 DEF Message

\* store.Send leaves the claims on every queue alone.
LEMMA SendAnyClaim ==
    ASSUME SqsInv, NEW q \in Queues, NEW m, StoreSend(q, m), NEW p \in Queues,
           NEW i \in Nat, NEW n, NEW id, NEW until, i < next,
           ClaimOK(box[p], fate, now, i, n, id, until)
    PROVE  ClaimOK(box'[p], fate, now, i, n, id, until)
<1>1. next \in Nat /\ DOMAIN box = Queues
  BY BoxTypes
<1>2. CASE Duplicate(dedup[q], m, GroupScope, now)
  BY <1>2 DEF StoreSend
<1>3. CASE ~Duplicate(dedup[q], m, GroupScope, now)
  <2>1. box' = [box EXCEPT ![q] = AfterSend(box[q], next, m, now)]
    BY <1>3 DEF StoreSend
  <2>2. CASE p = q
    <3>1. box'[p] = AfterSend(box[p], next, m, now)
      BY <1>1, <2>1, <2>2
    <3> QED BY <1>1, <3>1, ClaimSend
  <2>3. CASE p # q
    BY <2>1, <2>3
  <2> QED BY <2>2, <2>3
<1> QED BY <1>2, <1>3

\* Some handle deletes or hides something in the source queue: the other claims
\* stay, those on the dead-letter queue too.
LEMMA HandleAnyClaim ==
    ASSUME LeaseInv, NEW h, HandleStep(h), NEW p \in Queues, NEW i \in Nat, NEW n \in Nat,
           NEW id \in MessageIds, NEW until \in Nat, p = "source" => h # <<i, n>>,
           ClaimOK(box[p], fate, now, i, n, id, until)
    PROVE  ClaimOK(box'[p], fate', now', i, n, id, until)
<1>1. CASE p = "source"
  <2>1. ClaimOK(Source, fate, now, i, n, id, until)
    BY <1>1 DEF Source
  <2>2. ClaimOK(Source', fate', now', i, n, id, until)
    BY <1>1, <2>1, OtherClaims
  <2> QED BY <1>1, <2>2 DEF Source
<1>2. CASE p # "source"
  <2>1. box'[p] = box[p] /\ now' = now /\ fate'[id] \in {fate[id], "done"}
    BY <1>2 DEF HandleStep
  <2> QED BY <2>1 DEF ClaimOK
<1> QED BY <1>1, <1>2

\* Nobody's copy or lease has this handle.
Unused(h) == /\ \A c \in Consumers : \A i \in DOMAIN got[c] : h # Handle(got[c], i)
             /\ \A c \in Consumers : \A l \in inbox[c] : h # l.handle

\* The four steps that use a handle of a consumer.
LEMMA HandleSteps ==
    ASSUME LeaseInv, NEW c \in Consumers
    PROVE  /\ \A i \in DOMAIN got[c] : DlqDelete(c, i) \/ Hide(c, i) => HandleStep(Handle(got[c], i))
           /\ \A l \in inbox[c] : DeleteMessage(c, l) => HandleStep(l.handle)
           /\ \A l \in inbox[c], t \in Timeouts :
                 ChangeMessageVisibility(c, l, t) => HandleStep(l.handle)
<1>1. DOMAIN box = Queues /\ DOMAIN fate = MessageIds /\ "source" \in Queues
  BY BoxTypes DEF LeaseInv, Queues
<1>2. ASSUME NEW i \in DOMAIN got[c], DlqDelete(c, i) \/ Hide(c, i)
      PROVE  HandleStep(Handle(got[c], i))
  BY <1>1, <1>2 DEF DlqDelete, Hide, HandleStep, Source
<1>3. ASSUME NEW l \in inbox[c], DeleteMessage(c, l)
      PROVE  HandleStep(l.handle)
  <2>1. \A id \in MessageIds : fate'[id] \in {fate[id], "done"}
    BY <1>1, <1>3 DEF DeleteMessage
  <2> QED BY <1>1, <1>3, <2>1 DEF DeleteMessage, HandleStep, Source
<1>4. ASSUME NEW l \in inbox[c], NEW t \in Timeouts, ChangeMessageVisibility(c, l, t)
      PROVE  HandleStep(l.handle)
  BY <1>1, <1>4 DEF ChangeMessageVisibility, HandleStep, Source
<1> QED BY <1>2, <1>3, <1>4

\* The time ReceiveMessage hands to the store is not in the future.
LEMMA ReceiveTimePast ==
    ASSUME LeaseInv, NEW c \in Consumers
    PROVE  ReceiveTime(c) \in Nat /\ ReceiveTime(c) <= now
<1>1. now \in Nat /\ asked[c] \in Nat /\ asked[c] <= now
  BY ClaimTypes DEF LeaseInv, TimesOK
<1> QED BY <1>1 DEF ReceiveTime

\* A step of SqsQueue leaves a claim under a handle that no consumer has alone.
LEMMA StepClaims ==
    ASSUME LeaseInv, [SqsNext]_vars, NEW p \in Queues, NEW i \in Nat, NEW n \in Nat,
           NEW id \in MessageIds, NEW until \in Nat, i < next,
           p = "source" => Unused(<<i, n>>), ClaimOK(box[p], fate, now, i, n, id, until)
    PROVE  ClaimOK(box'[p], fate', now', i, n, id, until)
<1>1. SqsInv /\ now \in Nat /\ next \in Nat /\ IsQueue(box[p]) /\ DOMAIN box = Queues
      /\ DOMAIN fate = MessageIds
  BY BoxTypes DEF LeaseInv
<1>2. CASE Send
  <2>1. PICK o \in MessageIds, g \in Groups \cup {NoGroup}, k \in DedupIds \cup {NoDedup},
             delay \in Delays \cup BatchDelays \cup {QueueDelay} : Accept(o, g, k, delay)
    BY <1>2 DEF Send, SendMessage, SendMessageBatch
  <2>2. /\ StoreSend("source", NewMessage(o, g, k, delay)) /\ "source" \in Queues
        /\ fate[o] = "new" /\ now' = now
    BY <2>1 DEF Accept, Queues
  <2>3. ClaimOK(box'[p], fate, now, i, n, id, until)
    BY <1>1, <2>2, SendAnyClaim
  <2>4. id # o
    BY <2>2 DEF ClaimOK
  <2>5. fate'[id] = fate[id]
    BY <1>1, <2>1, <2>4 DEF Accept
  <2> QED BY <2>2, <2>3, <2>5 DEF ClaimOK
<1>3. CASE UNCHANGED <<box, fate, now>>
  BY <1>3
<1>4. ASSUME NEW c \in Consumers, ReceiveSome(c)
      PROVE  ClaimOK(box'[p], fate', now', i, n, id, until)
  <2> DEFINE r == AfterReceive(box["source"], MaxMessages, ReceiveTime(c))
  <2>1. box' = [box EXCEPT !["source"] = r] /\ fate' = fate /\ now' = now
    BY <1>4 DEF ReceiveSome
  <2>2. CASE p = "source"
    <3>1. ReceiveTime(c) \in Nat /\ ReceiveTime(c) <= now
      BY ReceiveTimePast
    <3>2. ClaimOK(r, fate, now, i, n, id, until)
      BY <1>1, <2>2, <3>1, ClaimReceive
    <3> HIDE DEF r
    <3> QED BY <1>1, <2>1, <2>2, <3>2
  <2>3. CASE p # "source"
    BY <2>1, <2>3
  <2> QED BY <2>2, <2>3
<1>5. ASSUME NEW c \in Consumers, NEW j \in DOMAIN got[c], DlqSend(c, j)
      PROVE  ClaimOK(box'[p], fate', now', i, n, id, until)
  <2>1. StoreSend("dlq", DeadLetter(got[c][j])) /\ "dlq" \in Queues /\ fate' = fate /\ now' = now
    BY <1>5 DEF DlqSend, Queues
  <2> QED BY <1>1, <2>1, SendAnyClaim
<1>6. ASSUME NEW c \in Consumers, NEW j \in DOMAIN got[c], DlqDelete(c, j) \/ Hide(c, j)
      PROVE  ClaimOK(box'[p], fate', now', i, n, id, until)
  <2>1. HandleStep(Handle(got[c], j)) /\ (p = "source" => Handle(got[c], j) # <<i, n>>)
    BY <1>6, HandleSteps DEF Unused
  <2> QED BY <2>1, HandleAnyClaim
<1>7. ASSUME NEW c \in Consumers, NEW l \in inbox[c],
             DeleteMessage(c, l) \/ \E t \in Timeouts : ChangeMessageVisibility(c, l, t)
      PROVE  ClaimOK(box'[p], fate', now', i, n, id, until)
  <2>1. HandleStep(l.handle) /\ (p = "source" => l.handle # <<i, n>>)
    BY <1>7, HandleSteps DEF Unused
  <2> QED BY <2>1, HandleAnyClaim
<1>8. ASSUME NEW q \in Queues, PurgeQueue(q) \/ RemoveExpired(q)
      PROVE  ClaimOK(box'[p], fate', now', i, n, id, until)
  <2>1. PICK gone \in SUBSET DOMAIN box[q] :
           box' = [box EXCEPT ![q] = Without(box[q], gone)] /\ fate' = Ended(q, gone)
    BY <1>1, <1>8, EndIsWithout
  <2>2. /\ fate'[id] = (IF \E j \in gone : box[q][j].id = id THEN "done" ELSE fate[id])
        /\ now' = now
    BY <1>8, <2>1 DEF Ended, PurgeQueue, RemoveExpired
  <2>3. CASE p = q
    <3>1. box'[p] = Without(box[p], gone)
      BY <1>1, <2>1, <2>3
    <3>2. fate'[id] = IF \E j \in gone : box[p][j].id = id THEN "done" ELSE fate[id]
      BY <2>2, <2>3
    <3>3. ClaimOK(Without(box[p], gone), fate', now, i, n, id, until)
      BY <3>2, ClaimEnd
    <3> QED BY <2>2, <3>1, <3>3
  <2>4. CASE p # q
    <3>1. box'[p] = box[p]
      BY <2>1, <2>4
    <3> QED BY <2>2, <3>1 DEF ClaimOK
  <2> QED BY <2>3, <2>4
<1>9. CASE Tick
  <2>1. box' = box /\ fate' = fate /\ now' \in Nat /\ now <= now'
    BY <1>1, <1>9 DEF Tick
  <2>2. fate[id] # "new"
    BY DEF ClaimOK
  <2> QED BY <1>1, <2>1, <2>2, ClaimFrame
<1>10. ASSUME NEW c \in Consumers,
              \/ ReceiveNone(c) \/ Register(c) \/ WaitEnds(c) \/ HangUp(c) \/ Answer(c)
              \/ \E wait \in Waits : ReceiveBegin(c, wait)
       PROVE  ClaimOK(box'[p], fate', now', i, n, id, until)
  <2>1. UNCHANGED <<box, fate, now>>
    BY <1>10, PollTimes
  <2> QED BY <1>3, <2>1
<1>11. CASE Notify \/ UNCHANGED vars
  BY <1>3, <1>11 DEF Notify, vars
<1> QED BY <1>2, <1>4, <1>5, <1>6, <1>7, <1>8, <1>9, <1>10, <1>11 DEF SqsNext, Receive, Client

\* A step of SqsQueue gives out no handle but fresh ones of the source queue: a
\* lease has the handle of a copy, and a copy the one Receive has just drawn.
LEMMA StepHandles ==
    ASSUME LeaseInv, [SqsNext]_vars, NEW c \in Consumers
    PROVE  /\ \A i \in DOMAIN got'[c] :
                 \/ i \in DOMAIN got[c] /\ got'[c][i] = got[c][i]
                 \/ i \in DOMAIN Source /\ got'[c][i].count = Source[i].count + 1
           /\ \A l \in inbox'[c] :
                 \/ \E k \in inbox[c] : l.handle = k.handle
                 \/ \E i \in DOMAIN got[c] : l.handle = Handle(got[c], i)
<1>1. /\ SqsInv /\ DOMAIN got = Consumers /\ DOMAIN inbox = Consumers /\ DOMAIN box = Queues
      /\ inbox \in [Consumers -> SUBSET Leases]
  BY BoxTypes DEF LeaseInv, SqsInv, SqsTypeOK, PollTypeOK
<1> DEFINE Goal == /\ \A i \in DOMAIN got'[c] :
                         \/ i \in DOMAIN got[c] /\ got'[c][i] = got[c][i]
                         \/ i \in DOMAIN Source /\ got'[c][i].count = Source[i].count + 1
                   /\ \A l \in inbox'[c] :
                         \/ \E k \in inbox[c] : l.handle = k.handle
                         \/ \E i \in DOMAIN got[c] : l.handle = Handle(got[c], i)
<1>2. CASE UNCHANGED <<got, inbox>>
  BY <1>2
<1>3. ASSUME NEW d \in Consumers, ReceiveSome(d)
      PROVE  Goal
  <2>1. CASE d # c
    BY <1>3, <2>1 DEF ReceiveSome
  <2>2. CASE d = c
    <3> DEFINE r == AfterReceive(Source, MaxMessages, ReceiveTime(c))
    <3>1. /\ box' = [box EXCEPT !["source"] = r] /\ inbox' = inbox
          /\ got' = [got EXCEPT ![c] = [i \in Available(c) |-> box'["source"][i]]]
      BY <1>3, <2>2 DEF ReceiveSome, Source
    <3>2. Available(c) = Picked(Source, MaxMessages, ReceiveTime(c))
          /\ Available(c) \subseteq DOMAIN Source
      BY DEF Available, Source, Picked, Candidates
    <3>3. \A i \in Available(c) : r[i].count = Source[i].count + 1
      <4> TAKE i \in Available(c)
      <4>1. r[i] = Received(Source[i], ReceiveTime(c)) /\ Source[i] \in Message
        BY <1>1, <3>2, ClaimTypes DEF AfterReceive
      <4> QED BY <4>1 DEF Received, Message
    <3> HIDE DEF r
    <3>4. box'["source"] = r
      BY <1>1, <3>1 DEF Queues
    <3> QED BY <1>1, <3>1, <3>2, <3>3, <3>4
  <2> QED BY <2>1, <2>2
<1>4. ASSUME NEW d \in Consumers, NEW j \in DOMAIN got[d], DlqDelete(d, j)
      PROVE  Goal
  <2>1. got' = Handled(d, j) /\ inbox' = inbox
    BY <1>4 DEF DlqDelete
  <2>2. \A i \in DOMAIN got'[c] : i \in DOMAIN got[c] /\ got'[c][i] = got[c][i]
    BY <2>1, HandledCopies
  <2> QED BY <2>1, <2>2
<1>5. ASSUME NEW d \in Consumers, NEW j \in DOMAIN got[d], Hide(d, j)
      PROVE  Goal
  <2>1. \A i \in DOMAIN got'[c] : i \in DOMAIN got[c] /\ got'[c][i] = got[c][i]
    BY <1>5, HandledCopies DEF Hide
  <2> DEFINE new == [id |-> got[d][j].id, handle |-> Handle(got[d], j),
                     until |-> asked[d] + VisTimeout]
  <2>2. inbox' = [inbox EXCEPT ![d] = inbox[d] \cup {new}] /\ new.handle = Handle(got[d], j)
    BY <1>5 DEF Hide
  <2> HIDE DEF new
  <2>3. \A l \in inbox'[c] : l \in inbox[c] \/ (d = c /\ l = new)
    BY <1>1, <2>2
  <2> QED BY <2>1, <2>2, <2>3
<1>6. ASSUME NEW d \in Consumers, NEW k \in inbox[d], DeleteMessage(d, k)
      PROVE  Goal
  BY <1>1, <1>6 DEF DeleteMessage, pollVars
<1>7. ASSUME NEW d \in Consumers, NEW k \in inbox[d], NEW t \in Timeouts,
             ChangeMessageVisibility(d, k, t)
      PROVE  Goal
  <2>1. PICK u : inbox' = [inbox EXCEPT ![d] = (inbox[d] \ {k}) \cup {[k EXCEPT !.until = u]}]
    BY <1>7 DEF ChangeMessageVisibility
  <2>2. k \in Leases /\ got' = got
    BY <1>1, <1>7 DEF ChangeMessageVisibility, pollVars
  <2>3. [k EXCEPT !.until = u].handle = k.handle
    BY <2>2 DEF Leases
  <2>4. \A l \in inbox'[c] : l \in inbox[c] \/ (d = c /\ l = [k EXCEPT !.until = u])
    BY <1>1, <2>1
  <2> QED BY <2>2, <2>3, <2>4
<1>8. \/ UNCHANGED <<got, inbox>>
      \/ \E d \in Consumers :
            \/ ReceiveSome(d)
            \/ \E j \in DOMAIN got[d] : DlqDelete(d, j) \/ Hide(d, j)
            \/ \E k \in inbox[d] : \/ DeleteMessage(d, k)
                                   \/ \E t \in Timeouts : ChangeMessageVisibility(d, k, t)
  BY DEF SqsNext, Send, SendMessage, SendMessageBatch, Accept, Notify, Receive, Client, ReceiveNone,
     Register, WaitEnds, DlqSend, Answer, ReceiveBegin, HangUp, PurgeQueue, RemoveExpired, Tick,
     vars, pollVars
<1> QED BY <1>2, <1>3, <1>4, <1>5, <1>6, <1>7, <1>8

\* What a step of SqsQueue does to the clock and to the arrival numbers.
LEMMA StepCounters ==
    ASSUME SqsInv, [SqsNext]_vars
    PROVE  now' \in {now, now + 1} /\ next' \in Nat /\ next <= next'
<1>1. next \in Nat
  BY BoxTypes
<1>2. ASSUME NEW q, NEW m, StoreSend(q, m)
      PROVE  next' \in Nat /\ next <= next'
  BY <1>1, <1>2 DEF StoreSend
<1>3. CASE Send
  BY <1>2, <1>3 DEF Send, SendMessage, SendMessageBatch, Accept
<1>4. ASSUME NEW c \in Consumers, NEW i \in DOMAIN got[c], DlqSend(c, i)
      PROVE  now' = now /\ next' \in Nat /\ next <= next'
  BY <1>2, <1>4 DEF DlqSend
<1>5. \/ Send
      \/ \E c \in Consumers : \E i \in DOMAIN got[c] : DlqSend(c, i)
      \/ next' = next /\ now' \in {now, now + 1}
  <2>1. CASE Tick
    BY <2>1 DEF Tick
  <2>2. CASE Notify \/ UNCHANGED vars \/ \E q \in Queues : PurgeQueue(q) \/ RemoveExpired(q)
    BY <2>2 DEF Notify, vars, PurgeQueue, RemoveExpired
  <2>3. ASSUME NEW c \in Consumers, Receive(c),
               ~\E i \in DOMAIN got[c] : DlqSend(c, i)
        PROVE  next' = next /\ now' = now
    BY <2>3 DEF Receive, ReceiveSome, ReceiveNone, Register, WaitEnds, DlqDelete, Hide, Answer
  <2>4. ASSUME NEW c \in Consumers, Client(c)
        PROVE  next' = next /\ now' = now
    BY <2>4 DEF Client, ReceiveBegin, HangUp, DeleteMessage, ChangeMessageVisibility
  <2> QED BY <2>1, <2>2, <2>3, <2>4 DEF SqsNext
<1> QED BY <1>1, <1>3, <1>4, <1>5

\* What a task holds keeps being a claim if its source and its claim do.
LEMMA TakenFrame ==
    ASSUME TaskInv, NEW t \in Tasks, NEW i \in DOMAIN taken[t], taken'[t] = taken[t],
           task'[t].from = task[t].from, next' \in Nat, next <= next',
           now' < taken[t][i].visibleAt,
           ClaimOK(box'[task[t].from], fate', now', i, taken[t][i].count, taken[t][i].id,
                   taken[t][i].visibleAt)
    PROVE  TakenOK(t, i)'
<1>1. TakenOK(t, i) /\ i \in Nat /\ next \in Nat
  BY TakenTypes, BoxTypes DEF TaskInv, TasksOK, MoveInv
<1>2. i < next'
  BY <1>1 DEF TakenOK
<1>3. From(t)' = box'[task[t].from] /\ taken'[t][i] = taken[t][i]
  BY DEF From
<1> QED BY <1>2, <1>3 DEF TakenOK

\* The handle of what a task took from the source queue is nobody else's.
LEMMA TakenUnused ==
    ASSUME TaskInv, NEW t \in Tasks, NEW i \in DOMAIN taken[t], task[t].from = "source"
    PROVE  Unused(Handle(taken[t], i))
<1>1. TakenUncopied /\ TakenUnleased
  BY DEF TaskInv, TakenHandlesOK
<1> QED BY <1>1 DEF Unused, TakenUncopied, TakenUnleased, Handle

\* Consumers, clients and senders leave what the tasks have taken alone.
LEMMA QueueTaskStep ==
    ASSUME TaskInv, QueueStep \/ UNCHANGED allVars
    PROVE  TaskInv'
<1>1. MoveInv /\ MoveInv' /\ LeaseInv /\ SqsInv /\ MoveTypeOK
  BY MoveInvStep DEF TaskInv, MoveInv, MoveNext
<1>2. [SqsNext]_vars /\ UNCHANGED <<task, step, taken>>
  BY DEF QueueStep, allVars, moveVars
<1>3. now' # now => \A t \in Tasks : MovePrompt(t)
  BY DEF QueueStep, allVars, vars
<1>4. LeaseInv'
  BY <1>1, <1>2, LeaseStep
<1>5. now' \in {now, now + 1} /\ next' \in Nat /\ next <= next'
  BY <1>1, <1>2, StepCounters
<1>6. ASSUME NEW t \in Tasks, NEW i \in DOMAIN taken[t]
      PROVE  TakenOK(t, i)'
  <2>1. /\ TakenOK(t, i) /\ i \in Nat /\ taken[t][i].count \in Nat
        /\ taken[t][i].id \in MessageIds /\ taken[t][i].visibleAt \in Nat
        /\ task[t].from \in Queues
    BY <1>1, TakenTypes DEF TaskInv, TasksOK
  <2>2. task[t].from = "source" => Unused(<<i, taken[t][i].count>>)
    BY TakenUnused DEF Handle
  <2>3. /\ ClaimOK(box[task[t].from], fate, now, i, taken[t][i].count, taken[t][i].id,
                   taken[t][i].visibleAt)
        /\ i < next /\ now < taken[t][i].visibleAt
    BY <2>1 DEF TakenOK, From
  <2>4. ClaimOK(box'[task[t].from], fate', now', i, taken[t][i].count, taken[t][i].id,
                taken[t][i].visibleAt)
    BY <1>1, <1>2, <2>1, <2>2, <2>3, StepClaims
  <2>5. now' < taken[t][i].visibleAt
    BY <1>3, <1>5, <2>3 DEF MovePrompt
  <2> QED BY <1>2, <1>5, <2>4, <2>5, TakenFrame
<1>7. TasksOK'
  BY <1>2, <1>6 DEF TaskInv, TasksOK
<1>8. TakenApart'
  BY <1>2 DEF TaskInv, TakenHandlesOK, TakenApart
<1>9. TakenUncopied'
  <2> SUFFICES ASSUME NEW t \in Tasks, NEW c \in Consumers, NEW i \in DOMAIN taken[t],
                      task[t].from = "source", i \in DOMAIN got'[c]
               PROVE  taken[t][i].count # got'[c][i].count
    BY <1>2 DEF TakenUncopied
  <2>1. CASE i \in DOMAIN got[c] /\ got'[c][i] = got[c][i]
    BY <2>1 DEF TaskInv, TakenHandlesOK, TakenUncopied
  <2>2. CASE i \in DOMAIN Source /\ got'[c][i].count = Source[i].count + 1
    <3>1. taken[t][i].count \in Nat /\ Source[i].count \in Nat
      BY <1>1, <2>2, TakenTypes, BoxTypes DEF Source, Queues
    <3>2. taken[t][i].count <= Source[i].count
      BY <2>2 DEF TaskInv, TasksOK, TakenOK, ClaimOK, From, Source
    <3> QED BY <2>2, <3>1, <3>2
  <2> QED BY <1>1, <1>2, <2>1, <2>2, StepHandles
<1>10. TakenUnleased'
  <2> SUFFICES ASSUME NEW t \in Tasks, NEW c \in Consumers, NEW i \in DOMAIN taken[t],
                      task[t].from = "source", NEW l \in inbox'[c]
               PROVE  l.handle # Handle(taken[t], i)
    BY <1>2 DEF TakenUnleased, Handle
  <2>1. Unused(Handle(taken[t], i))
    BY TakenUnused
  <2> QED BY <1>1, <1>2, <2>1, StepHandles DEF Unused
<1> QED BY <1>1, <1>4, <1>7, <1>8, <1>9, <1>10 DEF TaskInv, TakenHandlesOK

\* A task is started, cancelled or ends.
LEMMA TaskTurnStep ==
    ASSUME TaskInv, MoveInv', NEW t \in Tasks,
           \/ \E from \in MoveFrom, dest \in MoveTo : StartMessageMoveTask(t, from, dest)
           \/ CancelMessageMoveTask(t) \/ MoveCompletes(t) \/ MoveCancelled(t)
    PROVE  TaskInv'
<1>1. UNCHANGED vars /\ taken' = taken
  BY DEF StartMessageMoveTask, CancelMessageMoveTask, MoveCompletes, MoveCancelled
<1>2. LeaseInv'
  BY <1>1, LeaseStep DEF TaskInv
<1>3. /\ DOMAIN task = Tasks /\ DOMAIN step = Tasks
      /\ task \in [Tasks -> [status : {"none", "RUNNING", "CANCELLING", "CANCELLED", "COMPLETED"},
                             from : Queues, to : Queues, moved : Nat]]
  BY DEF TaskInv, MoveInv, MoveTypeOK
<1>4. \A u \in Tasks : DOMAIN taken[u] # {} => task'[u].from = task[u].from
  <2>1. ASSUME NEW from \in MoveFrom, NEW dest \in MoveTo, StartMessageMoveTask(t, from, dest)
        PROVE  DOMAIN taken[t] = {} /\ \A u \in Tasks \ {t} : task'[u] = task[u]
    BY <1>3, <2>1 DEF StartMessageMoveTask, TaskInv, TasksOK
  <2>2. CASE CancelMessageMoveTask(t)
    BY <1>3, <2>2 DEF CancelMessageMoveTask
  <2>3. CASE MoveCompletes(t)
    BY <1>3, <2>3 DEF MoveCompletes
  <2>4. CASE MoveCancelled(t)
    BY <1>3, <2>4 DEF MoveCancelled
  <2> QED BY <2>1, <2>2, <2>3, <2>4
<1>5. \A u \in Tasks : task'[u].status = "none" => step'[u] = "none" /\ DOMAIN taken[u] = {}
  <2>1. ASSUME NEW from \in MoveFrom, NEW dest \in MoveTo, StartMessageMoveTask(t, from, dest),
               NEW u \in Tasks, task'[u].status = "none"
        PROVE  step'[u] = "none" /\ DOMAIN taken[u] = {}
    BY <1>3, <2>1 DEF StartMessageMoveTask, TaskInv, TasksOK
  <2>2. ASSUME CancelMessageMoveTask(t), NEW u \in Tasks, task'[u].status = "none"
        PROVE  step'[u] = "none" /\ DOMAIN taken[u] = {}
    BY <1>3, <2>2 DEF CancelMessageMoveTask, TaskInv, TasksOK
  <2>3. ASSUME MoveCompletes(t), NEW u \in Tasks, task'[u].status = "none"
        PROVE  step'[u] = "none" /\ DOMAIN taken[u] = {}
    BY <1>3, <2>3 DEF MoveCompletes, TaskInv, TasksOK
  <2>4. ASSUME MoveCancelled(t), NEW u \in Tasks, task'[u].status = "none"
        PROVE  step'[u] = "none" /\ DOMAIN taken[u] = {}
    BY <1>3, <2>4 DEF MoveCancelled, TaskInv, TasksOK
  <2> QED BY <2>1, <2>2, <2>3, <2>4
<1>6. UNCHANGED <<now, next, box, fate, got, inbox>>
  BY <1>1 DEF vars, pollVars
<1>7. ASSUME NEW u \in Tasks, NEW i \in DOMAIN taken[u]
      PROVE  TakenOK(u, i)'
  <2>1. TakenOK(u, i) /\ From(u)' = From(u)
    BY <1>4, <1>6, <1>7 DEF TaskInv, TasksOK, From
  <2> QED BY <1>1, <1>6, <2>1 DEF TakenOK
<1>8. TasksOK'
  BY <1>1, <1>5, <1>7 DEF TaskInv, TasksOK
<1>9. TakenHandlesOK'
  BY <1>1, <1>4, <1>6 DEF TaskInv, TakenHandlesOK, TakenApart, TakenUncopied, TakenUnleased, Handle
<1> QED BY <1>2, <1>8, <1>9 DEF TaskInv

\* A Receive of at most one message takes no more than one.
LEMMA PickedOne ==
    ASSUME NEW q, IsQueue(q), NEW t, NEW i \in Picked(q, 1, t), NEW j \in Picked(q, 1, t)
    PROVE  i = j
<1>1. Candidates(q, t) \subseteq Nat
  BY DEF Candidates, IsQueue
<1>2. ASSUME NEW k \in Picked(q, 1, t)
      PROVE  k \in Candidates(q, t) /\ \A o \in Candidates(q, t) : ~(o < k)
  <2> DEFINE Before == {o \in Candidates(q, t) : o < k}
  <2>1. k \in Candidates(q, t) /\ Cardinality(Before) < 1
    BY <1>2 DEF Picked
  <2>2. IsFiniteSet(Before)
    <3>1. k \in Nat /\ Before \in SUBSET Nat /\ \A o \in Before : o <= k
      BY <1>1, <2>1
    <3> HIDE DEF Before
    <3> QED BY <3>1, FS_BoundedSetOfNaturals
  <2> HIDE DEF Before
  <2>3. Cardinality(Before) = 0
    BY <2>1, <2>2, FS_CardinalityType
  <2>4. Before = {}
    BY <2>2, <2>3, FS_EmptySet
  <2> QED BY <2>1, <2>4 DEF Before
<1>3. i \in Nat /\ j \in Nat /\ ~(i < j) /\ ~(j < i)
  BY <1>1, <1>2
<1> QED BY <1>3

\* What the receive of a task does to the queue it takes from.
LEMMA MoveReceiveFacts ==
    ASSUME TaskInv, NEW t \in Tasks, MoveReceive(t)
    PROVE  /\ box' = [box EXCEPT ![task[t].from] = AfterReceive(box[task[t].from], 1, now)]
           /\ \A u \in Tasks : u # t => taken'[u] = taken[u] /\ step'[u] = step[u]
           /\ UNCHANGED <<now, next, dedup, pc, asked, deadline, got, inbox, fate, task>>
           /\ step[t] = "waiting" /\ step'[t] = "sending"
           /\ \A i, j \in DOMAIN taken'[t] : i = j
           /\ \A i \in DOMAIN taken'[t] :
                 /\ i \in DOMAIN From(t) /\ taken'[t][i] = box'[task[t].from][i]
                 /\ taken'[t][i].id = From(t)[i].id /\ taken'[t][i].count = From(t)[i].count + 1
                 /\ now < taken'[t][i].visibleAt
           /\ \A p \in Queues : \A i \in Nat, n \in Nat, id \in MessageIds, until \in Nat :
                 ClaimOK(box[p], fate, now, i, n, id, until)
                 => ClaimOK(box'[p], fate, now, i, n, id, until)
           /\ \A p \in Queues : /\ DOMAIN box'[p] = DOMAIN box[p]
                                /\ \A i \in DOMAIN box[p] : box'[p][i].id = box[p][i].id
<1> DEFINE q == task[t].from
           r == AfterReceive(box[q], 1, now)
<1>1. /\ q \in Queues /\ SqsInv /\ now \in Nat /\ IsQueue(box[q]) /\ DOMAIN box = Queues
      /\ DOMAIN taken = Tasks /\ DOMAIN step = Tasks
  BY TakenTypes, BoxTypes DEF TaskInv, MoveInv, MoveTypeOK
<1>2. /\ box' = [box EXCEPT ![q] = r]
      /\ taken' = [taken EXCEPT ![t] = [i \in Movable(t) |-> box'[q][i]]]
      /\ step[t] = "waiting" /\ step' = [step EXCEPT ![t] = "sending"]
      /\ UNCHANGED <<now, next, dedup, pc, asked, deadline, got, inbox, fate, task>>
  BY DEF MoveReceive, pollVars
<1>3. Movable(t) = Picked(box[q], 1, now) /\ Movable(t) \subseteq DOMAIN box[q]
  BY DEF Movable, From, Picked, Candidates
<1>4. box'[q] = r
  BY <1>1, <1>2
<1>5. DOMAIN taken'[t] = Movable(t) /\ \A i \in Movable(t) : taken'[t][i] = r[i]
  BY <1>1, <1>2, <1>4
<1>6. ASSUME NEW i \in Movable(t)
      PROVE  /\ r[i].id = box[q][i].id /\ r[i].count = box[q][i].count + 1
             /\ now < r[i].visibleAt
  <2>1. r[i] = Received(box[q][i], now) /\ box[q][i] \in Message
    BY <1>1, <1>3, BoxTypes DEF AfterReceive
  <2>2. r[i].visibleAt = now + TempVisibility /\ TempVisibility \in Nat \ {0}
    BY <2>1, SqsStoreAssumption DEF Received, Message
  <2>3. now < r[i].visibleAt
    BY <1>1, <2>2
  <2> QED BY <2>1, <2>3 DEF Received, Message
<1>7. \A i, j \in Movable(t) : i = j
  BY <1>1, <1>3, PickedOne
<1>8. ASSUME NEW p \in Queues, NEW i \in Nat, NEW n \in Nat, NEW id \in MessageIds,
             NEW until \in Nat, ClaimOK(box[p], fate, now, i, n, id, until)
      PROVE  ClaimOK(box'[p], fate, now, i, n, id, until)
  <2>1. CASE p = q
    <3>1. now <= now
      BY <1>1
    <3>2. ClaimOK(r, fate, now, i, n, id, until)
      BY <1>1, <1>8, <2>1, <3>1, ClaimReceive
    <3> HIDE DEF r, q
    <3> QED BY <1>4, <2>1, <3>2
  <2>2. CASE p # q
    BY <1>2, <1>8, <2>2
  <2> QED BY <2>1, <2>2
<1>9. DOMAIN r = DOMAIN box[q] /\ \A i \in DOMAIN box[q] : r[i].id = box[q][i].id
  <2>1. DOMAIN r = DOMAIN box[q]
    BY DEF AfterReceive
  <2> QED BY <1>1, <2>1, ReceiveRows
<1> HIDE DEF r, q
<1>10. \A p \in Queues : /\ DOMAIN box'[p] = DOMAIN box[p]
                         /\ \A i \in DOMAIN box[p] : box'[p][i].id = box[p][i].id
  BY <1>1, <1>2, <1>9
<1>11. \A i \in DOMAIN taken'[t] :
                 /\ i \in DOMAIN From(t) /\ taken'[t][i] = box'[task[t].from][i]
                 /\ taken'[t][i].id = From(t)[i].id /\ taken'[t][i].count = From(t)[i].count + 1
                 /\ now < taken'[t][i].visibleAt
  BY <1>3, <1>4, <1>5, <1>6 DEF From, q
<1>12. \A i, j \in DOMAIN taken'[t] : i = j
  BY <1>5, <1>7
<1>13. \A u \in Tasks : u # t => taken'[u] = taken[u] /\ step'[u] = step[u]
  BY <1>1, <1>2
<1>14. step'[t] = "sending"
  BY <1>1, <1>2
<1> QED BY <1>2, <1>8, <1>10, <1>11, <1>12, <1>13, <1>14 DEF r, q

LEMMA MoveReceiveLease ==
    ASSUME TaskInv, MoveInv', NEW t \in Tasks, MoveReceive(t)
    PROVE  LeaseInv'
<1>1. LeaseInv /\ SqsInv /\ SqsInv' /\ next \in Nat
  BY BoxTypes DEF TaskInv, MoveInv
<1>2. UNCHANGED <<now, next, pc, asked, deadline, got, inbox, fate>>
  BY MoveReceiveFacts
<1>3. \A i \in Nat, n \in Nat, id \in MessageIds, until \in Nat :
         ClaimOK(Source, fate, now, i, n, id, until)
         => ClaimOK(Source', fate', now', i, n, id, until)
  BY <1>2, MoveReceiveFacts DEF Source, Queues
<1>4. ClaimsOK' /\ HandlesOK'
  BY <1>1, <1>2, <1>3, CopyHidden, ClaimsFrame
<1>5. BoxKnown'
  <2>1. \A q \in Queues : \A i \in DOMAIN box'[q] :
           i \in DOMAIN box[q] /\ box'[q][i].id = box[q][i].id
    BY MoveReceiveFacts
  <2> QED BY <1>1, <1>2, <2>1, KnownStep
<1>6. TimesOK'
  BY <1>1, <1>2, TimesFrame
<1> QED BY <1>1, <1>4, <1>5, <1>6 DEF LeaseInv

\* A task takes what is under nobody's claim, under a fresh handle.
LEMMA MoveReceiveTask ==
    ASSUME TaskInv, MoveInv', NEW t \in Tasks, MoveReceive(t)
    PROVE  TaskInv'
<1>1. LeaseInv' /\ SqsInv /\ MoveTypeOK /\ next \in Nat /\ now \in Nat /\ BoxKnown
  BY MoveReceiveLease, BoxTypes DEF TaskInv, MoveInv, LeaseInv
<1>2. /\ UNCHANGED <<now, next, got, inbox, fate, task>> /\ step[t] = "waiting"
      /\ \A u \in Tasks : u # t => taken'[u] = taken[u] /\ step'[u] = step[u]
  BY MoveReceiveFacts
<1>3. task[t].from \in Queues
  BY <1>1, TakenTypes
<1>4. ASSUME NEW i \in DOMAIN taken'[t]
      PROVE  /\ i \in Nat /\ i < next /\ From(t)[i].count \in Nat
             /\ taken'[t][i].count = From(t)[i].count + 1
             /\ i \in DOMAIN From(t) /\ fate[From(t)[i].id] # "new"
  <2>1. i \in DOMAIN box[task[t].from] /\ taken'[t][i].count = From(t)[i].count + 1
    BY <1>4, MoveReceiveFacts DEF From
  <2> QED BY <1>1, <1>3, <2>1, BoxTypes DEF From, BoxKnown
<1>5. ASSUME NEW u \in Tasks, NEW i \in DOMAIN taken'[u]
      PROVE  TakenOK(u, i)'
  <2>1. CASE u # t
    <3>1. /\ taken'[u] = taken[u] /\ i \in DOMAIN taken[u] /\ TakenOK(u, i)
      BY <1>2, <1>5, <2>1 DEF TaskInv, TasksOK
    <3>2. /\ task[u].from \in Queues /\ i \in Nat /\ taken[u][i].count \in Nat
          /\ taken[u][i].id \in MessageIds /\ taken[u][i].visibleAt \in Nat
      BY <1>1, <3>1, TakenTypes
    <3>3. ClaimOK(box'[task[u].from], fate, now, i, taken[u][i].count, taken[u][i].id,
                  taken[u][i].visibleAt)
      BY <3>1, <3>2, MoveReceiveFacts DEF TakenOK, From
    <3> QED BY <1>2, <3>1, <3>3 DEF TakenOK, From
  <2>2. CASE u = t
    <3> DEFINE m == taken'[t][i]
    <3>1. i \in DOMAIN taken'[t] /\ m = box'[task[t].from][i] /\ now < m.visibleAt
          /\ m.id = From(t)[i].id /\ m.count = From(t)[i].count + 1
      BY <1>5, <2>2, MoveReceiveFacts
    <3>2. i < next /\ fate[m.id] # "new" /\ i \in DOMAIN box'[task[t].from]
      BY <1>3, <1>4, <3>1, MoveReceiveFacts DEF From
    <3>3. m.count \in Nat /\ m.visibleAt \in Nat
      <4>1. MoveTypeOK'
        BY DEF MoveInv
      <4> QED BY <3>1, <4>1 DEF MoveTypeOK, IsQueue, Message
    <3> HIDE DEF m
    <3>4. ClaimOK(box'[task[t].from], fate, now, i, m.count, m.id, m.visibleAt)
      BY <3>1, <3>2, <3>3 DEF ClaimOK
    <3> QED BY <1>2, <2>2, <3>1, <3>2, <3>4 DEF TakenOK, From, m
  <2> QED BY <2>1, <2>2
<1>6. TasksOK'
  <2>1. \A u \in Tasks : \A i, j \in DOMAIN taken'[u] : i = j
    BY <1>2, MoveReceiveFacts DEF TaskInv, TasksOK
  <2>2. task[t].status # "none"
    BY <1>2 DEF TaskInv, TasksOK
  <2>3. \A u \in Tasks : task'[u].status = "none" => step'[u] = "none" /\ DOMAIN taken'[u] = {}
    BY <1>2, <2>2 DEF TaskInv, TasksOK
  <2> QED BY <1>5, <2>1, <2>3 DEF TasksOK
<1>7. TakenApart'
  <2> SUFFICES ASSUME NEW u \in Tasks, NEW v \in Tasks, NEW i \in DOMAIN taken'[u],
                      i \in DOMAIN taken'[v], task[u].from = task[v].from,
                      taken'[u][i].count = taken'[v][i].count
               PROVE  u = v
    BY <1>2 DEF TakenApart
  <2>1. ASSUME NEW w \in Tasks, w # t, i \in DOMAIN taken[w], task[w].from = task[t].from,
               i \in DOMAIN taken'[t]
        PROVE  taken[w][i].count # taken'[t][i].count
    <3>1. taken[w][i].count <= From(t)[i].count /\ taken[w][i].count \in Nat
      BY <1>1, <1>4, <2>1, TakenTypes DEF TaskInv, TasksOK, TakenOK, ClaimOK, From
    <3> QED BY <1>4, <2>1, <3>1
  <2>2. CASE u # t /\ v # t
    BY <1>2, <2>2 DEF TaskInv, TakenHandlesOK, TakenApart
  <2>3. CASE u = t \/ v = t
    BY <1>2, <2>1, <2>3
  <2> QED BY <2>2, <2>3
<1>8. TakenUncopied'
  <2> SUFFICES ASSUME NEW u \in Tasks, NEW c \in Consumers, NEW i \in DOMAIN taken'[u],
                      task[u].from = "source", i \in DOMAIN got[c]
               PROVE  taken'[u][i].count # got[c][i].count
    BY <1>2 DEF TakenUncopied
  <2>1. CASE u # t
    BY <1>2, <2>1 DEF TaskInv, TakenHandlesOK, TakenUncopied
  <2>2. CASE u = t
    <3>1. From(t) = Source
      BY <2>2 DEF From, Source
    <3>2. got[c][i].count <= Source[i].count /\ got[c][i].count \in Nat
      BY <1>1, <1>4, <2>2, <3>1, ClaimTypes DEF TaskInv, LeaseInv, ClaimsOK, CopyOK, ClaimOK
    <3> QED BY <1>4, <2>2, <3>1, <3>2
  <2> QED BY <2>1, <2>2
<1>9. TakenUnleased'
  <2> SUFFICES ASSUME NEW u \in Tasks, NEW c \in Consumers, NEW i \in DOMAIN taken'[u],
                      NEW l \in inbox[c], task[u].from = "source"
               PROVE  l.handle # Handle(taken'[u], i)
    BY <1>2 DEF TakenUnleased, Handle
  <2>1. CASE u # t
    BY <1>2, <2>1 DEF TaskInv, TakenHandlesOK, TakenUnleased
  <2>2. CASE u = t
    <3>1. From(t) = Source
      BY <2>2 DEF From, Source
    <3>2. LeaseOK(l) /\ l.handle[2] \in Nat
      BY <1>1, ClaimTypes DEF TaskInv, LeaseInv, ClaimsOK
    <3>3. l.handle[1] = i => l.handle[2] <= Source[i].count
      BY <1>4, <2>2, <3>1, <3>2 DEF LeaseOK, ClaimOK
    <3>4. l.handle[1] = i => l.handle[2] # taken'[t][i].count
      BY <1>4, <2>2, <3>1, <3>2, <3>3
    <3> QED BY <2>2, <3>4 DEF Handle
  <2> QED BY <2>1, <2>2
<1> QED BY <1>1, <1>6, <1>7, <1>8, <1>9 DEF TaskInv, TakenHandlesOK

\* The copy a task sends is of a message that was accepted once.
LEMMA MoveSendFacts ==
    ASSUME TaskInv, NEW t \in Tasks, NEW i \in DOMAIN taken[t], MoveSend(t, i)
    PROVE  /\ StoreSend(task[t].to, Moved(taken[t][i])) /\ task[t].to \in Queues
           /\ Moved(taken[t][i]) \in Message /\ Moved(taken[t][i]).id = taken[t][i].id
           /\ Moved(taken[t][i]).dedup = NoDedup
           /\ taken[t][i].id \in MessageIds /\ fate[taken[t][i].id] # "new"
           /\ UNCHANGED <<now, pc, asked, deadline, got, inbox, fate, task, taken>>
           /\ step[t] = "sending" /\ step' = [step EXCEPT ![t] = "deleting"]
<1>1. taken[t][i] \in Message /\ task[t].to \in Queues /\ taken[t][i].id \in MessageIds
  BY TakenTypes DEF TaskInv, MoveInv
<1>2. fate[taken[t][i].id] # "new"
  BY DEF TaskInv, TasksOK, TakenOK, ClaimOK
<1>3. Moved(taken[t][i]).id = taken[t][i].id /\ Moved(taken[t][i]).dedup = NoDedup
  BY <1>1 DEF Moved, Message
<1> QED BY <1>1, <1>2, <1>3, MovedMessage DEF MoveSend, pollVars

LEMMA MoveSendTask ==
    ASSUME TaskInv, MoveInv', NEW t \in Tasks, NEW i \in DOMAIN taken[t], MoveSend(t, i)
    PROVE  TaskInv'
<1> DEFINE m == Moved(taken[t][i])
           q == task[t].to
<1>1. LeaseInv /\ SqsInv /\ SqsInv' /\ MoveTypeOK /\ now \in Nat
  BY BoxTypes DEF TaskInv, MoveInv
<1>2. /\ StoreSend(q, m) /\ q \in Queues /\ m \in Message /\ m.id = taken[t][i].id
      /\ fate[m.id] # "new" /\ step[t] = "sending" /\ step' = [step EXCEPT ![t] = "deleting"]
      /\ UNCHANGED <<now, pc, asked, deadline, got, inbox, fate, task, taken>>
  BY MoveSendFacts
<1> HIDE DEF m, q
<1>3. /\ next' \in Nat /\ next <= next'
      /\ \A j \in Nat, n \in Nat, o \in MessageIds, until \in Nat :
            j < next /\ ClaimOK(Source, fate, now, j, n, o, until)
            => ClaimOK(Source', fate, now, j, n, o, until)
      /\ \A p \in Queues : \A j \in DOMAIN box'[p] :
            (j \in DOMAIN box[p] /\ box'[p][j] = box[p][j]) \/ box'[p][j].id = m.id
  BY <1>1, <1>2, SendClaims
<1>4. ClaimsOK' /\ HandlesOK'
  BY <1>1, <1>2, <1>3, CopyHidden, ClaimsFrame
<1>5. BoxKnown'
  BY <1>1, <1>2, <1>3 DEF LeaseInv, BoxKnown
<1>6. TimesOK'
  BY <1>1, <1>2, TimesFrame
<1>7. LeaseInv'
  BY <1>1, <1>4, <1>5, <1>6 DEF LeaseInv
<1>8. ASSUME NEW u \in Tasks, NEW j \in DOMAIN taken[u]
      PROVE  TakenOK(u, j)'
  <2>1. TakenOK(u, j) /\ j \in Nat /\ task[u].from \in Queues
    BY <1>1, TakenTypes DEF TaskInv, TasksOK
  <2>2. ClaimOK(box'[task[u].from], fate, now, j, taken[u][j].count, taken[u][j].id,
                taken[u][j].visibleAt)
    BY <1>1, <1>2, <2>1, SendAnyClaim DEF TakenOK, From
  <2>3. now < taken[u][j].visibleAt
    BY <2>1 DEF TakenOK
  <2> QED BY <1>2, <1>3, <2>2, <2>3, TakenFrame
<1>9. TasksOK'
  <2>1. task[t].status # "none"
    BY <1>2 DEF TaskInv, TasksOK
  <2>2. \A u \in Tasks : u # t => step'[u] = step[u]
    BY <1>1, <1>2 DEF MoveTypeOK
  <2> QED BY <1>2, <1>8, <2>1, <2>2 DEF TaskInv, TasksOK
<1>10. TakenHandlesOK'
  BY <1>2 DEF TaskInv, TakenHandlesOK, TakenApart, TakenUncopied, TakenUnleased, Handle
<1> QED BY <1>7, <1>9, <1>10 DEF TaskInv

\* A task deletes under its own handle.
LEMMA MoveDeleteFacts ==
    ASSUME TaskInv, NEW t \in Tasks, NEW i \in DOMAIN taken[t], MoveDelete(t, i)
    PROVE  /\ box' = [box EXCEPT ![task[t].from] = AfterDelete(From(t), Handle(taken[t], i))]
           /\ DOMAIN taken'[t] = {}
           /\ \A u \in Tasks : u # t => taken'[u] = taken[u] /\ step'[u] = step[u]
           /\ \A u \in Tasks : task'[u].from = task[u].from /\ task'[u].status = task[u].status
           /\ UNCHANGED <<now, next, dedup, pc, asked, deadline, got, inbox, fate>>
           /\ step[t] = "deleting" /\ step'[t] = "waiting"
           /\ \A p \in Queues : \A j \in Nat, n \in Nat, id \in MessageIds, until \in Nat :
                 /\ p = task[t].from => Handle(taken[t], i) # <<j, n>>
                 /\ ClaimOK(box[p], fate, now, j, n, id, until)
                 => ClaimOK(box'[p], fate, now, j, n, id, until)
           /\ \A p \in Queues : \A j \in DOMAIN box'[p] :
                 j \in DOMAIN box[p] /\ box'[p][j].id = box[p][j].id
<1> DEFINE q == task[t].from
           h == Handle(taken[t], i)
           r == AfterDelete(box[q], h)
<1>1. /\ q \in Queues /\ DOMAIN box = Queues /\ DOMAIN taken = Tasks /\ DOMAIN step = Tasks
      /\ DOMAIN task = Tasks
      /\ task \in [Tasks -> [status : {"none", "RUNNING", "CANCELLING", "CANCELLED", "COMPLETED"},
                             from : Queues, to : Queues, moved : Nat]]
  BY TakenTypes, BoxTypes DEF TaskInv, MoveInv, MoveTypeOK
<1>2. /\ box' = [box EXCEPT ![q] = r] /\ taken' = [taken EXCEPT ![t] = EmptyQueue]
      /\ task' = [task EXCEPT ![t].moved = @ + 1] /\ step[t] = "deleting"
      /\ step' = [step EXCEPT ![t] = "waiting"]
      /\ UNCHANGED <<now, next, dedup, pc, asked, deadline, got, inbox, fate>>
  BY DEF MoveDelete, pollVars
<1>3. \A u \in Tasks : task'[u].from = task[u].from /\ task'[u].status = task[u].status
  BY <1>1, <1>2
<1>4. /\ \A u \in Tasks : u # t => taken'[u] = taken[u] /\ step'[u] = step[u]
      /\ DOMAIN taken'[t] = {} /\ step'[t] = "waiting"
  BY <1>1, <1>2 DEF EmptyQueue
<1>5. ASSUME NEW p \in Queues, NEW j \in Nat, NEW n \in Nat, NEW id \in MessageIds,
             NEW until \in Nat, p = q => h # <<j, n>>, ClaimOK(box[p], fate, now, j, n, id, until)
      PROVE  ClaimOK(box'[p], fate, now, j, n, id, until)
  <2>1. CASE p = q
    <3>1. ClaimOK(r, fate, now, j, n, id, until)
      BY <1>5, <2>1, ClaimDelete
    <3> HIDE DEF r, q
    <3> QED BY <1>1, <1>2, <2>1, <3>1
  <2>2. CASE p # q
    BY <1>2, <1>5, <2>2
  <2> QED BY <2>1, <2>2
<1>6. \A j \in DOMAIN r : j \in DOMAIN box[q] /\ r[j].id = box[q][j].id
  BY DEF AfterDelete, Without
<1> HIDE DEF r, q, h
<1>7. \A p \in Queues : \A j \in DOMAIN box'[p] :
         j \in DOMAIN box[p] /\ box'[p][j].id = box[p][j].id
  BY <1>1, <1>2, <1>6
<1> QED BY <1>2, <1>3, <1>4, <1>5, <1>7 DEF r, q, h, From

LEMMA MoveDeleteTask ==
    ASSUME TaskInv, MoveInv', NEW t \in Tasks, NEW i \in DOMAIN taken[t], MoveDelete(t, i)
    PROVE  TaskInv'
<1> DEFINE h == Handle(taken[t], i)
<1>1. LeaseInv /\ SqsInv /\ SqsInv' /\ MoveTypeOK /\ now \in Nat /\ next \in Nat
  BY BoxTypes DEF TaskInv, MoveInv
<1>2. /\ UNCHANGED <<now, next, pc, asked, deadline, got, inbox, fate>>
      /\ DOMAIN taken'[t] = {} /\ step[t] = "deleting"
      /\ \A u \in Tasks : u # t => taken'[u] = taken[u] /\ step'[u] = step[u]
      /\ \A u \in Tasks : task'[u].from = task[u].from /\ task'[u].status = task[u].status
  BY MoveDeleteFacts
<1>3. task[t].from = "source" => Unused(h)
  BY TakenUnused
<1>4. ASSUME NEW c \in Consumers, NEW j \in DOMAIN got[c]
      PROVE  CopyOK(c, j)'
  <2>1. /\ CopyOK(c, j) /\ j \in Nat /\ got[c][j].count \in Nat
        /\ got[c][j].id \in MessageIds /\ got[c][j].visibleAt \in Nat
    BY <1>1, ClaimTypes DEF LeaseInv, ClaimsOK
  <2>2. "source" = task[t].from => h # <<j, got[c][j].count>>
    BY <1>3 DEF Unused, Handle
  <2>3. ClaimOK(box'["source"], fate, now, j, got[c][j].count, got[c][j].id, got[c][j].visibleAt)
    BY <2>1, <2>2, MoveDeleteFacts DEF CopyOK, Source, Queues
  <2> QED BY <1>2, <2>1, <2>3 DEF CopyOK, Source
<1>5. ASSUME NEW c \in Consumers, NEW l \in inbox[c]
      PROVE  LeaseOK(l)'
  <2>1. /\ LeaseOK(l) /\ l.handle[1] \in Nat /\ l.handle[2] \in Nat /\ l.id \in MessageIds
        /\ l.until \in Nat /\ l.handle = <<l.handle[1], l.handle[2]>>
    BY <1>1, ClaimTypes DEF LeaseInv, ClaimsOK
  <2>2. "source" = task[t].from => h # <<l.handle[1], l.handle[2]>>
    BY <1>3, <2>1 DEF Unused
  <2>3. ClaimOK(box'["source"], fate, now, l.handle[1], l.handle[2], l.id, l.until)
    BY <2>1, <2>2, MoveDeleteFacts DEF LeaseOK, Source, Queues
  <2> QED BY <1>2, <2>1, <2>3 DEF LeaseOK, Source
<1>6. ClaimsOK' /\ HandlesOK'
  <2>1. ClaimsOK'
    BY <1>2, <1>4, <1>5 DEF ClaimsOK
  <2>2. HandlesOK'
    BY <1>1, <1>2 DEF LeaseInv, HandlesOK, CopiesApart, CopiesUnleased, LeasesApart, Handle
  <2> QED BY <2>1, <2>2
<1>7. BoxKnown'
  <2>1. \A q \in Queues : \A j \in DOMAIN box'[q] :
           j \in DOMAIN box[q] /\ box'[q][j].id = box[q][j].id
    BY MoveDeleteFacts
  <2> QED BY <1>1, <1>2, <2>1, KnownStep
<1>8. LeaseInv'
  BY <1>1, <1>2, <1>6, <1>7, TimesFrame DEF LeaseInv
<1>9. ASSUME NEW u \in Tasks, NEW j \in DOMAIN taken'[u]
      PROVE  TakenOK(u, j)'
  <2>1. u # t /\ taken'[u] = taken[u] /\ j \in DOMAIN taken[u]
    BY <1>2, <1>9
  <2>2. /\ TakenOK(u, j) /\ task[u].from \in Queues /\ j \in Nat /\ taken[u][j].count \in Nat
        /\ taken[u][j].id \in MessageIds /\ taken[u][j].visibleAt \in Nat
    BY <1>1, <2>1, TakenTypes DEF TaskInv, TasksOK
  <2>3. task[u].from = task[t].from => h # <<j, taken[u][j].count>>
    BY <2>1 DEF TaskInv, TakenHandlesOK, TakenApart, Handle
  <2>4. ClaimOK(box'[task[u].from], fate, now, j, taken[u][j].count, taken[u][j].id,
                taken[u][j].visibleAt)
    BY <2>2, <2>3, MoveDeleteFacts DEF TakenOK, From
  <2> QED BY <1>2, <2>1, <2>2, <2>4 DEF TakenOK, From
<1>10. TasksOK'
  <2>1. task[t].status # "none"
    BY <1>2 DEF TaskInv, TasksOK
  <2> QED BY <1>2, <1>9, <2>1 DEF TaskInv, TasksOK
<1>11. TakenHandlesOK'
  <2>1. \A u \in Tasks : \A j \in DOMAIN taken'[u] : taken'[u] = taken[u]
    BY <1>2
  <2> QED BY <1>2, <2>1 DEF TaskInv, TakenHandlesOK, TakenApart, TakenUncopied, TakenUnleased, Handle
<1> QED BY <1>8, <1>10, <1>11 DEF TaskInv

\* Every step of the composition keeps the claims of consumers and of tasks.
LEMMA TaskInvStep ==
    ASSUME TaskInv, [MoveNext]_allVars
    PROVE  TaskInv'
<1>1. MoveInv'
  BY MoveInvStep DEF TaskInv
<1>2. CASE QueueStep \/ UNCHANGED allVars
  BY <1>2, QueueTaskStep
<1>3. ASSUME NEW t \in Tasks,
             \/ \E from \in MoveFrom, dest \in MoveTo : StartMessageMoveTask(t, from, dest)
             \/ CancelMessageMoveTask(t) \/ Move(t)
      PROVE  TaskInv'
  BY <1>1, <1>3, TaskTurnStep, MoveReceiveTask, MoveSendTask, MoveDeleteTask DEF Move
<1> QED BY <1>2, <1>3 DEF MoveNext

LEMMA TaskInitInv == ASSUME MoveInit PROVE TaskInv
<1>1. MoveInv /\ LeaseInv
  BY MoveInitInv, LeaseInitInv DEF MoveInit
<1>2. \A t \in Tasks : DOMAIN taken[t] = {} /\ step[t] = "none"
  BY DEF MoveInit, EmptyQueue
<1> QED BY <1>1, <1>2 DEF TaskInv, TasksOK, TakenHandlesOK, TakenApart, TakenUncopied, TakenUnleased

\* The claims of consumers and of tasks are kept by every interleaving.
THEOREM MoveClaims == MoveSpec => []TaskInv
<1>1. TaskInv /\ [MoveNext]_allVars => TaskInv'
  BY TaskInvStep
<1> QED BY <1>1, TaskInitInv, PTL DEF MoveSpec

\* A consumer alone holds its message until its lease ends with any number of move
\* tasks beside it, also such as take from the consumer's own queue.
THEOREM MoveLeasesHonoured == MoveSpec => []LeaseHonoured
<1>1. TaskInv => LeaseHonoured
  BY LeaseInvHonours DEF TaskInv
<1> QED BY <1>1, MoveClaims, PTL

-----------------------------------------------------------------------------
(* One of each message *)

\* Message i of q is the original of a redrive or a move that has sent its copy.
Carried(q, i) ==
    \/ q = "source" /\ \E c \in Consumers : pc[c] = "moving" /\ First(c, i)
    \/ \E t \in Tasks : step[t] = "deleting" /\ task[t].from = q /\ i \in DOMAIN taken[t]

Row(q, i, id) == i \in DOMAIN box[q] /\ box[q][i].id = id
Loose(q, i, id) == Row(q, i, id) /\ ~Carried(q, i)
OnlyLoose(q, i, id) ==
    Loose(q, i, id) /\ \A p \in Queues, j \in Nat : Loose(p, j, id) => p = q /\ j = i

\* Besides the originals that are about to be deleted there is one of each message.
OnceOK == \A id \in MessageIds :
    fate[id] = "accepted" => \E q \in Queues, i \in Nat : OnlyLoose(q, i, id)

OnceInv == TaskInv /\ (DlqUndeduped => OnceOK)

LEMMA CarriedOld ==
    ASSUME TaskInv, NEW q, NEW i, Carried(q, i)
    PROVE  i \in Nat /\ i < next
<1>1. ASSUME NEW c \in Consumers, First(c, i)
      PROVE  i \in Nat /\ i < next
  <2>1. i \in DOMAIN got[c]
    BY <1>1 DEF First
  <2> QED BY <2>1, ClaimTypes DEF TaskInv, LeaseInv, ClaimsOK, CopyOK
<1>2. ASSUME NEW t \in Tasks, i \in DOMAIN taken[t]
      PROVE  i \in Nat /\ i < next
  BY <1>2, TakenTypes DEF TaskInv, MoveInv, TasksOK, TakenOK
<1> QED BY <1>1, <1>2 DEF Carried

\* A consumer's copy is of a message that is in the source queue, unless its fate
\* is settled, and the handle is the current one.
LEMMA CopyRow ==
    ASSUME TaskInv, NEW c \in Consumers, NEW i \in DOMAIN got[c]
    PROVE  /\ i \in DOMAIN box["source"] => box["source"][i].id = got[c][i].id
           /\ fate[got[c][i].id] = "accepted"
              => Row("source", i, got[c][i].id) /\ box["source"][i].count = got[c][i].count
<1>1. CopyOK(c, i)
  BY DEF TaskInv, LeaseInv, ClaimsOK
<1> QED BY <1>1 DEF CopyOK, ClaimOK, Row, Source

LEMMA TakenRow ==
    ASSUME TaskInv, NEW t \in Tasks, NEW i \in DOMAIN taken[t]
    PROVE  /\ i \in DOMAIN box[task[t].from] => box[task[t].from][i].id = taken[t][i].id
           /\ fate[taken[t][i].id] = "accepted"
              => /\ Row(task[t].from, i, taken[t][i].id)
                 /\ box[task[t].from][i].count = taken[t][i].count
<1>1. TakenOK(t, i)
  BY DEF TaskInv, TasksOK
<1> QED BY <1>1 DEF TakenOK, ClaimOK, Row, From

\* Nobody else has sent a copy of what a consumer is still to handle ...
LEMMA CopyLoose ==
    ASSUME TaskInv, NEW c \in Consumers, NEW i \in DOMAIN got[c], pc[c] # "moving",
           fate[got[c][i].id] = "accepted"
    PROVE  Loose("source", i, got[c][i].id)
<1>1. Row("source", i, got[c][i].id) /\ box["source"][i].count = got[c][i].count
  BY CopyRow
<1>2. ASSUME NEW d \in Consumers, pc[d] = "moving", First(d, i)
      PROVE  FALSE
  <2>1. i \in DOMAIN got[d]
    BY <1>2 DEF First
  <2>2. got[d][i].id = got[c][i].id
    BY <1>1, <2>1, CopyRow DEF Row
  <2>3. got[d][i].count = got[c][i].count
    BY <1>1, <2>1, <2>2, CopyRow
  <2>4. c = d
    BY <2>1, <2>3 DEF TaskInv, LeaseInv, HandlesOK, CopiesApart
  <2> QED BY <1>2, <2>4
<1>3. ASSUME NEW t \in Tasks, task[t].from = "source", i \in DOMAIN taken[t]
      PROVE  FALSE
  <2>1. taken[t][i].id = got[c][i].id
    BY <1>1, <1>3, TakenRow DEF Row
  <2>2. taken[t][i].count = got[c][i].count
    BY <1>1, <1>3, <2>1, TakenRow
  <2> QED BY <1>3, <2>2 DEF TaskInv, TakenHandlesOK, TakenUncopied
<1> QED BY <1>1, <1>2, <1>3 DEF Loose, Carried

\* ... or of what a task has taken.
LEMMA TakenLoose ==
    ASSUME TaskInv, NEW t \in Tasks, NEW i \in DOMAIN taken[t], step[t] # "deleting",
           fate[taken[t][i].id] = "accepted"
    PROVE  Loose(task[t].from, i, taken[t][i].id)
<1> DEFINE q == task[t].from
<1>1. Row(q, i, taken[t][i].id) /\ box[q][i].count = taken[t][i].count
  BY TakenRow
<1>2. ASSUME NEW d \in Consumers, q = "source", pc[d] = "moving", First(d, i)
      PROVE  FALSE
  <2>1. i \in DOMAIN got[d]
    BY <1>2 DEF First
  <2>2. got[d][i].id = taken[t][i].id
    BY <1>1, <1>2, <2>1, CopyRow DEF Row
  <2>3. got[d][i].count = taken[t][i].count
    BY <1>1, <1>2, <2>1, <2>2, CopyRow
  <2> QED BY <1>2, <2>1, <2>3 DEF TaskInv, TakenHandlesOK, TakenUncopied
<1>3. ASSUME NEW u \in Tasks, step[u] = "deleting", task[u].from = q, i \in DOMAIN taken[u]
      PROVE  FALSE
  <2>1. taken[u][i].id = taken[t][i].id
    BY <1>1, <1>3, TakenRow DEF Row
  <2>2. taken[u][i].count = taken[t][i].count
    BY <1>1, <1>3, <2>1, TakenRow
  <2>3. t = u
    BY <1>3, <2>2 DEF TaskInv, TakenHandlesOK, TakenApart
  <2> QED BY <1>3, <2>3
<1> QED BY <1>1, <1>2, <1>3 DEF Loose, Carried

\* The steps that send nothing: what is left of each message is what there was.
LEMMA OnceKeep ==
    ASSUME OnceOK, \A id \in MessageIds : fate'[id] = "accepted" =>
              /\ fate[id] = "accepted"
              /\ \A q \in Queues, i \in Nat : Loose(q, i, id)' <=> Loose(q, i, id)
    PROVE  OnceOK'
<1> SUFFICES ASSUME NEW id \in MessageIds, fate'[id] = "accepted"
             PROVE  \E q \in Queues, i \in Nat : OnlyLoose(q, i, id)'
  BY DEF OnceOK
<1>1. PICK q \in Queues, i \in Nat : OnlyLoose(q, i, id)
  BY DEF OnceOK
<1>2. Loose(q, i, id)' /\ \A p \in Queues, j \in Nat : Loose(p, j, id)' => p = q /\ j = i
  BY <1>1 DEF OnlyLoose
<1>3. OnlyLoose(q, i, id)'
  BY <1>2 DEF OnlyLoose
<1> QED BY <1>3

\* Sending a copy: original i of q becomes one to be deleted, and the copy, under
\* arrival number k of p, takes its place.
Swaps(q, i, p, k, o) ==
    /\ i \in DOMAIN box[q] => box[q][i].id = o
    /\ fate[o] = "accepted" => Loose(q, i, o)
    /\ \A x \in Queues, j \in Nat, id \in MessageIds : Loose(x, j, id)' <=>
          (Loose(x, j, id) /\ ~(x = q /\ j = i)) \/ (x = p /\ j = k /\ id = o)

LEMMA OnceSwap ==
    ASSUME OnceOK, fate' = fate, NEW q \in Queues, NEW i \in Nat, NEW p \in Queues, NEW k \in Nat,
           NEW o \in MessageIds, Swaps(q, i, p, k, o)
    PROVE  OnceOK'
<1> USE DEF Swaps
<1> SUFFICES ASSUME NEW id \in MessageIds, fate[id] = "accepted"
             PROVE  \E x \in Queues, j \in Nat : OnlyLoose(x, j, id)'
  BY DEF OnceOK
<1>1. PICK x \in Queues, j \in Nat : OnlyLoose(x, j, id)
  BY DEF OnceOK
<1>2. CASE id = o
  <2>1. x = q /\ j = i
    BY <1>1, <1>2 DEF OnlyLoose
  <2>2. Loose(p, k, o)' /\ \A y \in Queues, l \in Nat : Loose(y, l, o)' => y = p /\ l = k
    BY <1>1, <1>2, <2>1 DEF OnlyLoose
  <2>3. OnlyLoose(p, k, o)'
    BY <2>2 DEF OnlyLoose
  <2> QED BY <1>2, <2>3
<1>3. CASE id # o
  <2>1. ~Loose(q, i, id)
    BY <1>3 DEF Loose, Row
  <2>2. \A y \in Queues, l \in Nat : Loose(y, l, id)' <=> Loose(y, l, id)
    BY <1>3, <2>1
  <2>3. Loose(x, j, id)' /\ \A y \in Queues, l \in Nat : Loose(y, l, id)' => y = x /\ l = j
    BY <1>1, <2>2 DEF OnlyLoose
  <2>4. OnlyLoose(x, j, id)'
    BY <2>3 DEF OnlyLoose
  <2> QED BY <2>4
<1> QED BY <1>2, <1>3

\* What store.Send does to the rows if it does not swallow the message.
LEMMA SendExactRows ==
    ASSUME SqsInv, NEW q \in Queues, NEW m \in Message, StoreSend(q, m),
           ~Duplicate(dedup[q], m, GroupScope, now)
    PROVE  \A x \in Queues, j \in Nat, id \in MessageIds :
              Row(x, j, id)' <=> Row(x, j, id) \/ (x = q /\ j = next /\ id = m.id)
<1>1. DOMAIN box = Queues /\ next \in Nat /\ next \notin DOMAIN box[q]
  BY BoxTypes
<1> DEFINE r == AfterSend(box[q], next, m, now)
<1>2. box' = [box EXCEPT ![q] = r]
  BY DEF StoreSend
<1>3. /\ DOMAIN r = DOMAIN box[q] \cup {next} /\ r[next].id = m.id
      /\ \A j \in DOMAIN box[q] : r[j] = box[q][j]
  BY <1>1 DEF AfterSend, Message
<1> HIDE DEF r
<1>4. box'[q] = r /\ \A x \in Queues : x # q => box'[x] = box[x]
  BY <1>1, <1>2
<1> TAKE x \in Queues, j \in Nat, id \in MessageIds
<1>5. CASE x = q
  BY <1>1, <1>3, <1>4, <1>5 DEF Row
<1>6. CASE x # q
  BY <1>4, <1>6 DEF Row
<1> QED BY <1>5, <1>6

\* A step in which nobody sends or deletes the original of a redrive or a move.
LEMMA CarriedSame ==
    ASSUME UNCHANGED <<task, step, taken>>,
           \A c \in Consumers : pc'[c] = "moving" \/ pc[c] = "moving"
                                => pc'[c] = pc[c] /\ got'[c] = got[c],
           NEW q, NEW i
    PROVE  Carried(q, i)' <=> Carried(q, i)
<1>1. ASSUME NEW c \in Consumers
      PROVE  (pc'[c] = "moving" /\ First(c, i)') <=> (pc[c] = "moving" /\ First(c, i))
  BY DEF First
<1> QED BY <1>1 DEF Carried

\* A new message is the only one of its id.
LEMMA OnceAccept ==
    ASSUME TaskInv, OnceOK, UNCHANGED <<task, step, taken>>, NEW id \in MessageIds,
           NEW g \in Groups \cup {NoGroup}, NEW k \in DedupIds \cup {NoDedup}, NEW delay \in Nat,
           Accept(id, g, k, delay)
    PROVE  OnceOK'
<1> DEFINE m == NewMessage(id, g, k, delay)
<1>1. SqsInv /\ next \in Nat /\ now \in Nat /\ DOMAIN fate = MessageIds /\ BoxKnown
  BY BoxTypes DEF TaskInv, LeaseInv
<1>2. m \in Message /\ m.id = id
  BY <1>1 DEF NewMessage, Message
<1>3. /\ StoreSend("source", m) /\ "source" \in Queues /\ fate[id] = "new" /\ UNCHANGED <<pc, got>>
      /\ fate' = [fate EXCEPT ![id] = IF next' = next THEN "duplicate" ELSE "accepted"]
  BY DEF Accept, pollVars, Queues
<1> HIDE DEF m
<1> PICK n : n = next
  OBVIOUS
<1>4. \A o \in MessageIds : o # id => fate'[o] = fate[o]
  BY <1>1, <1>3
<1>5. \A q \in Queues, i \in Nat : Carried(q, i)' <=> Carried(q, i)
  BY <1>3, CarriedSame
<1>6. CASE Duplicate(dedup["source"], m, GroupScope, now)
  <2>1. UNCHANGED <<box, next>>
    BY <1>3, <1>6 DEF StoreSend
  <2>2. fate'[id] = "duplicate"
    BY <1>1, <1>3, <2>1
  <2>3. \A o \in MessageIds, q \in Queues, i \in Nat : Loose(q, i, o)' <=> Loose(q, i, o)
    BY <1>5, <2>1 DEF Loose, Row
  <2> QED BY <1>4, <2>2, <2>3, OnceKeep
<1>7. CASE ~Duplicate(dedup["source"], m, GroupScope, now)
  <2>1. \A x \in Queues, j \in Nat, o \in MessageIds :
           Row(x, j, o)' <=> Row(x, j, o) \/ (x = "source" /\ j = n /\ o = id)
    BY <1>1, <1>2, <1>3, <1>7, SendExactRows
  <2>2. \A x \in Queues, j \in Nat : ~Row(x, j, id)
    BY <1>1, <1>3 DEF BoxKnown, Row
  <2>3. ~Carried("source", n)
    BY <1>1, CarriedOld
  <2>4. Loose("source", n, id)'
        /\ \A x \in Queues, j \in Nat : Loose(x, j, id)' => x = "source" /\ j = n
    BY <1>1, <1>3, <1>5, <2>1, <2>2, <2>3 DEF Loose
  <2>5. OnlyLoose("source", n, id)'
    BY <2>4 DEF OnlyLoose
  <2>6. ASSUME NEW o \in MessageIds, o # id, fate'[o] = "accepted"
        PROVE  \E q \in Queues, i \in Nat : OnlyLoose(q, i, o)'
    <3>1. PICK q \in Queues, i \in Nat : OnlyLoose(q, i, o)
      BY <1>4, <2>6 DEF OnceOK
    <3>2. \A x \in Queues, j \in Nat : Loose(x, j, o)' <=> Loose(x, j, o)
      BY <1>5, <2>1, <2>6 DEF Loose
    <3>3. Loose(q, i, o)' /\ \A p \in Queues, j \in Nat : Loose(p, j, o)' => p = q /\ j = i
      BY <3>1, <3>2 DEF OnlyLoose
    <3>4. OnlyLoose(q, i, o)'
      BY <3>3 DEF OnlyLoose
    <3> QED BY <3>4
  <2> QED BY <1>1, <1>3, <2>5, <2>6 DEF OnceOK
<1> QED BY <1>6, <1>7

\* checkDLQ sends what nobody else has sent.
LEMMA OnceDlqSend ==
    ASSUME TaskInv, OnceOK, DlqUndeduped, UNCHANGED <<task, step, taken>>,
           NEW c \in Consumers, NEW i \in DOMAIN got[c], DlqSend(c, i)
    PROVE  OnceOK'
<1> DEFINE m == DeadLetter(got[c][i])
<1> PICK id, k : id = got[c][i].id /\ k = next
  OBVIOUS
<1>1. SqsInv /\ next \in Nat /\ DOMAIN pc = Consumers /\ i \in Nat /\ id \in MessageIds
  BY BoxTypes, ClaimTypes DEF TaskInv, LeaseInv, SqsInv, SqsTypeOK, PollTypeOK
<1>2. m \in Message /\ m.id = id
  <2>1. got[c][i] \in Message
    BY <1>1, CopyFacts
  <2>2. m \in Message
    BY <2>1, DeadLetterMessage
  <2>3. DeadLetter(got[c][i]).id = got[c][i].id
    BY <2>1 DEF DeadLetter, Message
  <2> QED BY <2>2, <2>3
<1>3. /\ StoreSend("dlq", m) /\ {"source", "dlq"} = Queues /\ First(c, i) /\ UNCHANGED <<got, fate>>
      /\ pc[c] = "handling" /\ pc' = [pc EXCEPT ![c] = "moving"]
  BY DEF DlqSend, Queues
<1>4. \A j : First(c, j) <=> j = i
  <2>1. \A j \in DOMAIN got[c] : j \in Nat
    BY <1>1, ClaimTypes
  <2> QED BY <1>3, <2>1 DEF First
<1>5. \A x \in Queues, j \in Nat :
         Carried(x, j)' <=> Carried(x, j) \/ (x = "source" /\ j = i)
  <2> TAKE x \in Queues, j \in Nat
  <2>1. \A d \in Consumers : First(d, j)' <=> First(d, j)
    BY <1>3 DEF First
  <2>2. (\E d \in Consumers : pc'[d] = "moving" /\ First(d, j)')
        <=> (\E d \in Consumers : pc[d] = "moving" /\ First(d, j)) \/ j = i
    BY <1>1, <1>3, <1>4, <2>1
  <2> QED BY <2>2 DEF Carried
<1>6. ~Carried("dlq", k) /\ i < k
  <2>1. i < next
    BY DEF TaskInv, LeaseInv, ClaimsOK, CopyOK
  <2> QED BY <1>1, <2>1, CarriedOld
<1> HIDE DEF m
<1>7. \A x \in Queues, j \in Nat, o \in MessageIds :
         Row(x, j, o)' <=> Row(x, j, o) \/ (x = "dlq" /\ j = k /\ o = id)
  BY <1>1, <1>2, <1>3, UndedupedSend, SendExactRows
<1>8. i \in DOMAIN box["source"] => box["source"][i].id = id
  BY CopyRow
<1>9. fate[id] = "accepted" => Loose("source", i, id)
  BY <1>3, CopyLoose
<1>10. \A x \in Queues, j \in Nat, o \in MessageIds : Loose(x, j, o)' <=>
          (Loose(x, j, o) /\ ~(x = "source" /\ j = i)) \/ (x = "dlq" /\ j = k /\ o = id)
  BY <1>1, <1>5, <1>6, <1>7 DEF Loose
<1>11. Swaps("source", i, "dlq", k, id)
  BY <1>8, <1>9, <1>10 DEF Swaps
<1>12. k \in Nat /\ "source" \in Queues /\ "dlq" \in Queues
  BY <1>1, <1>3
<1> QED BY <1>1, <1>3, <1>11, <1>12, OnceSwap

\* runMoveTask does so, too.
LEMMA OnceMoveSend ==
    ASSUME TaskInv, OnceOK, NEW t \in Tasks, NEW i \in DOMAIN taken[t], MoveSend(t, i)
    PROVE  OnceOK'
<1> DEFINE m == Moved(taken[t][i])
<1> PICK id, q, p, k : id = taken[t][i].id /\ q = task[t].from /\ p = task[t].to /\ k = next
  OBVIOUS
<1>1. /\ SqsInv /\ next \in Nat /\ DOMAIN step = Tasks /\ i \in Nat /\ id \in MessageIds
      /\ q \in Queues
  BY BoxTypes, TakenTypes DEF TaskInv, LeaseInv, MoveInv, MoveTypeOK
<1>2. /\ StoreSend(p, m) /\ p \in Queues /\ m \in Message /\ m.id = id /\ m.dedup = NoDedup
      /\ UNCHANGED <<pc, got, fate, task, taken>>
      /\ step[t] = "sending" /\ step' = [step EXCEPT ![t] = "deleting"]
  BY MoveSendFacts
<1>3. \A j \in DOMAIN taken[t] : j = i
  BY DEF TaskInv, TasksOK
<1>4. \A x \in Queues, j \in Nat : Carried(x, j)' <=> Carried(x, j) \/ (x = q /\ j = i)
  <2> TAKE x \in Queues, j \in Nat
  <2>1. \A d \in Consumers : First(d, j)' <=> First(d, j)
    BY <1>2 DEF First
  <2>2. (\E u \in Tasks : step'[u] = "deleting" /\ task'[u].from = x /\ j \in DOMAIN taken'[u])
        <=> (\E u \in Tasks : step[u] = "deleting" /\ task[u].from = x /\ j \in DOMAIN taken[u])
            \/ (x = q /\ j = i)
    BY <1>1, <1>2, <1>3
  <2> QED BY <1>2, <2>1, <2>2 DEF Carried
<1>5. ~Carried(p, k) /\ i < k
  <2>1. i < next
    BY DEF TaskInv, TasksOK, TakenOK
  <2> QED BY <1>1, <2>1, CarriedOld
<1>6. ~Duplicate(dedup[p], m, GroupScope, now)
  BY <1>2 DEF Duplicate
<1> HIDE DEF m
<1>7. \A x \in Queues, j \in Nat, o \in MessageIds :
         Row(x, j, o)' <=> Row(x, j, o) \/ (x = p /\ j = k /\ o = id)
  BY <1>1, <1>2, <1>6, SendExactRows
<1>8. i \in DOMAIN box[q] => box[q][i].id = id
  BY TakenRow
<1>9. fate[id] = "accepted" => Loose(q, i, id)
  BY <1>2, TakenLoose
<1>10. \A x \in Queues, j \in Nat, o \in MessageIds : Loose(x, j, o)' <=>
          (Loose(x, j, o) /\ ~(x = q /\ j = i)) \/ (x = p /\ j = k /\ o = id)
  BY <1>1, <1>4, <1>5, <1>7 DEF Loose
<1>11. Swaps(q, i, p, k, id)
  BY <1>8, <1>9, <1>10 DEF Swaps
<1>12. k \in Nat
  BY <1>1
<1> QED BY <1>1, <1>2, <1>11, <1>12, OnceSwap

\* Deleting the original i of q, one of those to be deleted, by its handle h.
Drops(q, i, h) ==
    /\ h[1] = i
    /\ box' = [box EXCEPT ![q] = AfterDelete(box[q], h)]
    /\ i \in DOMAIN box[q] /\ fate[box[q][i].id] = "accepted" => Current(box[q], h)
    /\ Carried(q, i)
    /\ \A x \in Queues, j \in Nat : ~(x = q /\ j = i) => (Carried(x, j)' <=> Carried(x, j))

LEMMA OnceDelete ==
    ASSUME OnceOK, fate' = fate, DOMAIN box = Queues, NEW q \in Queues, NEW i, NEW h, Drops(q, i, h)
    PROVE  OnceOK'
<1> USE DEF Drops
<1>1. box'[q] = AfterDelete(box[q], h) /\ \A x \in Queues : x # q => box'[x] = box[x]
  OBVIOUS
<1>2. ASSUME NEW id \in MessageIds, fate[id] = "accepted", NEW x \in Queues, NEW j \in Nat
      PROVE  Loose(x, j, id)' <=> Loose(x, j, id)
  <2>1. CASE x = q /\ j = h[1]
    <3>1. ~Loose(x, j, id)
      BY <2>1 DEF Loose
    <3>2. ~Row(x, j, id)'
      <4>1. CASE Current(box[q], h)
        BY <1>1, <2>1, <4>1 DEF Row, AfterDelete, Without
      <4>2. CASE ~Current(box[q], h)
        BY <1>1, <1>2, <2>1, <4>2 DEF Row, AfterDelete
      <4> QED BY <4>1, <4>2
    <3> QED BY <3>1, <3>2 DEF Loose
  <2>2. CASE ~(x = q /\ j = h[1])
    <3>1. Row(x, j, id)' <=> Row(x, j, id)
      BY <1>1, <2>2 DEF Row, AfterDelete, Without
    <3> QED BY <2>2, <3>1 DEF Loose
  <2> QED BY <2>1, <2>2
<1> QED BY <1>2, OnceKeep

\* A step that neither sends nor deletes an original, and takes out only messages
\* whose fate it settles.
LEMMA OnceRows ==
    ASSUME OnceOK, UNCHANGED <<task, step, taken>>,
           \A c \in Consumers : pc'[c] = "moving" \/ pc[c] = "moving"
                                => pc'[c] = pc[c] /\ got'[c] = got[c],
           \A id \in MessageIds : fate'[id] = "accepted" =>
              /\ fate[id] = "accepted"
              /\ \A q \in Queues, i \in Nat : Row(q, i, id)' <=> Row(q, i, id)
    PROVE  OnceOK'
<1>1. \A q \in Queues, i \in Nat : Carried(q, i)' <=> Carried(q, i)
  BY CarriedSame
<1>2. \A id \in MessageIds : fate'[id] = "accepted" =>
         /\ fate[id] = "accepted"
         /\ \A q \in Queues, i \in Nat : Loose(q, i, id)' <=> Loose(q, i, id)
  BY <1>1 DEF Loose
<1> QED BY <1>2, OnceKeep

\* Rows of a queue whose messages keep their ids.
LEMMA SameRows ==
    ASSUME \A x \in Queues : /\ DOMAIN box'[x] = DOMAIN box[x]
                             /\ \A i \in DOMAIN box[x] : box'[x][i].id = box[x][i].id
    PROVE  \A x \in Queues, i \in Nat, id \in MessageIds : Row(x, i, id)' <=> Row(x, i, id)
BY DEF Row

\* Receive and ChangeVisibility take nothing out.
LEMMA OnceHidden ==
    ASSUME TaskInv, OnceOK, UNCHANGED <<task, step, taken>>, NEW c \in Consumers,
           \/ ReceiveSome(c)
           \/ \E i \in DOMAIN got[c] : Hide(c, i)
           \/ \E l \in inbox[c], t \in Timeouts : ChangeMessageVisibility(c, l, t)
    PROVE  OnceOK'
<1>1. /\ LeaseInv /\ SqsInv /\ DOMAIN box = Queues /\ IsQueue(box["source"]) /\ "source" \in Queues
      /\ DOMAIN got = Consumers /\ DOMAIN pc = Consumers
  BY BoxTypes DEF TaskInv, LeaseInv, SqsInv, SqsTypeOK, PollTypeOK, Queues
<1>2. CASE ReceiveSome(c)
  <2> DEFINE r == AfterReceive(box["source"], MaxMessages, ReceiveTime(c))
  <2>1. /\ box' = [box EXCEPT !["source"] = r] /\ fate' = fate /\ pc[c] = "polling"
        /\ pc' = [pc EXCEPT ![c] = "handling"] /\ \A d \in Consumers : d # c => got'[d] = got[d]
    BY <1>1, <1>2 DEF ReceiveSome
  <2>2. DOMAIN r = DOMAIN box["source"] /\ \A i \in DOMAIN box["source"] : r[i].id = box["source"][i].id
    <3>1. DOMAIN r = DOMAIN box["source"]
      BY DEF AfterReceive
    <3> QED BY <1>1, <3>1, ReceiveTimePast, ReceiveRows
  <2> HIDE DEF r
  <2>3. \A x \in Queues, i \in Nat, id \in MessageIds : Row(x, i, id)' <=> Row(x, i, id)
    <3>1. box'["source"] = r /\ \A x \in Queues : x # "source" => box'[x] = box[x]
      BY <1>1, <2>1
    <3>2. \A x \in Queues : /\ DOMAIN box'[x] = DOMAIN box[x]
                            /\ \A i \in DOMAIN box[x] : box'[x][i].id = box[x][i].id
      BY <2>2, <3>1
    <3> QED BY <3>2, SameRows
  <2>4. \A d \in Consumers : pc'[d] = "moving" \/ pc[d] = "moving" => pc'[d] = pc[d] /\ got'[d] = got[d]
    BY <1>1, <2>1
  <2> QED BY <2>1, <2>3, <2>4, OnceRows
<1>3. ASSUME NEW h, NEW timeout, NEW at,
             box' = [box EXCEPT !["source"] = AfterChangeVisibility(box["source"], h, timeout, at)]
      PROVE  \A x \in Queues, i \in Nat, id \in MessageIds : Row(x, i, id)' <=> Row(x, i, id)
  <2> DEFINE r == AfterChangeVisibility(box["source"], h, timeout, at)
  <2>1. DOMAIN r = DOMAIN box["source"]
    BY DEF AfterChangeVisibility
  <2>2. \A i \in DOMAIN box["source"] : r[i].id = box["source"][i].id
    BY <1>1, ChangeRows
  <2>3. box' = [box EXCEPT !["source"] = r]
    BY <1>3
  <2> HIDE DEF r
  <2>4. box'["source"] = r /\ \A x \in Queues : x # "source" => box'[x] = box[x]
    BY <1>1, <2>3
  <2>5. \A x \in Queues : /\ DOMAIN box'[x] = DOMAIN box[x]
                          /\ \A i \in DOMAIN box[x] : box'[x][i].id = box[x][i].id
    BY <2>1, <2>2, <2>4
  <2> QED BY <2>5, SameRows
<1>4. ASSUME NEW i \in DOMAIN got[c], Hide(c, i)
      PROVE  OnceOK'
  <2>1. /\ box' = [box EXCEPT !["source"] = AfterChangeVisibility(box["source"], Handle(got[c], i),
                                                                  VisTimeout, asked[c])]
        /\ UNCHANGED <<fate, pc>> /\ pc[c] = "handling"
        /\ \A d \in Consumers : d # c => got'[d] = got[d]
    BY <1>1, <1>4 DEF Hide, Handled
  <2>2. \A x \in Queues, j \in Nat, id \in MessageIds : Row(x, j, id)' <=> Row(x, j, id)
    BY <1>3, <2>1
  <2> QED BY <2>1, <2>2, OnceRows
<1>5. ASSUME NEW l \in inbox[c], NEW t \in Timeouts, ChangeMessageVisibility(c, l, t)
      PROVE  OnceOK'
  <2>1. /\ box' = [box EXCEPT !["source"] = AfterChangeVisibility(box["source"], l.handle, t, now)]
        /\ UNCHANGED <<fate, pc, got>>
    BY <1>5 DEF ChangeMessageVisibility, pollVars
  <2>2. \A x \in Queues, j \in Nat, id \in MessageIds : Row(x, j, id)' <=> Row(x, j, id)
    BY <1>3, <2>1
  <2> QED BY <2>1, <2>2, OnceRows
<1> QED BY <1>2, <1>4, <1>5

\* DeleteMessage settles the fate of what it takes out, and so do Purge and the sweep.
LEMMA OnceSettled ==
    ASSUME TaskInv, OnceOK, UNCHANGED <<task, step, taken>>,
           \/ \E c \in Consumers : \E l \in inbox[c] : DeleteMessage(c, l)
           \/ \E q \in Queues : PurgeQueue(q) \/ RemoveExpired(q)
    PROVE  OnceOK'
<1>1. /\ LeaseInv /\ SqsInv /\ DOMAIN box = Queues /\ "source" \in Queues /\ DOMAIN fate = MessageIds
  BY BoxTypes DEF TaskInv, LeaseInv, Queues
<1>2. UNCHANGED <<pc, got>>
  BY DEF DeleteMessage, PurgeQueue, RemoveExpired, pollVars
<1>3. ASSUME NEW c \in Consumers, NEW l \in inbox[c], DeleteMessage(c, l),
             NEW id \in MessageIds, fate'[id] = "accepted"
      PROVE  /\ fate[id] = "accepted"
             /\ \A x \in Queues, j \in Nat : Row(x, j, id)' <=> Row(x, j, id)
  <2>1. /\ box' = [box EXCEPT !["source"] = AfterDelete(box["source"], l.handle)]
        /\ fate' = IF Current(box["source"], l.handle) THEN [fate EXCEPT ![l.id] = "done"] ELSE fate
    BY <1>3 DEF DeleteMessage
  <2>2. CASE ~Current(box["source"], l.handle)
    <3>1. fate' = fate /\ \A x \in Queues : box'[x] = box[x]
      BY <1>1, <2>1, <2>2 DEF AfterDelete
    <3> QED BY <1>3, <3>1 DEF Row
  <2>3. CASE Current(box["source"], l.handle)
    <3>1. fate[id] = "accepted" /\ id # l.id
      BY <1>1, <1>3, <2>1, <2>3
    <3>2. l.handle[1] \in DOMAIN box["source"] /\ box["source"][l.handle[1]].id = l.id
      BY <1>1, <1>3, <2>3 DEF Current, LeaseInv, ClaimsOK, LeaseOK, ClaimOK, Source
    <3>3. box'["source"] = Without(box["source"], {l.handle[1]})
          /\ \A x \in Queues : x # "source" => box'[x] = box[x]
      BY <1>1, <2>1, <2>3 DEF AfterDelete
    <3> QED BY <3>1, <3>2, <3>3 DEF Row, Without
  <2> QED BY <2>2, <2>3
<1>4. ASSUME NEW q \in Queues, PurgeQueue(q) \/ RemoveExpired(q),
             NEW id \in MessageIds, fate'[id] = "accepted"
      PROVE  /\ fate[id] = "accepted"
             /\ \A x \in Queues, j \in Nat : Row(x, j, id)' <=> Row(x, j, id)
  <2>1. PICK gone \in SUBSET DOMAIN box[q] :
           box' = [box EXCEPT ![q] = Without(box[q], gone)] /\ fate' = Ended(q, gone)
    BY <1>1, <1>4, EndIsWithout
  <2>2. fate'[id] = IF \E j \in gone : box[q][j].id = id THEN "done" ELSE fate[id]
    BY <2>1 DEF Ended
  <2>3. fate[id] = "accepted" /\ \A j \in gone : box[q][j].id # id
    BY <1>4, <2>2
  <2>4. box'[q] = Without(box[q], gone) /\ \A x \in Queues : x # q => box'[x] = box[x]
    BY <1>1, <2>1
  <2> QED BY <2>3, <2>4 DEF Row, Without
<1>5. \A id \in MessageIds : fate'[id] = "accepted" =>
         fate[id] = "accepted" /\ \A x \in Queues, j \in Nat : Row(x, j, id)' <=> Row(x, j, id)
  BY <1>3, <1>4
<1> QED BY <1>2, <1>5, OnceRows

\* checkDLQ deletes the original it took.
LEMMA OnceDlqDelete ==
    ASSUME TaskInv, OnceOK, UNCHANGED <<task, step, taken>>, NEW c \in Consumers,
           NEW i \in DOMAIN got[c], DlqDelete(c, i)
    PROVE  OnceOK'
<1>1. /\ SqsInv /\ DOMAIN box = Queues /\ "source" \in Queues
      /\ DOMAIN got = Consumers /\ DOMAIN pc = Consumers
  BY BoxTypes DEF TaskInv, LeaseInv, SqsInv, SqsTypeOK, PollTypeOK, Queues
<1> PICK h : h = Handle(got[c], i)
  OBVIOUS
<1>2. h[1] = i /\ h = <<i, got[c][i].count>>
  BY DEF Handle
<1>3. /\ box' = [box EXCEPT !["source"] = AfterDelete(box["source"], h)] /\ fate' = fate
      /\ pc[c] = "moving" /\ First(c, i) /\ pc' = [pc EXCEPT ![c] = "handling"]
      /\ \A d \in Consumers : d # c => got'[d] = got[d]
  BY <1>1 DEF DlqDelete, Handled
<1>4. Carried("source", i)
  BY <1>3 DEF Carried
<1>5. ASSUME i \in DOMAIN box["source"], fate[box["source"][i].id] = "accepted"
      PROVE  Current(box["source"], h)
  <2>1. box["source"][i].count = got[c][i].count
    BY <1>5, CopyRow
  <2> QED BY <1>2, <1>5, <2>1 DEF Current, Handle
<1>6. ASSUME NEW x \in Queues, NEW j \in Nat, ~(x = "source" /\ j = i)
      PROVE  Carried(x, j)' <=> Carried(x, j)
  <2>1. First(c, j) => j = i
    <3>1. \A o \in DOMAIN got[c] : o \in Nat
      BY <1>1, ClaimTypes
    <3> QED BY <1>3, <3>1 DEF First
  <2>2. ASSUME NEW d \in Consumers, x = "source"
        PROVE  (pc'[d] = "moving" /\ First(d, j)') <=> (pc[d] = "moving" /\ First(d, j))
    <3>1. CASE d = c
      BY <1>1, <1>3, <1>6, <2>1, <2>2, <3>1
    <3>2. CASE d # c
      BY <1>1, <1>3, <3>2 DEF First
    <3> QED BY <3>1, <3>2
  <2> QED BY <2>2 DEF Carried
<1>7. Drops("source", i, h)
  BY <1>2, <1>3, <1>4, <1>5, <1>6 DEF Drops
<1> QED BY <1>1, <1>3, <1>7, OnceDelete

\* runMoveTask deletes the original it took.
LEMMA OnceMoveDelete ==
    ASSUME TaskInv, OnceOK, NEW t \in Tasks, NEW i \in DOMAIN taken[t], MoveDelete(t, i)
    PROVE  OnceOK'
<1> PICK h, q : h = Handle(taken[t], i) /\ q = task[t].from
  OBVIOUS
<1>1. DOMAIN box = Queues /\ q \in Queues
  BY BoxTypes, TakenTypes DEF TaskInv, MoveInv
<1>2. h[1] = i /\ h = <<i, taken[t][i].count>>
  BY DEF Handle
<1>3. /\ box' = [box EXCEPT ![q] = AfterDelete(box[q], h)] /\ UNCHANGED <<fate, pc, got>>
      /\ step[t] = "deleting" /\ step'[t] = "waiting"
      /\ \A u \in Tasks : u # t => taken'[u] = taken[u] /\ step'[u] = step[u]
      /\ \A u \in Tasks : task'[u].from = task[u].from
  BY MoveDeleteFacts DEF From
<1>4. Carried(q, i)
  BY <1>3 DEF Carried
<1>5. ASSUME i \in DOMAIN box[q], fate[box[q][i].id] = "accepted"
      PROVE  Current(box[q], h)
  <2>1. box[q][i].count = taken[t][i].count
    BY <1>5, TakenRow
  <2> QED BY <1>2, <1>5, <2>1 DEF Current, Handle
<1>6. ASSUME NEW x \in Queues, NEW j \in Nat, ~(x = q /\ j = i)
      PROVE  Carried(x, j)' <=> Carried(x, j)
  <2>1. j \in DOMAIN taken[t] => j = i
    BY DEF TaskInv, TasksOK
  <2>2. ASSUME NEW u \in Tasks
        PROVE  (step'[u] = "deleting" /\ task'[u].from = x /\ j \in DOMAIN taken'[u])
               <=> (step[u] = "deleting" /\ task[u].from = x /\ j \in DOMAIN taken[u])
    <3>1. CASE u = t
      BY <1>3, <1>6, <2>1, <3>1
    <3>2. CASE u # t
      BY <1>3, <3>2
    <3> QED BY <3>1, <3>2
  <2>3. \A d \in Consumers : (pc'[d] = "moving" /\ First(d, j)') <=> (pc[d] = "moving" /\ First(d, j))
    BY <1>3 DEF First
  <2> QED BY <2>2, <2>3 DEF Carried
<1>7. Drops(q, i, h)
  BY <1>2, <1>3, <1>4, <1>5, <1>6 DEF Drops
<1> QED BY <1>1, <1>3, <1>7, OnceDelete

\* The other steps of a task change no row and start or end no carrying.
LEMMA OnceTurn ==
    ASSUME TaskInv, OnceOK, NEW t \in Tasks,
           \/ \E from \in MoveFrom, dest \in MoveTo : StartMessageMoveTask(t, from, dest)
           \/ CancelMessageMoveTask(t) \/ MoveCompletes(t) \/ MoveCancelled(t) \/ MoveReceive(t)
    PROVE  OnceOK'
<1>0. /\ DOMAIN task = Tasks /\ DOMAIN step = Tasks
      /\ task \in [Tasks -> [status : {"none", "RUNNING", "CANCELLING", "CANCELLED", "COMPLETED"},
                             from : Queues, to : Queues, moved : Nat]]
  BY DEF TaskInv, MoveInv, MoveTypeOK
<1>1. /\ UNCHANGED <<fate, pc, got>>
      /\ \A x \in Queues, j \in Nat, id \in MessageIds : Row(x, j, id)' <=> Row(x, j, id)
  <2>1. CASE MoveReceive(t)
    BY <2>1, MoveReceiveFacts DEF Row
  <2>2. CASE ~MoveReceive(t)
    <3>1. UNCHANGED <<box, fate, pc, got>>
      BY <2>2 DEF StartMessageMoveTask, CancelMessageMoveTask, MoveCompletes, MoveCancelled, vars,
         pollVars
    <3> QED BY <3>1 DEF Row
  <2> QED BY <2>1, <2>2
<1>2. ASSUME NEW u \in Tasks
      PROVE  \/ step'[u] # "deleting" /\ step[u] # "deleting"
             \/ step'[u] = step[u] /\ task'[u].from = task[u].from /\ taken'[u] = taken[u]
  <2>1. CASE MoveReceive(t)
    BY <2>1, MoveReceiveFacts
  <2>2. ASSUME NEW from \in MoveFrom, NEW dest \in MoveTo, StartMessageMoveTask(t, from, dest)
        PROVE  \/ step'[u] # "deleting" /\ step[u] # "deleting"
               \/ step'[u] = step[u] /\ task'[u].from = task[u].from /\ taken'[u] = taken[u]
    <3>1. CASE u = t
      BY <1>0, <2>2, <3>1 DEF StartMessageMoveTask, TaskInv, TasksOK
    <3>2. CASE u # t
      BY <1>0, <2>2, <3>2 DEF StartMessageMoveTask
    <3> QED BY <3>1, <3>2
  <2>3. CASE CancelMessageMoveTask(t)
    BY <1>0, <2>3 DEF CancelMessageMoveTask
  <2>4. CASE MoveCompletes(t)
    BY <1>0, <2>4 DEF MoveCompletes
  <2>5. CASE MoveCancelled(t)
    BY <1>0, <2>5 DEF MoveCancelled
  <2> QED BY <2>1, <2>2, <2>3, <2>4, <2>5
<1>3. ASSUME NEW x \in Queues, NEW j \in Nat
      PROVE  Carried(x, j)' <=> Carried(x, j)
  <2>1. \A d \in Consumers : (pc'[d] = "moving" /\ First(d, j)') <=> (pc[d] = "moving" /\ First(d, j))
    BY <1>1 DEF First
  <2> QED BY <1>2, <2>1 DEF Carried
<1>4. \A id \in MessageIds, x \in Queues, j \in Nat : Loose(x, j, id)' <=> Loose(x, j, id)
  BY <1>1, <1>3 DEF Loose
<1> QED BY <1>1, <1>4, OnceKeep

\* A move keeps no deduplication id, so no task makes the dead-letter queue drop one.
LEMMA UndedupedMoveStep ==
    ASSUME TaskInv, [MoveNext]_allVars, DlqUndeduped'
    PROVE  DlqUndeduped
<1>1. SqsInv /\ dedup \in [Queues -> [DedupKeys -> Nat]]
  BY BoxTypes DEF TaskInv, LeaseInv, SqsInv, SqsTypeOK
<1>2. CASE QueueStep \/ UNCHANGED allVars
  <2>1. [SqsNext]_vars
    BY <1>2 DEF QueueStep, allVars
  <2> QED BY <1>1, <2>1, UndedupedStep
<1>3. CASE UNCHANGED dedup
  BY <1>3 DEF DlqUndeduped
<1>4. ASSUME NEW t \in Tasks, NEW i \in DOMAIN taken[t], MoveSend(t, i)
      PROVE  UNCHANGED dedup
  <2> PICK p, m : p = task[t].to /\ m = Moved(taken[t][i])
    OBVIOUS
  <2>1. StoreSend(p, m) /\ p \in Queues /\ m.dedup = NoDedup
    BY <1>4, MoveSendFacts
  <2>2. AfterDedup(dedup[p], m, GroupScope, now) = dedup[p]
    BY <2>1 DEF AfterDedup
  <2> QED BY <1>1, <2>1, <2>2 DEF StoreSend
<1>5. \/ QueueStep \/ UNCHANGED allVars \/ UNCHANGED dedup
      \/ \E t \in Tasks : \E i \in DOMAIN taken[t] : MoveSend(t, i)
  BY DEF MoveNext, StartMessageMoveTask, CancelMessageMoveTask, Move, MoveReceive, MoveCompletes,
     MoveCancelled, MoveDelete, vars
<1> QED BY <1>2, <1>3, <1>4, <1>5

\* The steps of the queue.
LEMMA OnceQueueStep ==
    ASSUME TaskInv, OnceOK, DlqUndeduped, [SqsNext]_vars, UNCHANGED <<task, step, taken>>
    PROVE  OnceOK'
<1>1. LeaseInv /\ DOMAIN pc = Consumers
  BY DEF TaskInv, LeaseInv, SqsInv, SqsTypeOK, PollTypeOK
<1>2. CASE Send
  <2>1. PICK id \in MessageIds, g \in Groups \cup {NoGroup}, k \in DedupIds \cup {NoDedup},
             delay \in Delays \cup BatchDelays \cup {QueueDelay} : Accept(id, g, k, delay)
    BY <1>2 DEF Send, SendMessage, SendMessageBatch
  <2>2. delay \in Nat
    BY SqsQueueAssumption
  <2> QED BY <2>1, <2>2, OnceAccept
<1>3. ASSUME UNCHANGED <<box, fate, got>>,
             \A d \in Consumers : pc'[d] = "moving" \/ pc[d] = "moving" => pc'[d] = pc[d]
      PROVE  OnceOK'
  <2>1. \A q \in Queues, i \in Nat, id \in MessageIds : Row(q, i, id)' <=> Row(q, i, id)
    BY <1>3 DEF Row
  <2> QED BY <1>3, <2>1, OnceRows
<1>4. ASSUME NEW c \in Consumers,
             \/ ReceiveNone(c) \/ Register(c) \/ WaitEnds(c) \/ HangUp(c) \/ Answer(c)
             \/ \E wait \in Waits : ReceiveBegin(c, wait)
      PROVE  OnceOK'
  <2>1. \A d \in Consumers : pc'[d] = "moving" \/ pc[d] = "moving" => pc'[d] = pc[d]
    BY <1>1, <1>4 DEF ReceiveNone, Register, WaitEnds, HangUp, Answer, ReceiveBegin, Return
  <2> QED BY <1>1, <1>3, <1>4, <2>1, PollTimes
<1>5. CASE Notify \/ Tick \/ UNCHANGED vars
  <2>1. UNCHANGED <<box, fate, got, pc>>
    BY <1>5 DEF Notify, Tick, vars, pollVars
  <2> QED BY <1>3, <2>1
<1>6. ASSUME NEW c \in Consumers, Receive(c) \/ Client(c)
      PROVE  OnceOK'
  BY <1>4, <1>6, OnceDlqSend, OnceDlqDelete, OnceHidden, OnceSettled DEF Receive, Client
<1>7. ASSUME NEW q \in Queues, PurgeQueue(q) \/ RemoveExpired(q)
      PROVE  OnceOK'
  BY <1>7, OnceSettled
<1> QED BY <1>2, <1>5, <1>6, <1>7 DEF SqsNext

LEMMA OnceStep ==
    ASSUME OnceInv, [MoveNext]_allVars
    PROVE  OnceInv'
<1>1. TaskInv /\ TaskInv'
  BY TaskInvStep DEF OnceInv
<1> SUFFICES ASSUME DlqUndeduped'
             PROVE  OnceOK'
  BY <1>1 DEF OnceInv
<1>2. DlqUndeduped /\ OnceOK
  BY <1>1, UndedupedMoveStep DEF OnceInv
<1>3. CASE QueueStep \/ UNCHANGED allVars
  <2>1. [SqsNext]_vars /\ UNCHANGED <<task, step, taken>>
    BY <1>3 DEF QueueStep, allVars, moveVars
  <2> QED BY <1>1, <1>2, <2>1, OnceQueueStep
<1>4. ASSUME NEW t \in Tasks,
             \/ \E from \in MoveFrom, dest \in MoveTo : StartMessageMoveTask(t, from, dest)
             \/ CancelMessageMoveTask(t) \/ Move(t)
      PROVE  OnceOK'
  BY <1>1, <1>2, <1>4, OnceTurn, OnceMoveSend, OnceMoveDelete DEF Move
<1> QED BY <1>3, <1>4 DEF MoveNext

LEMMA OnceInitInv == ASSUME MoveInit PROVE OnceInv
<1>1. \A id \in MessageIds : fate[id] = "new"
  BY DEF MoveInit, SqsInit
<1> QED BY <1>1, TaskInitInv DEF OnceInv, OnceOK

-----------------------------------------------------------------------------
(* Counting *)

\* Two sets of which each member of one stands for one of the other.
LEMMA SameCount ==
    ASSUME NEW S, IsFiniteSet(S), NEW T, NEW f \in [T -> S],
           \A s \in S : \E t \in T : f[t] = s,
           \A t, u \in T : f[t] = f[u] => t = u
    PROVE  IsFiniteSet(T) /\ Cardinality(T) = Cardinality(S)
<1> DEFINE g == [s \in S |-> CHOOSE t \in T : f[t] = s]
<1>1. \A s \in S : g[s] \in T /\ f[g[s]] = s
  OBVIOUS
<1>2. g \in [S -> T]
  BY <1>1
<1> HIDE DEF g
<1>3. \A t \in T : \E s \in S : g[s] = t
  BY <1>1
<1>4. g \in Surjection(S, T)
  BY <1>2, <1>3 DEF Surjection
<1>5. IsFiniteSet(T) /\ Cardinality(T) <= Cardinality(S)
  BY <1>4, FS_Surjection
<1>6. f \in Surjection(T, S)
  BY DEF Surjection
<1>7. Cardinality(S) <= Cardinality(T)
  BY <1>5, <1>6, FS_Surjection
<1>8. Cardinality(S) \in Nat /\ Cardinality(T) \in Nat
  BY <1>5, FS_CardinalityType
<1> QED BY <1>5, <1>7, <1>8

\* The originals of a message that are about to be deleted, and the one a redrive
\* or a move has taken.
Originals(id) == {o \in Copies(id) : Carried(o[1], o[2])}
Original(x) == IF x \in Consumers THEN <<"source", CHOOSE i : First(x, i)>>
               ELSE <<task[x].from, CHOOSE i : i \in DOMAIN taken[x]>>

LEMMA CopiesRows ==
    ASSUME NEW id
    PROVE  \A o : o \in Copies(id) <=> \E q \in Queues : \E i \in DOMAIN box[q] :
                                           o = <<q, i>> /\ Row(q, i, id)
BY DEF Copies, Row

LEMMA CopiesFinite == ASSUME TaskInv, NEW id PROVE IsFiniteSet(Copies(id))
<1>1. next \in Nat /\ \A q \in Queues : \A i \in DOMAIN box[q] : i \in Nat /\ i < next
  BY DEF TaskInv, LeaseInv, SqsInv, SqsTypeOK, BoxTypeOK, IsQueue
<1>2. ASSUME NEW q \in Queues
      PROVE  IsFiniteSet({q} \X (0..next))
  <2> DEFINE f == [i \in 0..next |-> <<q, i>>]
  <2>1. f \in Surjection(0..next, {q} \X (0..next))
    BY DEF Surjection
  <2>2. IsFiniteSet(0..next)
    BY <1>1, FS_Interval
  <2> HIDE DEF f
  <2> QED BY <2>1, <2>2, FS_Surjection
<1> DEFINE all == ({"source"} \X (0..next)) \cup ({"dlq"} \X (0..next))
<1>3. IsFiniteSet(all)
  BY <1>2, FS_Union DEF Queues
<1>4. Copies(id) \subseteq all
  <2> SUFFICES ASSUME NEW q \in Queues, NEW i \in DOMAIN box[q]
               PROVE  <<q, i>> \in all
    BY CopiesRows
  <2>1. i \in 0..next
    BY <1>1
  <2> QED BY <2>1 DEF Queues
<1> QED BY <1>3, <1>4, FS_Subset

\* A consumer or a task that carries a message, and which one it carries.
LEMMA CarrierRow ==
    ASSUME TaskInv, NEW id \in MessageIds, NEW x \in Carriers(id)
    PROVE  \/ /\ x \in Consumers /\ pc[x] = "moving"
              /\ \E i \in DOMAIN got[x] :
                    First(x, i) /\ got[x][i].id = id /\ Original(x) = <<"source", i>>
           \/ /\ x \in Tasks /\ step[x] = "deleting"
              /\ \E i \in DOMAIN taken[x] :
                    taken[x][i].id = id /\ Original(x) = <<task[x].from, i>>
<1>1. CASE x \in Consumers
  <2>1. x \notin Tasks
    BY <1>1, SqsMoveAssumption
  <2>2. PICK i \in DOMAIN got[x] : First(x, i) /\ got[x][i].id = id
    BY <2>1 DEF Carriers
  <2>3. \A j : First(x, j) <=> j = i
    <3>1. \A j \in DOMAIN got[x] : j \in Nat
      BY <1>1, ClaimTypes DEF TaskInv, LeaseInv
    <3> QED BY <2>2, <3>1 DEF First
  <2>4. (CHOOSE j : First(x, j)) = i
    BY <2>3
  <2> QED BY <1>1, <2>1, <2>2, <2>4 DEF Carriers, Original
<1>2. CASE x \notin Consumers
  <2>1. x \in Tasks /\ step[x] = "deleting"
    BY <1>2 DEF Carriers
  <2>2. PICK i \in DOMAIN taken[x] : taken[x][i].id = id
    BY <1>2 DEF Carriers
  <2>3. \A j : j \in DOMAIN taken[x] <=> j = i
    BY <2>1, <2>2 DEF TaskInv, TasksOK
  <2>4. (CHOOSE j : j \in DOMAIN taken[x]) = i
    BY <2>3
  <2> QED BY <1>2, <2>1, <2>2, <2>4 DEF Original
<1> QED BY <1>1, <1>2

\* Nobody carries two originals, and nobody else carries the same one.
LEMMA CarrierCount ==
    ASSUME TaskInv, NEW id \in MessageIds, fate[id] = "accepted"
    PROVE  Cardinality(Carriers(id)) = Cardinality(Originals(id))
<1>1. ASSUME NEW x \in Carriers(id)
      PROVE  Original(x) \in Originals(id)
  <2>1. ASSUME x \in Consumers, pc[x] = "moving", NEW i \in DOMAIN got[x], First(x, i),
               got[x][i].id = id, Original(x) = <<"source", i>>
        PROVE  Original(x) \in Originals(id)
    <3>1. Row("source", i, id) /\ "source" \in Queues
      BY <2>1, CopyRow DEF Queues
    <3>2. <<"source", i>> \in Copies(id)
      BY <3>1, CopiesRows DEF Row
    <3>3. Carried("source", i)
      BY <2>1 DEF Carried
    <3> QED BY <2>1, <3>2, <3>3 DEF Originals
  <2>2. ASSUME x \in Tasks, step[x] = "deleting", NEW i \in DOMAIN taken[x],
               taken[x][i].id = id, Original(x) = <<task[x].from, i>>
        PROVE  Original(x) \in Originals(id)
    <3> PICK q : q = task[x].from
      OBVIOUS
    <3>1. Row(q, i, id) /\ q \in Queues
      BY <2>2, TakenRow, TakenTypes DEF TaskInv, MoveInv
    <3>2. <<q, i>> \in Copies(id)
      BY <3>1, CopiesRows DEF Row
    <3>3. Carried(q, i)
      BY <2>2 DEF Carried
    <3> QED BY <2>2, <3>2, <3>3 DEF Originals
  <2> QED BY <2>1, <2>2, CarrierRow
<1>2. ASSUME NEW o \in Originals(id)
      PROVE  \E x \in Carriers(id) : Original(x) = o
  <2>1. PICK q, i : q \in Queues /\ o = <<q, i>> /\ Row(q, i, id) /\ Carried(q, i)
    BY CopiesRows DEF Originals
  <2>2. ASSUME q = "source", NEW c \in Consumers, pc[c] = "moving", First(c, i)
        PROVE  \E x \in Carriers(id) : Original(x) = o
    <3>1. i \in DOMAIN got[c] /\ got[c][i].id = id
      BY <2>1, <2>2, CopyRow DEF First, Row
    <3>2. c \in Carriers(id)
      BY <2>2, <3>1 DEF Carriers
    <3>3. PICK j \in DOMAIN got[c] : First(c, j) /\ Original(c) = <<"source", j>>
      BY <3>2, CarrierRow, SqsMoveAssumption
    <3>4. i \in Nat /\ j \in Nat
      BY <3>1, ClaimTypes DEF TaskInv, LeaseInv
    <3>5. i = j
      BY <2>2, <3>1, <3>3, <3>4 DEF First
    <3> QED BY <2>1, <2>2, <3>2, <3>3, <3>5
  <2>3. ASSUME NEW t \in Tasks, step[t] = "deleting", task[t].from = q, i \in DOMAIN taken[t]
        PROVE  \E x \in Carriers(id) : Original(x) = o
    <3>1. taken[t][i].id = id
      BY <2>1, <2>3, TakenRow DEF Row
    <3>2. t \in Carriers(id)
      BY <2>3, <3>1 DEF Carriers
    <3>3. PICK j \in DOMAIN taken[t] : Original(t) = <<task[t].from, j>>
      BY <3>2, CarrierRow, SqsMoveAssumption
    <3>4. i = j
      BY <2>3 DEF TaskInv, TasksOK
    <3> QED BY <2>1, <2>3, <3>2, <3>3, <3>4
  <2> QED BY <2>1, <2>2, <2>3 DEF Carried
<1>3. ASSUME NEW x \in Carriers(id), NEW y \in Carriers(id), Original(x) = Original(y)
      PROVE  x = y
  <2>1. ASSUME NEW c \in Carriers(id), c \in Consumers
        PROVE  \E i \in DOMAIN got[c] : /\ Original(c) = <<"source", i>>
                                        /\ box["source"][i].count = got[c][i].count
    <3>1. PICK i \in DOMAIN got[c] : got[c][i].id = id /\ Original(c) = <<"source", i>>
      BY <2>1, CarrierRow, SqsMoveAssumption
    <3>2. box["source"][i].count = got[c][i].count
      BY <2>1, <3>1, CopyRow
    <3> QED BY <3>1, <3>2
  <2>2. ASSUME NEW t \in Carriers(id), t \notin Consumers
        PROVE  /\ t \in Tasks
               /\ \E i \in DOMAIN taken[t] : /\ Original(t) = <<task[t].from, i>>
                                             /\ box[task[t].from][i].count = taken[t][i].count
    <3>1. t \in Tasks
      BY <2>2, CarrierRow
    <3>2. PICK i \in DOMAIN taken[t] : taken[t][i].id = id /\ Original(t) = <<task[t].from, i>>
      BY <2>2, CarrierRow
    <3>3. box[task[t].from][i].count = taken[t][i].count
      BY <3>1, <3>2, TakenRow
    <3> QED BY <3>1, <3>2, <3>3
  <2>3. ASSUME NEW c \in Carriers(id), c \in Consumers, NEW t \in Carriers(id), t \notin Consumers,
               Original(c) = Original(t)
        PROVE  FALSE
    <3>1. PICK i \in DOMAIN got[c] :
             Original(c) = <<"source", i>> /\ box["source"][i].count = got[c][i].count
      BY <2>1, <2>3
    <3>2. t \in Tasks
      BY <2>2, <2>3
    <3>3. PICK j \in DOMAIN taken[t] : /\ Original(t) = <<task[t].from, j>>
                                       /\ box[task[t].from][j].count = taken[t][j].count
      BY <2>2, <2>3
    <3>4. i = j /\ task[t].from = "source"
      <4>1. <<"source", i>> = <<task[t].from, j>>
        BY <2>3, <3>1, <3>3
      <4> QED BY <4>1
    <3>5. taken[t][i].count = got[c][i].count
      BY <3>1, <3>3, <3>4
    <3> QED BY <2>3, <3>2, <3>4, <3>5 DEF TaskInv, TakenHandlesOK, TakenUncopied
  <2>4. CASE x \in Consumers /\ y \in Consumers
    <3>1. PICK i \in DOMAIN got[x] :
             Original(x) = <<"source", i>> /\ box["source"][i].count = got[x][i].count
      BY <2>1, <2>4
    <3>2. PICK j \in DOMAIN got[y] :
             Original(y) = <<"source", j>> /\ box["source"][j].count = got[y][j].count
      BY <2>1, <2>4
    <3>3. i = j
      <4>1. <<"source", i>> = <<"source", j>>
        BY <1>3, <3>1, <3>2
      <4> QED BY <4>1
    <3>4. got[x][i].count = got[y][i].count
      BY <3>1, <3>2, <3>3
    <3> QED BY <2>4, <3>2, <3>3, <3>4 DEF TaskInv, LeaseInv, HandlesOK, CopiesApart
  <2>5. CASE x \notin Consumers /\ y \notin Consumers
    <3>1. x \in Tasks /\ y \in Tasks
      BY <2>2, <2>5
    <3>2. PICK i \in DOMAIN taken[x] : /\ Original(x) = <<task[x].from, i>>
                                       /\ box[task[x].from][i].count = taken[x][i].count
      BY <2>2, <2>5
    <3>3. PICK j \in DOMAIN taken[y] : /\ Original(y) = <<task[y].from, j>>
                                       /\ box[task[y].from][j].count = taken[y][j].count
      BY <2>2, <2>5
    <3>4. i = j /\ task[x].from = task[y].from
      <4>1. <<task[x].from, i>> = <<task[y].from, j>>
        BY <1>3, <3>2, <3>3
      <4> QED BY <4>1
    <3>5. taken[x][i].count = taken[y][i].count
      BY <3>2, <3>3, <3>4
    <3> QED BY <3>1, <3>3, <3>4, <3>5 DEF TaskInv, TakenHandlesOK, TakenApart
  <2> QED BY <1>3, <2>3, <2>4, <2>5
<1> DEFINE f == [x \in Carriers(id) |-> Original(x)]
<1>4. f \in [Carriers(id) -> Originals(id)]
  BY <1>1
<1>5. \A o \in Originals(id) : \E x \in Carriers(id) : f[x] = o
  BY <1>2
<1>6. \A x, y \in Carriers(id) : f[x] = f[y] => x = y
  BY <1>3
<1>7. IsFiniteSet(Originals(id))
  BY CopiesFinite, FS_Subset DEF Originals
<1> HIDE DEF f
<1> QED BY <1>4, <1>5, <1>6, <1>7, SameCount

\* All copies but one are originals about to be deleted, one for each carrier.
LEMMA OnceCounts == ASSUME TaskInv, OnceOK PROVE MovedOnce
<1> SUFFICES ASSUME NEW id \in MessageIds, fate[id] = "accepted"
             PROVE  Cardinality(Copies(id)) = 1 + Cardinality(Carriers(id))
  BY DEF MovedOnce
<1>1. PICK q \in Queues, i \in Nat : OnlyLoose(q, i, id)
  BY DEF OnceOK
<1> DEFINE one == <<q, i>>
<1>2. one \in Copies(id) /\ one \notin Originals(id)
  BY <1>1, CopiesRows DEF OnlyLoose, Loose, Row, Originals
<1>3. ASSUME NEW o \in Copies(id), o \notin Originals(id)
      PROVE  o = one
  <2>1. PICK p, j : p \in Queues /\ o = <<p, j>> /\ Row(p, j, id)
    BY CopiesRows
  <2>2. Loose(p, j, id)
    BY <1>3, <2>1 DEF Originals, Loose
  <2>3. j \in Nat
    BY <2>1 DEF Row, TaskInv, LeaseInv, SqsInv, SqsTypeOK, BoxTypeOK, IsQueue
  <2> QED BY <1>1, <2>1, <2>2, <2>3 DEF OnlyLoose
<1>4. Copies(id) = Originals(id) \cup {one}
  <2>1. Originals(id) \subseteq Copies(id)
    BY DEF Originals
  <2> QED BY <1>2, <1>3, <2>1
<1>5. IsFiniteSet(Originals(id))
  BY CopiesFinite, FS_Subset DEF Originals
<1>6. Cardinality(Copies(id)) = Cardinality(Originals(id)) + 1
  BY <1>2, <1>4, <1>5, FS_AddElement
<1>7. Cardinality(Originals(id)) \in Nat
  BY <1>5, FS_CardinalityType
<1> QED BY <1>6, <1>7, CarrierCount

\* As long as no message with a deduplication id has come to the dead-letter
\* queue, redrives and move tasks never multiply a message and never lose one, for
\* any numbers of consumers and tasks: besides the one there is, there are as many
\* more as consumers and tasks between their Send and their Delete.
THEOREM MovesOnlyOnce == MoveSpec => [](DlqUndeduped => MovedOnce)
<1>1. OnceInv /\ [MoveNext]_allVars => OnceInv'
  BY OnceStep
<1>2. OnceInv => (DlqUndeduped => MovedOnce)
  BY OnceCounts DEF OnceInv
<1> QED BY <1>1, <1>2, OnceInitInv, PTL DEF MoveSpec

\* A queue whose messages have no deduplication id keeps one of each.
THEOREM MovedOnlyOnce ==
    ASSUME DedupIds = {}
    PROVE  MoveSpec => []MovedOnce
<1>1. DlqUndeduped
  BY DEF DlqUndeduped, DedupKeys
<1> QED BY <1>1, MovesOnlyOnce, PTL

\* Nor do move tasks lose a message, whatever redrives run beside them.
THEOREM MovesLoseNothing == MoveSpec => [](DlqUndeduped => NothingLost)
<1>1. OnceInv /\ [MoveNext]_allVars => OnceInv'
  BY OnceStep
<1>2. OnceInv => (DlqUndeduped => NothingLost)
  BY DEF OnceInv, OnceOK, OnlyLoose, Loose, Row, NothingLost, InSomeQueue
<1> QED BY <1>1, <1>2, OnceInitInv, PTL DEF MoveSpec

=============================================================================
