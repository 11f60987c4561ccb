------------------------- MODULE PubSubStreamProofs -------------------------
(***************************************************************************)
(* Theorems about PubSubStream: for any streams, flow-control limits and   *)
(* deadlines, a message is not hidden unless a stream is at work on it, it *)
(* was sent, or the stream that had it ended because it could not decrypt. *)
(***************************************************************************)
EXTENDS PubSubStream, PubSubStoreProofs

-----------------------------------------------------------------------------
(* The inductive invariant *)

\* What streams, receive loops and the unary call have in hand was published.
KnownOK ==
    /\ \A s \in Streams : /\ DOMAIN batch[s] \cup returns[s] \cup sendable[s] \subseteq 1..seq
                          /\ recv[s].id \in 0..seq
                          /\ recv[s].step = "marking" => recv[s].id \in 1..seq
    /\ unary \in 0..seq

\* A send loop takes up new messages with empty hands.
HandsOK ==
    \A s \in Streams :
        /\ pc[s] \in {"closed", "top"} => DOMAIN batch[s] = {}
        /\ pc[s] \notin {"dropping", "reserving"} => returns[s] = {}
        /\ pc[s] # "reserving" => sendable[s] = {}

\* What dropAcked has yet to look at is in the batch, and what it has listed as
\* acknowledged was sent before.
DropOK ==
    \A s \in Streams :
        /\ unchecked[s] \subseteq DOMAIN batch[s] /\ acked[s].ids \subseteq issued
        /\ pc[s] = "tombstoned" => unchecked[s] # {}
        /\ pc[s] \notin {"dropping", "tombstoned"} => unchecked[s] = {}

\* Only a message that was sent is acknowledged, or has a held ack.
AckedOK == \A i \in DOMAIN box : box[i].acked \/ box[i].held => i \in issued

StreamInv == StreamTypeOK /\ KnownOK /\ HandsOK /\ DropOK /\ AckedOK /\ HiddenIsHeld

\* Some stream has message i claimed, or it was sent to some client or stranded.
Held(i) ==
    \/ i \in issued \cup stranded
    \/ \E s \in Streams : i \in DOMAIN batch[s] \cup returns[s] \cup sendable[s]

LEMMA Bounds ==
    /\ MaxTime \in Nat /\ MaxTime >= 1 /\ MaxId \in Nat /\ MaxId >= 1
    /\ AckDeadline \in Nat /\ Extensions \subseteq Nat
    /\ Published \subseteq Keys \cup {NoKey}
<1>1. MaxTime \in Nat \ {0} /\ MaxId \in Nat \ {0}
  BY PubSubStreamAssumption, PubSubStoreAssumption
<1> QED BY <1>1, PubSubStreamAssumption

LEMMA ClockNat == StreamTypeOK => now \in Nat
BY Bounds DEF StreamTypeOK

\* A step that hides only held messages, and lets go only of messages that are
\* visible or acknowledged, hides nothing for nothing.
LEMMA HiddenStep ==
    ASSUME StreamTypeOK, HiddenIsHeld, IsBox(box'), now' \in Nat, now <= now',
           NEW S, HidesOnly(box', box, S),
           \A i \in S : i \in DOMAIN box' => Held(i)',
           \A i \in DOMAIN box' : Held(i) /\ ~box'[i].acked /\ box'[i].visibleAt # 0 => Held(i)'
    PROVE  HiddenIsHeld'
<1>1. SUFFICES ASSUME NEW i \in DOMAIN box', i \notin S,
                      InFlight(box'[i], now'), ~box'[i].acked
               PROVE  Held(i)'
  BY DEF HiddenIsHeld, Held
<1>2. /\ i \in DOMAIN box /\ box'[i].visibleAt = box[i].visibleAt
      /\ box[i].acked => box'[i].acked
  BY <1>1 DEF HidesOnly, InFlight
<1>3. box[i].visibleAt \in Nat /\ now \in Nat
  BY <1>2, ClockNat DEF StreamTypeOK, IsBox, Messages
<1>4. InFlight(box[i], now) /\ ~box[i].acked
  BY <1>1, <1>2, <1>3 DEF InFlight
<1>5. Held(i)
  BY <1>2, <1>4 DEF HiddenIsHeld, Held
<1> QED BY <1>1, <1>5 DEF InFlight

\* The same where nobody lets go of anything.
LEMMA HeldStays ==
    ASSUME StreamTypeOK, HiddenIsHeld, IsBox(box'), now' \in Nat, now <= now',
           NEW S, HidesOnly(box', box, S),
           \A i \in S : i \in DOMAIN box' => Held(i)',
           issued \subseteq issued', UNCHANGED <<batch, returns, sendable, stranded>>
    PROVE  HiddenIsHeld'
<1>1. \A i : Held(i) => Held(i)'
  BY DEF Held
<1> QED BY <1>1, HiddenStep

\* Acks come for messages that were sent.
LEMMA AckedStep ==
    ASSUME AckedOK, NEW S, S \subseteq issued', issued \subseteq issued', AcksOnly(box', box, S)
    PROVE  AckedOK'
BY DEF AckedOK, AcksOnly

LEMMA StreamInitInv == StreamInit => StreamInv
<1> SUFFICES ASSUME StreamInit PROVE StreamInv
  OBVIOUS
<1> USE Bounds DEF StreamInit
<1>1. IsBox(EmptyBox) /\ DOMAIN EmptyBox = {}
  BY EmptyBoxIsBox
<1>2. StreamTypeOK
  <2>1. Nothing \in [step : {"idle", "marking", "releasing"}, id : Nat]
    BY DEF Nothing
  <2>2. recv \in [Streams -> [step : {"idle", "marking", "releasing"}, id : Nat]]
    <3> HIDE DEF Nothing
    <3> QED BY <2>1
  <2>3. DOMAIN batch = Streams /\ \A s \in Streams : IsBox(batch[s])
    BY <1>1
  <2>4. /\ now \in 1..MaxTime /\ seq \in 0..MaxId /\ unary \in Nat
        /\ tomb \subseteq 1..seq /\ seen \subseteq 1..seq
        /\ issued \subseteq 1..seq /\ stranded \subseteq 1..seq
    <3>1. /\ now = 1 /\ seq = 0 /\ unary = 0 /\ tomb = {} /\ seen = {}
          /\ issued = {} /\ stranded = {}
      OBVIOUS
    <3> HIDE DEF StreamInit
    <3> QED BY <3>1, Bounds
  <2>5. reconciling \in BOOLEAN
    OBVIOUS
  <2>6. /\ pc \in [Streams -> {"closed", "top", "dropping", "tombstoned", "reserving"}]
        /\ returns \in [Streams -> SUBSET Ids] /\ sendable \in [Streams -> SUBSET Ids]
        /\ outstanding \in [Streams -> SUBSET Ids] /\ unchecked \in [Streams -> SUBSET Ids]
    OBVIOUS
  <2>7. IsBox(box) /\ DOMAIN box \subseteq 1..seq
    BY <1>1
  <2>8. acked \in [Streams -> [listed : BOOLEAN, ids : SUBSET Ids]]
    <3>1. NotListed \in [listed : BOOLEAN, ids : SUBSET Ids]
      BY DEF NotListed
    <3> HIDE DEF NotListed
    <3> QED BY <3>1
  <2> QED BY <2>2, <2>3, <2>4, <2>5, <2>6, <2>7, <2>8 DEF StreamTypeOK
<1>3. KnownOK
  BY <1>1 DEF KnownOK, Nothing
<1>4. HandsOK
  BY <1>1 DEF HandsOK
<1>5. HiddenIsHeld /\ AckedOK
  BY <1>1 DEF HiddenIsHeld, AckedOK
<1>6. DropOK
  BY <1>1 DEF DropOK, NotListed
<1> QED BY <1>2, <1>3, <1>4, <1>5, <1>6 DEF StreamInv

-----------------------------------------------------------------------------
(* Steps that leave the store and what the send loops hold alone *)

\* The registry, the receive loops and the clock.
LEMMA QuietInv ==
    ASSUME StreamInv, UNCHANGED <<seq, box, batch, dropVars, returns, sendable, issued, stranded>>,
           now' \in 1..MaxTime, now <= now',
           tomb' \subseteq 1..seq, seen' \subseteq 1..seq, reconciling' \in BOOLEAN,
           pc' \in [Streams -> {"closed", "top", "dropping", "tombstoned", "reserving"}],
           outstanding' \in [Streams -> SUBSET Ids],
           recv' \in [Streams -> [step : {"idle", "marking", "releasing"}, id : Nat]],
           \A s \in Streams : /\ recv'[s].id \in 0..seq
                              /\ recv'[s].step = "marking" => recv'[s].id \in 1..seq,
           unary' \in 0..seq,
           \A s \in Streams :
                pc'[s] = pc[s] \/ (pc[s] \in {"closed", "top"} /\ pc'[s] \in {"closed", "top"})
    PROVE  StreamInv'
<1>1. StreamTypeOK /\ KnownOK /\ HandsOK /\ DropOK /\ AckedOK /\ HiddenIsHeld /\ IsBox(box)
  BY DEF StreamInv, StreamTypeOK
<1>2. now' \in Nat /\ seq \in Nat
  BY <1>1, Bounds DEF StreamTypeOK
<1>3. StreamTypeOK'
  BY <1>1, <1>2 DEF StreamTypeOK, dropVars
<1>4. KnownOK'
  BY <1>1 DEF KnownOK
<1>5. HandsOK'
  BY <1>1 DEF HandsOK, StreamTypeOK
<1>6. HiddenIsHeld'
  <2>1. HidesOnly(box', box, {})
    BY HidesNothing
  <2> QED BY <1>1, <1>2, <2>1, HeldStays
<1>7. DropOK' /\ AckedOK'
  BY <1>1 DEF DropOK, AckedOK, dropVars, StreamTypeOK
<1> QED BY <1>3, <1>4, <1>5, <1>6, <1>7 DEF StreamInv

\* What QuietInv needs of the variables a step leaves alone.
LEMMA Known ==
    ASSUME StreamInv
    PROVE  /\ seq \in Nat /\ now \in Nat /\ now \in 1..MaxTime
           /\ tomb \subseteq 1..seq /\ seen \subseteq 1..seq /\ reconciling \in BOOLEAN
           /\ pc \in [Streams -> {"closed", "top", "dropping", "tombstoned", "reserving"}]
           /\ outstanding \in [Streams -> SUBSET Ids]
           /\ recv \in [Streams -> [step : {"idle", "marking", "releasing"}, id : Nat]]
           /\ \A s \in Streams : /\ recv[s].id \in 0..seq
                                 /\ recv[s].step = "marking" => recv[s].id \in 1..seq
           /\ unary \in 0..seq
BY Bounds DEF StreamInv, StreamTypeOK, KnownOK

\* The receive loops stay what they should be when one of them moves on.
RecvOK(r) ==
    /\ r \in [Streams -> [step : {"idle", "marking", "releasing"}, id : Nat]]
    /\ \A s \in Streams : /\ r[s].id \in 0..seq
                          /\ r[s].step = "marking" => r[s].id \in 1..seq

LEMMA IdleRecv ==
    ASSUME StreamInv
    PROVE  /\ Nothing \in [step : {"idle", "marking", "releasing"}, id : Nat]
           /\ Nothing.id \in 0..seq /\ Nothing.step = "idle"
BY Known DEF Nothing

LEMMA RecvStep ==
    ASSUME StreamInv, NEW s \in Streams,
           NEW r \in [step : {"idle", "marking", "releasing"}, id : Nat],
           r.id \in 0..seq, r.step = "marking" => r.id \in 1..seq,
           recv' = [recv EXCEPT ![s] = r]
    PROVE  RecvOK(recv')
<1>1. recv' \in [Streams -> [step : {"idle", "marking", "releasing"}, id : Nat]]
  BY Known
<1>2. \A q \in Streams : recv'[q] = IF q = s THEN r ELSE recv[q]
  BY Known
<1>3. \A q \in Streams : /\ recv'[q].id \in 0..seq
                         /\ recv'[q].step = "marking" => recv'[q].id \in 1..seq
  BY <1>2, Known
<1> QED BY <1>1, <1>3 DEF RecvOK

LEMMA TickInv == StreamInv /\ Tick => StreamInv'
<1> SUFFICES ASSUME StreamInv, Tick PROVE StreamInv'
  OBVIOUS
<1>1. now' \in 1..MaxTime /\ now <= now'
  BY Known, Bounds DEF Tick
<1> QED BY <1>1, Known, QuietInv DEF Tick, registryVars, sendVars

LEMMA RegistryInv == StreamInv /\ Registry => StreamInv'
<1> SUFFICES ASSUME StreamInv, Registry PROVE StreamInv'
  OBVIOUS
<1>1. /\ UNCHANGED <<now, seq, box, sendVars, outstanding, recv, unary, issued, stranded>>
      /\ tomb' \subseteq tomb
  BY DEF Registry, RegistryList, RegistryReconcile
<1>2. seen' \subseteq 1..seq
  BY DEF Registry, RegistryList, RegistryReconcile, StreamInv, StreamTypeOK
<1>3. reconciling' \in BOOLEAN
  BY DEF Registry, RegistryList, RegistryReconcile
<1>4. now <= now'
  BY <1>1, Known
<1> QED BY <1>1, <1>2, <1>3, <1>4, Known, QuietInv DEF sendVars

\* Opening and closing a stream, and the reconciliation of a full one.
LEMMA OpenCloseInv ==
    ASSUME StreamInv, NEW s \in Streams,
           StreamOpen(s) \/ StreamClose(s) \/ StreamReconcile(s)
    PROVE  StreamInv'
<1>1. UNCHANGED <<now, seq, box, registryVars, batch, dropVars, returns, sendable, recv, unary, issued, stranded>>
  BY DEF StreamOpen, StreamClose, StreamReconcile, sendVars
<1>2. outstanding' \in [Streams -> SUBSET Ids]
  BY Known DEF StreamOpen, StreamClose, StreamReconcile
<1>3. /\ pc' \in [Streams -> {"closed", "top", "dropping", "tombstoned", "reserving"}]
      /\ \A r \in Streams :
            pc'[r] = pc[r] \/ (pc[r] \in {"closed", "top"} /\ pc'[r] \in {"closed", "top"})
  BY Known DEF StreamOpen, StreamClose, StreamReconcile, sendVars
<1>4. now <= now'
  BY <1>1, Known
<1> QED BY <1>1, <1>2, <1>3, <1>4, Known, QuietInv DEF registryVars

LEMMA MarkTomb ==
    ASSUME StreamInv, NEW i \in 1..seq
    PROVE  AfterMark(i) \subseteq 1..seq
BY Known DEF AfterMark

LEMMA RecvLoopInv ==
    ASSUME StreamInv, NEW s \in Streams, RecvLoop(s)
    PROVE  StreamInv'
<1>1. now <= now' /\ UNCHANGED <<now, seq, box, seen, reconciling, sendVars, unary, issued, stranded>>
  BY Known DEF RecvLoop, StreamMark, StreamUncount, registryVars
<1>2. tomb' \subseteq 1..seq
  BY Known, MarkTomb DEF RecvLoop, StreamMark, StreamUncount, registryVars
<1>3. outstanding' \in [Streams -> SUBSET Ids]
  BY Known DEF RecvLoop, StreamMark, StreamUncount
<1>4. RecvOK(recv')
  <2>1. CASE StreamMark(s)
    <3> DEFINE r == [recv[s] EXCEPT !.step = "releasing"]
    <3>1. /\ r \in [step : {"idle", "marking", "releasing"}, id : Nat]
          /\ r.id = recv[s].id /\ r.step = "releasing"
      BY Known
    <3>2. recv' = [recv EXCEPT ![s] = r]
      BY <2>1, Known DEF StreamMark
    <3> HIDE DEF r
    <3> QED BY <3>1, <3>2, Known, RecvStep
  <2>2. CASE StreamUncount(s)
    BY <2>2, IdleRecv, RecvStep DEF StreamUncount
  <2> QED BY <2>1, <2>2 DEF RecvLoop
<1> QED BY <1>1, <1>2, <1>3, <1>4, Known, QuietInv DEF sendVars, RecvOK

LEMMA AcknowledgeMarkInv == StreamInv /\ AcknowledgeMark => StreamInv'
<1> SUFFICES ASSUME StreamInv, AcknowledgeMark PROVE StreamInv'
  OBVIOUS
<1>1. now <= now' /\ unary' \in 0..seq /\ unary \in 1..seq
  BY Known DEF AcknowledgeMark
<1>2. tomb' \subseteq 1..seq
  BY <1>1, MarkTomb DEF AcknowledgeMark
<1> QED BY <1>1, <1>2, Known, QuietInv DEF AcknowledgeMark, sendVars

-----------------------------------------------------------------------------
(* Acks and deadlines *)

LEMMA AckShape ==
    ASSUME NEW b, IsBox(b), NEW i
    PROVE  IsBox(AfterAck(b, i)) /\ DOMAIN AfterAck(b, i) \subseteq DOMAIN b
<1>1. IsBox(AfterRemove(b, {i})) /\ DOMAIN AfterRemove(b, {i}) = DOMAIN b \ {i}
  BY RemoveBox
<1>2. DOMAIN AfterRemove(b, {i}) \subseteq DOMAIN b
  BY <1>1
<1> QED BY <1>1, <1>2, AckBox DEF Reflagged

LEMMA ModAckShape ==
    ASSUME NEW b, IsBox(b), NEW i, NEW d \in Nat, NEW t \in Nat
    PROVE  IsBox(AfterModAck(b, i, d, t)) /\ DOMAIN AfterModAck(b, i, d, t) = DOMAIN b
BY ModAckBox DEF Reflagged

\* The store changes for messages a client may have an ack id for.
LEMMA ClientInv ==
    ASSUME StreamInv, UNCHANGED <<now, seq, registryVars, sendVars, outstanding, issued, stranded>>,
           IsBox(box'), DOMAIN box' \subseteq DOMAIN box,
           NEW S, S \subseteq issued, HidesOnly(box', box, S), AcksOnly(box', box, S),
           recv' \in [Streams -> [step : {"idle", "marking", "releasing"}, id : Nat]],
           \A s \in Streams : /\ recv'[s].id \in 0..seq
                              /\ recv'[s].step = "marking" => recv'[s].id \in 1..seq,
           unary' \in 0..seq
    PROVE  StreamInv'
<1>1. StreamTypeOK /\ KnownOK /\ HandsOK /\ DropOK /\ AckedOK /\ HiddenIsHeld /\ IsBox(box)
  BY DEF StreamInv, StreamTypeOK
<1>2. now' \in Nat /\ seq \in Nat /\ now <= now'
  BY Known
<1>3. StreamTypeOK'
  BY <1>1, <1>2 DEF StreamTypeOK, sendVars, dropVars, registryVars
<1>4. KnownOK'
  BY <1>1 DEF KnownOK, sendVars
<1>5. HandsOK'
  BY <1>1 DEF HandsOK, sendVars
<1>6. HiddenIsHeld'
  <2>1. \A i \in S : Held(i)'
    BY DEF Held
  <2> QED BY <1>1, <1>2, <2>1, HeldStays DEF sendVars
<1>7. DropOK' /\ AckedOK'
  BY <1>1, AckedStep DEF DropOK, sendVars, dropVars
<1> QED BY <1>3, <1>4, <1>5, <1>6, <1>7 DEF StreamInv

\* Acknowledge, by a stream or by the unary call.
LEMMA AckInv ==
    ASSUME StreamInv, NEW i \in issued,
           Acknowledge(i) \/ \E s \in Streams : StreamAck(s, i)
    PROVE  StreamInv'
<1>1. /\ box' = AfterAck(box, i)
      /\ UNCHANGED <<now, seq, registryVars, sendVars, outstanding, issued, stranded>>
  BY DEF Acknowledge, StreamAck
<1>2. i \in 1..seq /\ i \in Nat
  BY Known DEF StreamInv, StreamTypeOK
<1>3. IsBox(box)
  BY DEF StreamInv, StreamTypeOK
<1>4. /\ IsBox(box') /\ DOMAIN box' \subseteq DOMAIN box
      /\ HidesOnly(box', box, {i}) /\ AcksOnly(box', box, {i})
  <2>1. HidesOnly(box', box, {})
    BY <1>1, <1>3, AckHides
  <2> QED BY <1>1, <1>3, <2>1, AckShape, AckAcks DEF HidesOnly
<1>5. unary' \in 0..seq
  BY <1>2, Known DEF Acknowledge, StreamAck
<1>6. RecvOK(recv')
  <2>1. CASE Acknowledge(i)
    BY <2>1, Known DEF Acknowledge, RecvOK
  <2>2. ASSUME NEW s \in Streams, StreamAck(s, i) PROVE RecvOK(recv')
    <3> DEFINE r == [step |-> "marking", id |-> i]
    <3>1. /\ r \in [step : {"idle", "marking", "releasing"}, id : Nat]
          /\ r.id \in 0..seq /\ r.id \in 1..seq
      BY <1>2, Known
    <3>2. recv' = [recv EXCEPT ![s] = r]
      BY <2>2 DEF StreamAck
    <3> HIDE DEF r
    <3> QED BY <3>1, <3>2, RecvStep
  <2> QED BY <2>1, <2>2
<1>7. {i} \subseteq issued
  OBVIOUS
<1> QED BY <1>1, <1>4, <1>5, <1>6, <1>7, ClientInv DEF RecvOK

\* ModifyAckDeadline, by a stream or by the unary call.
LEMMA ModAckInv ==
    ASSUME StreamInv, NEW i \in issued, NEW d \in Extensions,
           ModifyAckDeadline(i, d) \/ \E s \in Streams : StreamModAck(s, i, d)
    PROVE  StreamInv'
<1>1. /\ box' = AfterModAck(box, i, d, now)
      /\ UNCHANGED <<now, seq, registryVars, sendVars, outstanding, issued, stranded, unary>>
  BY DEF ModifyAckDeadline, StreamModAck
<1>2. i \in 1..seq /\ i \in Nat /\ d \in Nat /\ now \in Nat
  BY Known, Bounds DEF StreamInv, StreamTypeOK
<1>3. IsBox(box)
  BY DEF StreamInv, StreamTypeOK
<1>4. /\ IsBox(box') /\ DOMAIN box' \subseteq DOMAIN box
      /\ HidesOnly(box', box, {i}) /\ AcksOnly(box', box, {i})
  <2>1. AcksOnly(box', box, {})
    BY <1>1, <1>2, <1>3, ModAckAcks
  <2> QED BY <1>1, <1>2, <1>3, <2>1, ModAckShape, ModAckHides DEF AcksOnly
<1>5. RecvOK(recv')
  <2>1. CASE ModifyAckDeadline(i, d)
    BY <2>1, Known DEF ModifyAckDeadline, RecvOK
  <2>2. ASSUME NEW s \in Streams, StreamModAck(s, i, d) PROVE RecvOK(recv')
    <3> DEFINE r == [step |-> "releasing", id |-> i]
    <3>1. /\ r \in [step : {"idle", "marking", "releasing"}, id : Nat]
          /\ r.id \in 0..seq /\ r.step = "releasing"
      BY <1>2, Known
    <3>2. recv' = [recv EXCEPT ![s] = r] \/ recv' = [recv EXCEPT ![s] = Nothing]
      BY <2>2 DEF StreamModAck
    <3> HIDE DEF r
    <3>3. CASE recv' = [recv EXCEPT ![s] = r]
      BY <3>1, <3>3, RecvStep
    <3>4. CASE recv' = [recv EXCEPT ![s] = Nothing]
      BY <3>4, IdleRecv, RecvStep
    <3> QED BY <3>2, <3>3, <3>4
  <2> QED BY <2>1, <2>2
<1>6. {i} \subseteq issued /\ unary' \in 0..seq
  BY <1>1, Known
<1> QED BY <1>1, <1>4, <1>5, <1>6, ClientInv DEF RecvOK

-----------------------------------------------------------------------------
(* The send loop *)

\* A new message is visible.
LEMMA StreamPublishInv ==
    ASSUME StreamInv, NEW k \in Published, Publish(k)
    PROVE  StreamInv'
<1> DEFINE i == seq + 1
           m == [key |-> k, at |-> now, src |-> i, match |-> TRUE, visibleAt |-> 0,
                 attempt |-> 0, version |-> 0, acked |-> FALSE, held |-> FALSE]
<1>1. /\ StreamTypeOK /\ KnownOK /\ HandsOK /\ DropOK /\ AckedOK /\ HiddenIsHeld
      /\ IsBox(box) /\ DOMAIN box \subseteq 1..seq
  BY DEF StreamInv, StreamTypeOK
<1>2. i \in Ids /\ i \in Nat /\ seq \in Nat /\ seq' = i /\ seq' \in 0..MaxId
  BY Known, Bounds DEF Publish, Ids
<1>3. m \in Messages
  BY <1>2, Known, Bounds DEF Messages
<1>4. m.visibleAt = 0 /\ ~m.acked /\ ~m.held /\ box' = AfterPut(box, i, m)
  BY DEF Publish
<1> HIDE DEF m
<1>5. IsBox(box') /\ DOMAIN box' = DOMAIN box \cup {i} /\ box'[i] = m
      /\ \A j \in DOMAIN box \ {i} : box'[j] = box[j]
  <2> HIDE DEF i
  <2>1. /\ IsBox(AfterPut(box, i, m)) /\ DOMAIN AfterPut(box, i, m) = DOMAIN box \cup {i}
        /\ AfterPut(box, i, m)[i] = m
        /\ \A j \in DOMAIN box \ {i} : AfterPut(box, i, m)[j] = box[j]
    BY <1>1, <1>2, <1>3, PutBox
  <2> QED BY <1>4, <2>1
<1>6. UNCHANGED <<now, registryVars, sendVars, outstanding, recv, unary, issued, stranded>>
  BY DEF Publish
<1>7. 1..seq \subseteq 1..seq' /\ 0..seq \subseteq 0..seq' /\ i \in 1..seq'
  BY <1>2
<1>8. StreamTypeOK'
  <2>1. IsBox(box') /\ DOMAIN box' \subseteq 1..seq'
    BY <1>1, <1>5, <1>7
  <2> HIDE DEF i
  <2> QED BY <1>1, <1>2, <1>6, <1>7, <2>1 DEF StreamTypeOK, registryVars, sendVars, dropVars
<1>9. KnownOK'
  <2> HIDE DEF i
  <2> QED BY <1>1, <1>6, <1>7 DEF KnownOK, sendVars
<1>10. HandsOK'
  BY <1>1, <1>6 DEF HandsOK, sendVars
<1>11. HidesOnly(box', box, {})
  BY <1>4, <1>5 DEF HidesOnly
<1>12. HiddenIsHeld'
  <2>1. now' \in Nat /\ now <= now'
    BY <1>6, Known
  <2> QED BY <1>1, <1>5, <1>6, <1>11, <2>1, HeldStays DEF sendVars
<1>13. DropOK'
  BY <1>1, <1>6 DEF DropOK, sendVars, dropVars
<1>14. AckedOK'
  <2>1. AcksOnly(box', box, {})
    BY <1>4, <1>5 DEF AcksOnly
  <2> QED BY <1>1, <1>6, <2>1, AckedStep
<1> QED BY <1>8, <1>9, <1>10, <1>12, <1>13, <1>14 DEF StreamInv

\* What a stream has in hand.
Hands(s) == DOMAIN batch[s] \cup returns[s] \cup sendable[s]

\* A step of the send loop of s, which lets go only of messages that are sent,
\* visible, acknowledged or gone.
LetsGo(s) ==
    \A i \in Hands(s) : \/ i \in Hands(s)' \/ i \in issued' \cup stranded'
                        \/ i \notin DOMAIN box'
                        \/ box'[i].acked \/ box'[i].visibleAt = 0

\* The other send loops keep what they have.
OnlyLoop(s) ==
    /\ pc' = [pc EXCEPT ![s] = pc'[s]] /\ returns' = [returns EXCEPT ![s] = returns'[s]]
    /\ sendable' = [sendable EXCEPT ![s] = sendable'[s]]
    /\ unchecked' = [unchecked EXCEPT ![s] = unchecked'[s]]
    /\ acked' = [acked EXCEPT ![s] = acked'[s]]
    /\ DOMAIN batch' = Streams /\ \A r \in Streams \ {s} : batch'[r] = batch[r]

\* What the invariant says of one send loop.
LoopOK(s) ==
    /\ pc[s] \in {"closed", "top", "dropping", "tombstoned", "reserving"}
    /\ IsBox(batch[s]) /\ Hands(s) \subseteq 1..seq
    /\ pc[s] \in {"closed", "top"} => DOMAIN batch[s] = {}
    /\ pc[s] \notin {"dropping", "reserving"} => returns[s] = {}
    /\ pc[s] # "reserving" => sendable[s] = {}
    /\ unchecked[s] \subseteq DOMAIN batch[s]
    /\ acked[s] \in [listed : BOOLEAN, ids : SUBSET Ids] /\ acked[s].ids \subseteq issued
    /\ pc[s] = "tombstoned" => unchecked[s] # {}
    /\ pc[s] \notin {"dropping", "tombstoned"} => unchecked[s] = {}

LEMMA LoopInv ==
    ASSUME StreamInv, NEW s \in Streams, OnlyLoop(s), LetsGo(s),
           UNCHANGED <<now, seq, registryVars, recv, unary>>,
           LoopOK(s)',
           outstanding' \in [Streams -> SUBSET Ids],
           issued \subseteq issued', issued' \subseteq 1..seq,
           stranded' \subseteq 1..seq, stranded \subseteq stranded' \cup DOMAIN batch'[s],
           IsBox(box'), DOMAIN box' \subseteq DOMAIN box,
           HidesOnly(box', box, DOMAIN batch'[s]), AcksOnly(box', box, {})
    PROVE  StreamInv'
<1>1. StreamTypeOK /\ KnownOK /\ HandsOK /\ DropOK /\ AckedOK /\ HiddenIsHeld /\ IsBox(box)
  BY DEF StreamInv, StreamTypeOK
<1>2. seq \in Nat /\ now' \in Nat /\ now <= now' /\ 1..seq \subseteq Ids
  BY <1>1, Known, Bounds DEF StreamTypeOK, Ids
<1>3. /\ DOMAIN batch = Streams /\ returns \in [Streams -> SUBSET Ids]
      /\ sendable \in [Streams -> SUBSET Ids]
      /\ pc \in [Streams -> {"closed", "top", "dropping", "tombstoned", "reserving"}]
      /\ unchecked \in [Streams -> SUBSET Ids]
      /\ acked \in [Streams -> [listed : BOOLEAN, ids : SUBSET Ids]]
      /\ \A r \in Streams : IsBox(batch[r])
  BY <1>1 DEF StreamTypeOK
<1>4. /\ DOMAIN batch'[s] \cup returns'[s] \cup sendable'[s] \subseteq 1..seq
      /\ unchecked'[s] \subseteq 1..seq
  BY DEF Hands, LoopOK
<1>5. \A r \in Streams \ {s} : /\ batch'[r] = batch[r] /\ returns'[r] = returns[r]
                               /\ sendable'[r] = sendable[r] /\ pc'[r] = pc[r]
                               /\ unchecked'[r] = unchecked[r] /\ acked'[r] = acked[r]
  BY <1>3 DEF OnlyLoop
<1>6. StreamTypeOK'
  <2>1. /\ returns' \in [Streams -> SUBSET Ids] /\ sendable' \in [Streams -> SUBSET Ids]
        /\ pc' \in [Streams -> {"closed", "top", "dropping", "tombstoned", "reserving"}]
        /\ unchecked' \in [Streams -> SUBSET Ids]
        /\ acked' \in [Streams -> [listed : BOOLEAN, ids : SUBSET Ids]]
    BY <1>2, <1>3, <1>4 DEF OnlyLoop, LoopOK
  <2>2. DOMAIN batch' = Streams /\ \A r \in Streams : IsBox(batch'[r])
    BY <1>3, <1>5 DEF OnlyLoop, LoopOK
  <2>3. /\ now' \in 1..MaxTime /\ seq' \in 0..MaxId /\ unary' \in Nat /\ reconciling' \in BOOLEAN
        /\ tomb' \subseteq 1..seq' /\ seen' \subseteq 1..seq' /\ issued' \subseteq 1..seq'
        /\ recv' \in [Streams -> [step : {"idle", "marking", "releasing"}, id : Nat]]
        /\ DOMAIN box' \subseteq 1..seq' /\ stranded' \subseteq 1..seq'
    BY <1>1 DEF StreamTypeOK, registryVars
  <2> QED BY <2>1, <2>2, <2>3 DEF StreamTypeOK
<1>7. KnownOK'
  BY <1>1, <1>4, <1>5 DEF KnownOK
<1>8. HandsOK' /\ DropOK' /\ AckedOK'
  BY <1>1, <1>5, AckedStep DEF HandsOK, DropOK, LoopOK
<1>9. ASSUME NEW i \in DOMAIN box', Held(i), ~box'[i].acked, box'[i].visibleAt # 0
      PROVE  Held(i)'
  <2>1. CASE i \in issued \cup stranded
    BY <2>1 DEF Held
  <2>2. CASE i \in Hands(s)
    BY <1>9, <2>2 DEF Held, Hands, LetsGo
  <2>3. CASE \E r \in Streams \ {s} : i \in Hands(r)
    BY <1>5, <2>3 DEF Held, Hands
  <2> QED BY <1>9, <2>1, <2>2, <2>3 DEF Held, Hands
<1>10. \A i \in DOMAIN batch'[s] : Held(i)'
  BY DEF Held
<1>11. HiddenIsHeld'
  BY <1>1, <1>2, <1>9, <1>10, HiddenStep
<1> QED BY <1>6, <1>7, <1>8, <1>11 DEF StreamInv

\* The types of a stream's variables, and that an EXCEPT with the same value
\* changes nothing.
LEMMA HandsShape ==
    ASSUME StreamInv, NEW s \in Streams
    PROVE  /\ IsBox(batch[s]) /\ IsBox(box)
           /\ Hands(s) \subseteq 1..seq /\ issued \subseteq 1..seq
           /\ DOMAIN batch = Streams
           /\ pc = [pc EXCEPT ![s] = pc[s]]
           /\ returns = [returns EXCEPT ![s] = returns[s]]
           /\ sendable = [sendable EXCEPT ![s] = sendable[s]]
           /\ unchecked = [unchecked EXCEPT ![s] = unchecked[s]]
           /\ acked = [acked EXCEPT ![s] = acked[s]]
           /\ stranded \subseteq 1..seq /\ DOMAIN unchecked = Streams /\ DOMAIN acked = Streams
           /\ LoopOK(s)
           /\ pc[s] \in {"closed", "top", "dropping", "tombstoned", "reserving"}
           /\ pc[s] \in {"closed", "top"} => DOMAIN batch[s] = {}
           /\ pc[s] \notin {"dropping", "reserving"} => returns[s] = {}
           /\ pc[s] # "reserving" => sendable[s] = {}
BY DEF StreamInv, StreamTypeOK, KnownOK, HandsOK, DropOK, LoopOK, Hands

\* StreamPull: what is claimed comes into empty hands.
LEMMA StreamPullInv ==
    ASSUME StreamInv, NEW s \in Streams, StreamPull(s)
    PROVE  StreamInv'
<1> DEFINE C == Claimed(box, Budget(s), 0, now)
           bat == [i \in C |-> box'[i]]
<1>1. pc[s] = "top" /\ IsBox(box) /\ Hands(s) = {} /\ returns[s] = {} /\ sendable[s] = {}
  BY HandsShape DEF StreamPull, Hands
<1>2. AckDeadline \in Nat /\ now \in Nat
  BY Known, Bounds
<1>3. box' = AfterPull(box, Budget(s), AckDeadline, 0, now)
  BY DEF StreamPull
<1>4. /\ IsBox(box') /\ C \subseteq DOMAIN box'
      /\ DOMAIN box' = DOMAIN box \ Lapsed(box, Budget(s), 0, now)
      /\ HidesOnly(box', box, C)
  BY <1>1, <1>2, <1>3, PullBox, PullHides
<1>5. /\ batch' = [batch EXCEPT ![s] = bat] /\ pc' = [pc EXCEPT ![s] = "dropping"]
      /\ unchecked' = [unchecked EXCEPT ![s] = C] /\ stranded' = stranded \ C
  BY DEF StreamPull
<1>6. UNCHANGED <<now, seq, registryVars, acked, returns, sendable, outstanding, recv, unary, issued>>
  BY DEF StreamPull
<1> HIDE DEF C
<1>7. IsBox(bat) /\ DOMAIN bat = C
  BY <1>4 DEF IsBox
<1> HIDE DEF bat
<1>8. DOMAIN box' \subseteq DOMAIN box /\ C \subseteq 1..seq /\ AcksOnly(box', box, {})
  BY <1>1, <1>2, <1>3, <1>4, PullAcks DEF StreamInv, StreamTypeOK
<1>9. /\ DOMAIN batch' = Streams /\ \A r \in Streams : batch'[r] = IF r = s THEN bat ELSE batch[r]
      /\ unchecked'[s] = C
  BY <1>5, HandsShape
<1>10. pc'[s] = "dropping" /\ returns'[s] = {} /\ sendable'[s] = {} /\ DOMAIN batch'[s] = C
  BY <1>1, <1>5, <1>6, <1>7, <1>9, Known
<1>11. OnlyLoop(s)
  BY <1>5, <1>6, <1>9, <1>10, HandsShape DEF OnlyLoop
<1>12. LetsGo(s) /\ Hands(s)' \subseteq 1..seq
  BY <1>1, <1>8, <1>10 DEF LetsGo, Hands
<1>13. issued' \subseteq 1..seq /\ outstanding' \in [Streams -> SUBSET Ids]
  BY <1>6, Known, HandsShape
<1>14. stranded' \subseteq 1..seq /\ stranded \subseteq stranded' \cup DOMAIN batch'[s]
  BY <1>5, <1>10, HandsShape
<1>15. LoopOK(s)'
  BY <1>6, <1>7, <1>9, <1>10, <1>12, HandsShape DEF LoopOK
<1> QED
  BY <1>4, <1>6, <1>8, <1>10, <1>11, <1>12, <1>13, <1>14, <1>15, LoopInv

\* What a step of one send loop that leaves the store alone has to show.
LEMMA LoopQuietInv ==
    ASSUME StreamInv, NEW s \in Streams, OnlyLoop(s), LetsGo(s), LoopOK(s)',
           UNCHANGED <<now, seq, box, registryVars, recv, unary>>,
           outstanding' \in [Streams -> SUBSET Ids],
           issued \subseteq issued', issued' \subseteq 1..seq,
           stranded \subseteq stranded', stranded' \subseteq 1..seq
    PROVE  StreamInv'
<1>1. IsBox(box)
  BY HandsShape
<1>2. IsBox(box') /\ HidesOnly(box', box, DOMAIN batch'[s]) /\ AcksOnly(box', box, {})
  BY <1>1, HidesNothing, AcksNothing
<1> QED BY <1>2, LoopInv

\* The message dropAcked looks at next is one of those it has yet to look at.
LEMMA NextUncheckedIn ==
    ASSUME StreamInv, NEW s \in Streams, unchecked[s] # {}
    PROVE  NextUnchecked(s) \in unchecked[s]
<1> DEFINE b == [i \in unchecked[s] |-> batch[s][i]]
<1>1. IsBox(batch[s]) /\ unchecked[s] \subseteq DOMAIN batch[s]
  BY HandsShape DEF LoopOK
<1>2. IsBox(b) /\ DOMAIN b = unchecked[s]
  BY <1>1 DEF IsBox
<1>3. b # EmptyBox
  BY <1>2, EmptyBoxIsBox
<1> HIDE DEF b
<1>4. First(b) \in DOMAIN b
  BY <1>2, <1>3, FirstExists DEF First
<1> QED BY <1>2, <1>4 DEF NextUnchecked, b

\* StreamCheck and StreamListAcked leave the batch as it is.  What is listed as
\* acknowledged was sent.
LEMMA StreamCheckInv ==
    ASSUME StreamInv, NEW s \in Streams, StreamCheck(s)
    PROVE  StreamInv'
<1>1. UNCHANGED <<now, seq, box, registryVars, batch, acked, returns, sendable, outstanding, recv, unary, issued, stranded>>
  BY DEF StreamCheck
<1>2. pc[s] = "dropping" /\ unchecked[s] # {} /\ returns[s] = {} /\ LoopOK(s) /\ sendable[s] = {}
  BY HandsShape DEF StreamCheck
<1>3. \/ pc' = [pc EXCEPT ![s] = "tombstoned"] /\ unchecked' = unchecked
      \/ /\ unchecked' = [unchecked EXCEPT ![s] = unchecked[s] \ {NextUnchecked(s)}]
         /\ pc' = pc
  BY DEF StreamCheck
<1>4. \/ pc'[s] = "tombstoned" /\ unchecked'[s] = unchecked[s]
      \/ pc'[s] = "dropping" /\ unchecked'[s] \subseteq unchecked[s]
  BY <1>2, <1>3, Known, HandsShape
<1>5. Hands(s)' = Hands(s)
  BY <1>1 DEF Hands
<1>6. LoopOK(s)'
  BY <1>1, <1>2, <1>4, <1>5 DEF LoopOK
<1>7. OnlyLoop(s)
  <2>1. pc' = [pc EXCEPT ![s] = pc'[s]] /\ unchecked' = [unchecked EXCEPT ![s] = unchecked'[s]]
    BY <1>3, Known, HandsShape
  <2> QED BY <1>1, <2>1, HandsShape DEF OnlyLoop
<1>8. LetsGo(s)
  BY <1>5 DEF LetsGo
<1> QED BY <1>1, <1>6, <1>7, <1>8, Known, HandsShape, LoopQuietInv

LEMMA StreamListAckedInv ==
    ASSUME StreamInv, NEW s \in Streams, StreamListAcked(s)
    PROVE  StreamInv'
<1> DEFINE a == [listed |-> TRUE, ids |-> {i \in DOMAIN box : box[i].acked}]
<1>1. UNCHANGED <<now, seq, box, registryVars, pc, batch, unchecked, returns, sendable, outstanding, recv, unary, issued, stranded>>
  BY DEF StreamListAcked
<1>2. acked' = [acked EXCEPT ![s] = a]
  BY DEF StreamListAcked
<1>3. a \in [listed : BOOLEAN, ids : SUBSET Ids] /\ a.ids \subseteq issued
  BY DEF StreamInv, StreamTypeOK, IsBox, AckedOK
<1> HIDE DEF a
<1>4. acked'[s] = a /\ LoopOK(s)
  BY <1>2, HandsShape
<1>5. Hands(s)' = Hands(s)
  BY <1>1 DEF Hands
<1>6. LoopOK(s)'
  BY <1>1, <1>3, <1>4, <1>5 DEF LoopOK
<1>7. OnlyLoop(s)
  BY <1>1, <1>2, <1>4, HandsShape DEF OnlyLoop
<1>8. LetsGo(s)
  BY <1>5 DEF LetsGo
<1> QED BY <1>1, <1>6, <1>7, <1>8, Known, HandsShape, LoopQuietInv

\* StreamDropAcked: the message is going to be made visible, or it was sent.
LEMMA StreamDropInv ==
    ASSUME StreamInv, NEW s \in Streams, StreamDropAcked(s)
    PROVE  StreamInv'
<1> DEFINE i == NextUnchecked(s)
           bat == AfterRemove(batch[s], {i})
           ret == {i} \ acked[s].ids
<1>1. /\ IsBox(batch[s]) /\ returns[s] = {} /\ sendable[s] = {} /\ unchecked[s] # {}
      /\ Hands(s) \subseteq 1..seq /\ LoopOK(s)
  BY HandsShape DEF StreamDropAcked, LoopOK
<1>2. i \in unchecked[s] /\ i \in DOMAIN batch[s]
  BY <1>1, NextUncheckedIn DEF LoopOK
<1>3. IsBox(bat) /\ DOMAIN bat = DOMAIN batch[s] \ {i}
  BY <1>1, RemoveBox
<1>4. /\ batch' = [batch EXCEPT ![s] = bat] /\ pc' = [pc EXCEPT ![s] = "dropping"]
      /\ returns' = [returns EXCEPT ![s] = ret]
      /\ unchecked' = [unchecked EXCEPT ![s] = unchecked[s] \ {i}]
  BY DEF StreamDropAcked
<1>5. UNCHANGED <<now, seq, box, registryVars, acked, sendable, outstanding, recv, unary, issued, stranded>>
  BY DEF StreamDropAcked
<1>6. acked[s].ids \subseteq issued /\ ret \subseteq {i} /\ (i \in ret \/ i \in issued)
  BY <1>1 DEF LoopOK
<1> HIDE DEF bat, ret, i
<1>7. DOMAIN batch' = Streams /\ \A r \in Streams : batch'[r] = IF r = s THEN bat ELSE batch[r]
  BY <1>4, HandsShape
<1>8. /\ pc'[s] = "dropping" /\ returns'[s] = ret /\ sendable'[s] = {}
      /\ batch'[s] = bat /\ unchecked'[s] = unchecked[s] \ {i} /\ acked'[s] = acked[s]
  BY <1>1, <1>4, <1>5, <1>7, HandsShape, Known DEF StreamInv, StreamTypeOK
<1>9. OnlyLoop(s)
  BY <1>4, <1>5, <1>7, <1>8, HandsShape DEF OnlyLoop
<1>10. LetsGo(s)
  BY <1>1, <1>3, <1>5, <1>6, <1>8 DEF LetsGo, Hands
<1>11. Hands(s)' \subseteq 1..seq
  BY <1>1, <1>2, <1>3, <1>6, <1>8 DEF Hands
<1>12. LoopOK(s)'
  BY <1>1, <1>3, <1>5, <1>8, <1>11 DEF LoopOK
<1> QED BY <1>5, <1>9, <1>10, <1>12, Known, HandsShape, LoopQuietInv

\* StreamBuild goes on with all of the batch; StreamBuildFails strands it.
LEMMA StreamBuildInv ==
    ASSUME StreamInv, NEW s \in Streams, StreamBuild(s) \/ StreamBuildFails(s)
    PROVE  StreamInv'
<1>1. /\ pc[s] = "dropping" /\ returns[s] = {} /\ unchecked[s] = {} /\ sendable[s] = {}
      /\ LoopOK(s) /\ Hands(s) \subseteq 1..seq
  BY HandsShape DEF StreamBuild, StreamBuildFails, Checked
<1>2. UNCHANGED <<now, seq, box, registryVars, unchecked, returns, sendable, recv, unary, issued>>
  BY DEF StreamBuild, StreamBuildFails
<1>3. acked' = [acked EXCEPT ![s] = NotListed]
  BY DEF StreamBuild, StreamBuildFails
<1>4. /\ NotListed \in [listed : BOOLEAN, ids : SUBSET Ids] /\ NotListed.ids = {}
      /\ acked'[s] = NotListed
  BY <1>3, HandsShape DEF NotListed
<1>5. \/ /\ pc' = [pc EXCEPT ![s] = "reserving"] /\ batch' = batch
         /\ stranded' = stranded /\ outstanding' = outstanding
      \/ /\ pc' = [pc EXCEPT ![s] = "closed"] /\ batch' = [batch EXCEPT ![s] = EmptyBox]
         /\ stranded' = stranded \cup DOMAIN batch[s]
         /\ outstanding' = [outstanding EXCEPT ![s] = {}]
  BY DEF StreamBuild, StreamBuildFails
<1>6. \/ pc'[s] = "reserving" /\ batch'[s] = batch[s]
      \/ pc'[s] = "closed" /\ batch'[s] = EmptyBox /\ stranded' = stranded \cup DOMAIN batch[s]
  BY <1>5, Known, HandsShape
<1>7. OnlyLoop(s)
  <2>1. DOMAIN batch' = Streams /\ \A r \in Streams \ {s} : batch'[r] = batch[r]
    BY <1>5, HandsShape
  <2>2. pc' = [pc EXCEPT ![s] = pc'[s]]
    BY <1>5, Known
  <2> QED BY <1>2, <1>3, <1>4, <2>1, <2>2, HandsShape DEF OnlyLoop
<1>8. IsBox(batch'[s]) /\ DOMAIN batch'[s] \subseteq DOMAIN batch[s]
      /\ (pc'[s] = "closed" => DOMAIN batch'[s] = {})
  BY <1>1, <1>6, EmptyBoxIsBox DEF LoopOK
<1>9. LetsGo(s) /\ Hands(s)' \subseteq 1..seq
  BY <1>1, <1>2, <1>6, <1>8 DEF LetsGo, Hands
<1>10. /\ outstanding' \in [Streams -> SUBSET Ids]
       /\ stranded \subseteq stranded' /\ stranded' \subseteq 1..seq
  BY <1>1, <1>5, Known, HandsShape DEF Hands
<1>11. LoopOK(s)'
  BY <1>1, <1>2, <1>4, <1>6, <1>8, <1>9 DEF LoopOK
<1> QED BY <1>2, <1>7, <1>9, <1>10, <1>11, HandsShape, LoopQuietInv

\* StreamReturn: the message is visible again.
LEMMA StreamReturnInv ==
    ASSUME StreamInv, NEW s \in Streams, NEW i \in returns[s], StreamReturn(s, i)
    PROVE  StreamInv'
<1>1. /\ IsBox(batch[s]) /\ IsBox(box) /\ now \in Nat
      /\ Hands(s) \subseteq 1..seq /\ pc[s] \in {"dropping", "reserving"} /\ LoopOK(s)
  BY Known, HandsShape
<1>2. box' = AfterModAck(box, i, 0, now) /\ returns' = [returns EXCEPT ![s] = @ \ {i}]
  BY DEF StreamReturn
<1>3. UNCHANGED <<now, seq, registryVars, pc, batch, unchecked, acked, sendable, outstanding, recv, unary, issued, stranded>>
  BY DEF StreamReturn, dropVars
<1>4. IsBox(box') /\ DOMAIN box' = DOMAIN box
  BY <1>1, <1>2, ModAckShape
<1>5. HidesOnly(box', box, {}) /\ AcksOnly(box', box, {})
  BY <1>1, <1>2, ModAckHides, ModAckAcks
<1>6. i \in DOMAIN box' => box'[i].visibleAt = 0
  <2>1. SUFFICES ASSUME i \in DOMAIN box PROVE AfterNack(box, i)[i].visibleAt = 0
    BY <1>2, <1>4 DEF AfterModAck
  <2>2. box[i] \in Messages
    BY <1>1, <2>1 DEF IsBox
  <2>3. AfterNack(box, i)[i] = [box[i] EXCEPT !.acked = FALSE, !.held = FALSE, !.visibleAt = 0]
    BY <2>1 DEF AfterNack, Redelivered
  <2> QED BY <2>2, <2>3 DEF Messages
<1>7. /\ pc'[s] = pc[s] /\ returns'[s] = returns[s] \ {i}
      /\ sendable'[s] = sendable[s] /\ batch'[s] = batch[s]
  BY <1>1, <1>2, <1>3 DEF StreamInv, StreamTypeOK
<1>8. OnlyLoop(s)
  BY <1>2, <1>3, <1>7, HandsShape DEF OnlyLoop
<1>9. LetsGo(s) /\ Hands(s)' \subseteq 1..seq
  BY <1>1, <1>6, <1>7 DEF LetsGo, Hands
<1>10. issued' \subseteq 1..seq /\ outstanding' \in [Streams -> SUBSET Ids]
  BY <1>3, Known, HandsShape
<1>11. HidesOnly(box', box, DOMAIN batch'[s])
  BY <1>5 DEF HidesOnly
<1>12. LoopOK(s)'
  BY <1>1, <1>3, <1>7, <1>9 DEF LoopOK
<1> QED
  BY <1>3, <1>4, <1>5, <1>8, <1>9, <1>10, <1>11, <1>12, HandsShape, LoopInv

\* StreamReserve: the first message of the batch is going to be sent or returned.
LEMMA StreamReserveInv ==
    ASSUME StreamInv, NEW s \in Streams, StreamReserve(s)
    PROVE  StreamInv'
<1> DEFINE f == First(batch[s])
<1>1. /\ IsBox(batch[s]) /\ IsBox(box) /\ batch[s] # EmptyBox
      /\ Hands(s) \subseteq 1..seq /\ pc[s] = "reserving" /\ returns[s] = {} /\ LoopOK(s)
  BY HandsShape DEF StreamReserve
<1>2. f \in DOMAIN batch[s]
  BY <1>1, FirstExists DEF First
<1>3. f \in 1..seq /\ f \in Ids
  BY <1>1, <1>2 DEF Hands, IsBox
<1>4. IsBox(Rest(batch[s])) /\ DOMAIN Rest(batch[s]) = DOMAIN batch[s] \ {f}
  BY <1>1, RemoveBox DEF Rest
<1>5. UNCHANGED <<now, seq, box, registryVars, pc, unchecked, acked, recv, unary, issued, stranded>>
  BY DEF StreamReserve, dropVars
<1>6. batch' = [batch EXCEPT ![s] = Rest(batch[s])]
  BY DEF StreamReserve
<1>7. \/ /\ outstanding' = [outstanding EXCEPT ![s] = @ \cup {f}]
         /\ sendable' = [sendable EXCEPT ![s] = @ \cup {f}]
         /\ returns' = returns
      \/ /\ returns' = [returns EXCEPT ![s] = {f}]
         /\ outstanding' = outstanding /\ sendable' = sendable
  BY DEF StreamReserve
<1> HIDE DEF f
<1>8. batch'[s] = Rest(batch[s]) /\ DOMAIN batch' = Streams /\ pc'[s] = "reserving"
  BY <1>1, <1>5, <1>6, HandsShape
<1>9. returns'[s] \cup sendable'[s] = sendable[s] \cup {f}
  BY <1>1, <1>7 DEF StreamInv, StreamTypeOK
<1>10. OnlyLoop(s)
  <2>1. \A r \in Streams \ {s} : batch'[r] = batch[r]
    BY <1>6, HandsShape
  <2>2. /\ returns' = [returns EXCEPT ![s] = returns'[s]]
        /\ sendable' = [sendable EXCEPT ![s] = sendable'[s]]
    BY <1>7, HandsShape DEF StreamInv, StreamTypeOK
  <2>3. pc' = [pc EXCEPT ![s] = pc'[s]]
    BY <1>5, HandsShape
  <2> QED BY <1>5, <1>8, <2>1, <2>2, <2>3, HandsShape DEF OnlyLoop
<1>11. Hands(s)' = Hands(s)
  BY <1>1, <1>2, <1>4, <1>8, <1>9 DEF Hands
<1>12. LetsGo(s) /\ Hands(s)' \subseteq 1..seq
  BY <1>1, <1>11 DEF LetsGo
<1>13. outstanding' \in [Streams -> SUBSET Ids]
  BY <1>3, <1>7, Known
<1>14. LoopOK(s)'
  BY <1>1, <1>4, <1>5, <1>8, <1>12 DEF LoopOK
<1> QED
  BY <1>5, <1>10, <1>12, <1>13, <1>14, HandsShape, LoopQuietInv

\* StreamSend and StreamSendFails: what was to be sent may have got to a client.
LEMMA StreamSendInv ==
    ASSUME StreamInv, NEW s \in Streams, StreamSend(s) \/ StreamSendFails(s)
    PROVE  StreamInv'
<1>1. /\ IsBox(batch[s]) /\ IsBox(box) /\ batch[s] = EmptyBox /\ returns[s] = {}
      /\ Hands(s) \subseteq 1..seq /\ pc[s] = "reserving" /\ LoopOK(s)
  BY HandsShape DEF StreamSend, StreamSendFails, Handled
<1>2. DOMAIN batch[s] = {}
  BY <1>1, EmptyBoxIsBox
<1>3. UNCHANGED <<now, seq, box, registryVars, batch, unchecked, acked, returns, recv, unary, stranded>>
  BY DEF StreamSend, StreamSendFails, dropVars
<1>4. /\ issued' = issued \cup sendable[s] /\ sendable' = [sendable EXCEPT ![s] = {}]
      /\ \/ pc' = [pc EXCEPT ![s] = "top"] \/ pc' = [pc EXCEPT ![s] = "closed"]
  BY DEF StreamSend, StreamSendFails
<1>5. outstanding' \in [Streams -> SUBSET Ids]
  BY Known DEF StreamSend, StreamSendFails
<1>6. pc'[s] \in {"top", "closed"} /\ sendable'[s] = {}
  BY <1>4 DEF StreamInv, StreamTypeOK
<1>7. OnlyLoop(s)
  <2>1. DOMAIN batch' = Streams /\ \A r \in Streams \ {s} : batch'[r] = batch[r]
    BY <1>3, HandsShape
  <2>2. returns' = [returns EXCEPT ![s] = returns'[s]]
    BY <1>3, HandsShape
  <2>3. pc' = [pc EXCEPT ![s] = pc'[s]]
    BY <1>4 DEF StreamInv, StreamTypeOK
  <2> QED BY <1>3, <1>4, <1>6, <2>1, <2>2, <2>3, HandsShape DEF OnlyLoop
<1>8. Hands(s)' = {} /\ Hands(s) = sendable[s]
  BY <1>1, <1>2, <1>3, <1>6 DEF Hands
<1>9. LetsGo(s)
  BY <1>4, <1>8 DEF LetsGo
<1>10. issued' \subseteq 1..seq /\ issued \subseteq issued'
  BY <1>1, <1>4, <1>8, HandsShape
<1>11. LoopOK(s)'
  BY <1>1, <1>2, <1>3, <1>6, <1>8, <1>10 DEF LoopOK
<1> QED
  BY <1>3, <1>5, <1>7, <1>9, <1>10, <1>11, HandsShape, LoopQuietInv

LEMMA StreamNextInv == StreamInv /\ [StreamNext]_vars => StreamInv'
<1> SUFFICES ASSUME StreamInv, [StreamNext]_vars PROVE StreamInv'
  OBVIOUS
<1>1. CASE UNCHANGED vars
  BY <1>1 DEF vars, registryVars, sendVars, dropVars, StreamInv, StreamTypeOK, KnownOK, HandsOK,
              DropOK, AckedOK, HiddenIsHeld
<1>2. CASE Tick \/ Registry \/ AcknowledgeMark
  BY <1>2, TickInv, RegistryInv, AcknowledgeMarkInv
<1>3. CASE \E k \in Published : Publish(k)
  BY <1>3, StreamPublishInv
<1>4. ASSUME NEW s \in Streams,
             \/ StreamOpen(s) \/ StreamClose(s) \/ StreamBuildFails(s) \/ StreamSendFails(s)
             \/ SendLoop(s) \/ RecvLoop(s)
      PROVE  StreamInv'
  BY <1>4, OpenCloseInv, StreamSendInv, RecvLoopInv, StreamPullInv, StreamCheckInv,
     StreamListAckedInv, StreamDropInv, StreamBuildInv, StreamReturnInv, StreamReserveInv DEF SendLoop
<1>5. ASSUME NEW i \in issued, Acknowledge(i) \/ \E s \in Streams : StreamAck(s, i)
      PROVE  StreamInv'
  BY <1>5, AckInv
<1>6. ASSUME NEW i \in issued, NEW d \in Extensions,
             ModifyAckDeadline(i, d) \/ \E s \in Streams : StreamModAck(s, i, d)
      PROVE  StreamInv'
  BY <1>6, ModAckInv
<1> QED BY <1>1, <1>2, <1>3, <1>4, <1>5, <1>6 DEF StreamNext

-----------------------------------------------------------------------------
(* The theorems *)

\* The inductive invariant, for any number of streams and any limits.
THEOREM StreamInvariant == StreamSpec => []StreamInv
BY StreamInitInv, StreamNextInv, PTL DEF StreamSpec

\* Every variable of the streams and of the registry has its type in every
\* reachable state.
THEOREM StreamTypes == StreamSpec => []StreamTypeOK
<1>1. StreamInv => StreamTypeOK
  BY DEF StreamInv
<1> QED BY <1>1, StreamInvariant, PTL

\* A claimed message is not forgotten: while it is hidden and unacknowledged, a
\* send loop is still to send it or to make it visible again (service.go
\* StreamingPull, dropAcked, reserve), or it was sent, or the stream that had
\* claimed it ended because buildReceivedMessages failed.
THEOREM HiddenMessagesHeld == StreamSpec => []HiddenIsHeld
<1>1. StreamInv => HiddenIsHeld
  BY DEF StreamInv
<1> QED BY <1>1, StreamInvariant, PTL
=============================================================================
