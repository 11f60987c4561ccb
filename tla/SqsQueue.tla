------------------------------ MODULE SqsQueue ------------------------------
(***************************************************************************)
(* The message operations of the SQS provider                              *)
(* (internal/aws/provider/queue/{queue,waiters}.go) on a queue with a      *)
(* dead-letter queue.  Every call into the store is a step of its own: a   *)
(* ReceiveMessage reads the clock, takes messages, and then hides or moves *)
(* them one by one, and other handlers run in between.                     *)
(*                                                                         *)
(* now is the emulated clock.  A message id is sent at most once.          *)
(***************************************************************************)
EXTENDS SqsStore

CONSTANTS
    Consumers,
    Fifo,           \* IsFifo of both queues
    GroupScope,     \* MessageDeduplicationScope is messageGroup
    QueueDelay,     \* DelaySeconds of the queue
    Delays,         \* the DelaySeconds requests carry
    BatchDelays,    \* the DelaySeconds entries of a batch carry
    VisTimeout,     \* VisibilityTimeout of the queue
    Timeouts,       \* the timeouts ChangeMessageVisibility is called with
    Waits,          \* the WaitTimeSeconds requests carry, 0 for a short poll
    MaxMessages,    \* MaxNumberOfMessages
    MaxReceives,    \* maxReceiveCount of the redrive policy
    Frozen,         \* the emulated clock is frozen
    MaxTime         \* bound: the clock stops there

ASSUME SqsQueueAssumption ==
    /\ {Fifo, GroupScope, Frozen} \subseteq BOOLEAN
    /\ {QueueDelay, VisTimeout} \subseteq Nat
    /\ Delays \cup BatchDelays \cup Timeouts \cup Waits \subseteq Nat
    /\ {MaxMessages, MaxReceives, MaxTime} \subseteq Nat \ {0}

Queues == {"source", "dlq"}

VARIABLES
    now,
    box,        \* the messages of each queue
    next,       \* the next arrival number
    dedup,      \* the dedup map of each queue
    pending,    \* a sender has yet to call Notify
    pc,         \* where each consumer's ReceiveMessage is
    asked,      \* the time it captured before it called the store
    deadline,   \* of its long poll, 0 for a short poll
    woken,      \* its channel holds a signal
    got,        \* its copies of the messages it has still to handle
    inbox,      \* the handles its client was given, and until when
    fate        \* history: what became of each message id

pollVars == <<pc, asked, deadline, woken, got>>
vars == <<now, box, next, dedup, pending, pollVars, inbox, fate>>

\* What a client knows of a message it received; until = 0 for a lease it gave up.
Leases == [id : MessageIds, handle : Nat \X Nat, until : Nat]

BoxTypeOK ==
    /\ next \in Nat
    /\ DOMAIN box = Queues
    /\ \A q \in Queues : IsQueue(box[q]) /\ \A i \in DOMAIN box[q] : i < next

PollTypeOK ==
    /\ pc \in [Consumers -> {"idle", "polling", "empty", "waiting", "handling", "moving"}]
    /\ asked \in [Consumers -> Nat] /\ deadline \in [Consumers -> Nat]
    /\ woken \in [Consumers -> BOOLEAN]
    /\ DOMAIN got = Consumers /\ \A c \in Consumers : IsQueue(got[c])

SqsTypeOK ==
    /\ BoxTypeOK /\ PollTypeOK
    /\ now \in 1..MaxTime /\ pending \in BOOLEAN
    /\ dedup \in [Queues -> [DedupKeys -> Nat]]
    /\ inbox \in [Consumers -> SUBSET Leases]
    /\ fate \in [MessageIds -> {"new", "duplicate", "accepted", "done"}]

SqsInit ==
    /\ now = 1 /\ next = 0 /\ pending = FALSE
    /\ box = [q \in Queues |-> EmptyQueue]
    /\ dedup = [q \in Queues |-> [k \in DedupKeys |-> 0]]
    /\ pc = [c \in Consumers |-> "idle"]
    /\ asked = [c \in Consumers |-> 0] /\ deadline = [c \in Consumers |-> 0]
    /\ woken = [c \in Consumers |-> FALSE]
    /\ got = [c \in Consumers |-> EmptyQueue]
    /\ inbox = [c \in Consumers |-> {}]
    /\ fate = [m \in MessageIds |-> "new"]

-----------------------------------------------------------------------------
(* Sending *)

\* Mutant of StoreSend: the slice does not grow.
StoreSendInPlace(q, m) ==
    /\ dedup' = [dedup EXCEPT ![q] = AfterDedup(@, m, GroupScope, now)]
    /\ box' = [box EXCEPT ![q] = AfterSend(@, next, m, now)]
    /\ UNCHANGED next

\* store.Send: a duplicate is swallowed.
StoreSend(q, m) ==
    IF Duplicate(dedup[q], m, GroupScope, now)
    THEN UNCHANGED <<box, next, dedup>>
    ELSE /\ dedup' = [dedup EXCEPT ![q] = AfterDedup(@, m, GroupScope, now)]
         /\ box' = [box EXCEPT ![q] = AfterSend(@, next, m, now)]
         /\ next' = next + 1

NewMessage(id, g, k, delay) ==
    [id |-> id, group |-> g, dedup |-> k, sentAt |-> now, visibleAt |-> 0,
     delayUntil |-> IF delay = 0 THEN 0 ELSE now + delay, count |-> 0]

\* A FIFO queue wants a MessageGroupId.  Its MessageDeduplicationId may be the
\* empty string, or missing if ContentBasedDeduplication is on.
GroupAllowed(g) == Fifo => g # NoGroup

Accept(id, g, k, delay) ==
    /\ fate[id] = "new" /\ GroupAllowed(g)
    /\ StoreSend("source", NewMessage(id, g, k, delay))
    /\ fate' = [fate EXCEPT ![id] = IF next' = next THEN "duplicate" ELSE "accepted"]
    /\ pending' = TRUE
    /\ UNCHANGED <<now, pollVars, inbox>>

\* Without DelaySeconds in the request, the delay is the queue's; a FIFO queue
\* refuses a positive one.
SendMessage(id, g, k, delay) ==
    /\ delay = QueueDelay \/ (delay \in Delays /\ (Fifo => delay = 0))
    /\ Accept(id, g, k, delay)

\* One entry of a batch.  Only the entry's own DelaySeconds counts, and it
\* counts on a FIFO queue too.
SendMessageBatch(id, g, k, delay) ==
    /\ delay \in BatchDelays
    /\ Accept(id, g, k, delay)

\* waiters.Notify, after a Send or at the end of a batch.
Notify ==
    /\ pending
    /\ pending' = FALSE
    /\ woken' = [c \in Consumers |-> pc[c] = "waiting"]
    /\ UNCHANGED <<now, box, next, dedup, pc, asked, deadline, got, inbox, fate>>

-----------------------------------------------------------------------------
(* ReceiveMessage *)

\* ReceiveMessage returns.
Return(c) ==
    /\ pc' = [pc EXCEPT ![c] = "idle"]
    /\ asked' = [asked EXCEPT ![c] = 0]
    /\ deadline' = [deadline EXCEPT ![c] = 0]
    /\ woken' = [woken EXCEPT ![c] = FALSE]

ReceiveBegin(c, wait) ==
    /\ pc[c] = "idle" /\ now + wait <= MaxTime
    /\ pc' = [pc EXCEPT ![c] = "polling"]
    /\ asked' = [asked EXCEPT ![c] = now]
    /\ deadline' = [deadline EXCEPT ![c] = IF wait = 0 THEN 0 ELSE now + wait]
    /\ UNCHANGED <<now, box, next, dedup, pending, woken, got, inbox, fate>>

LongPoll(c) == deadline[c] # 0

\* The time handed to store.Receive: a long poll reads the clock again.
ReceiveTime(c) == IF LongPoll(c) THEN now ELSE asked[c]

Available(c) == Picked(box["source"], MaxMessages, ReceiveTime(c))

ReceiveSome(c) ==
    /\ pc[c] = "polling" /\ Available(c) # {}
    /\ box' = [box EXCEPT !["source"] = AfterReceive(@, MaxMessages, ReceiveTime(c))]
    /\ got' = [got EXCEPT ![c] = [i \in Available(c) |-> box'["source"][i]]]
    /\ pc' = [pc EXCEPT ![c] = "handling"]
    /\ UNCHANGED <<now, next, dedup, pending, asked, deadline, woken, inbox, fate>>

ReceiveNone(c) ==
    /\ pc[c] = "polling" /\ Available(c) = {}
    /\ IF LongPoll(c)
          THEN pc' = [pc EXCEPT ![c] = "empty"] /\ UNCHANGED <<asked, deadline, woken>>
          ELSE Return(c)
    /\ UNCHANGED <<now, box, next, dedup, pending, got, inbox, fate>>

\* Mutant of Register: every turn of the loop waits for the whole window.
RegisterRestarts(c) ==
    /\ pc[c] = "empty"
    /\ pc' = [pc EXCEPT ![c] = "waiting"]
    /\ deadline' = [deadline EXCEPT ![c] = now + deadline[c] - asked[c]]
    /\ UNCHANGED <<now, box, next, dedup, pending, asked, woken, got, inbox, fate>>

\* WaitForMessages found nothing: it gives up at its deadline, else it makes a
\* channel, registers it and starts a timer.
Register(c) ==
    /\ pc[c] = "empty"
    /\ IF now >= deadline[c]
          THEN Return(c)
          ELSE pc' = [pc EXCEPT ![c] = "waiting"] /\ UNCHANGED <<asked, deadline, woken>>
    /\ UNCHANGED <<now, box, next, dedup, pending, got, inbox, fate>>

\* The channel or the timer fires.  The timer runs in real time: under a frozen
\* clock it fires although the emulated deadline has not come.
WaitEnds(c) ==
    /\ pc[c] = "waiting"
    /\ woken[c] \/ Frozen \/ now >= deadline[c]
    /\ pc' = [pc EXCEPT ![c] = "polling"]
    /\ woken' = [woken EXCEPT ![c] = FALSE]
    /\ UNCHANGED <<now, box, next, dedup, pending, asked, deadline, got, inbox, fate>>

\* The client hangs up during its long poll.
HangUp(c) ==
    /\ pc[c] = "waiting"
    /\ Return(c)
    /\ UNCHANGED <<now, box, next, dedup, pending, got, inbox, fate>>

\* The loop over the messages received, in the order of the slice.
First(c, i) == i \in DOMAIN got[c] /\ \A j \in DOMAIN got[c] : i <= j
Exhausted(c, i) == got[c][i].count > MaxReceives
Handled(c, i) == [got EXCEPT ![c] = Without(@, {i})]

DeadLetter(m) == [m EXCEPT !.visibleAt = 0, !.delayUntil = 0, !.count = 0]

\* checkDLQ sends a copy to the dead-letter queue and ignores the answer ...
DlqSend(c, i) ==
    /\ pc[c] = "handling" /\ First(c, i) /\ Exhausted(c, i)
    /\ StoreSend("dlq", DeadLetter(got[c][i]))
    /\ pc' = [pc EXCEPT ![c] = "moving"]
    /\ UNCHANGED <<now, pending, asked, deadline, woken, got, inbox, fate>>

\* ... and then deletes the message from the source queue.
DlqDelete(c, i) ==
    /\ pc[c] = "moving" /\ First(c, i)
    /\ box' = [box EXCEPT !["source"] = AfterDelete(@, Handle(got[c], i))]
    /\ got' = Handled(c, i)
    /\ pc' = [pc EXCEPT ![c] = "handling"]
    /\ UNCHANGED <<now, next, dedup, pending, asked, deadline, woken, inbox, fate>>

\* A message that is delivered is hidden from the time captured at the start.
Hide(c, i) ==
    /\ pc[c] = "handling" /\ First(c, i) /\ ~Exhausted(c, i)
    /\ box' = [box EXCEPT !["source"] =
                  AfterChangeVisibility(@, Handle(got[c], i), VisTimeout, asked[c])]
    /\ inbox' = [inbox EXCEPT ![c] = @ \cup
                    {[id |-> got[c][i].id, handle |-> Handle(got[c], i),
                      until |-> asked[c] + VisTimeout]}]
    /\ got' = Handled(c, i)
    /\ UNCHANGED <<now, next, dedup, pending, pc, asked, deadline, woken, fate>>

Answer(c) ==
    /\ pc[c] = "handling" /\ got[c] = EmptyQueue
    /\ Return(c)
    /\ UNCHANGED <<now, box, next, dedup, pending, got, inbox, fate>>

-----------------------------------------------------------------------------
(* The other operations *)

\* A client may use a handle long after its lease has ended.
DeleteMessage(c, l) ==
    /\ pc[c] = "idle" /\ l \in inbox[c]
    /\ box' = [box EXCEPT !["source"] = AfterDelete(@, l.handle)]
    /\ fate' = IF Current(box["source"], l.handle)
               THEN [fate EXCEPT ![l.id] = "done"]
               ELSE fate
    /\ inbox' = [inbox EXCEPT ![c] = @ \ {l}]
    /\ UNCHANGED <<now, next, dedup, pending, pollVars>>

ChangeMessageVisibility(c, l, timeout) ==
    /\ pc[c] = "idle" /\ l \in inbox[c]
    /\ box' = [box EXCEPT !["source"] = AfterChangeVisibility(@, l.handle, timeout, now)]
    /\ inbox' = [inbox EXCEPT ![c] = (@ \ {l}) \cup
                    {[l EXCEPT !.until = IF Current(box["source"], l.handle) /\ timeout # 0
                                         THEN now + timeout ELSE 0]}]
    /\ UNCHANGED <<now, next, dedup, pending, pollVars, fate>>

Ended(q, gone) ==
    [m \in MessageIds |-> IF \E i \in gone : box[q][i].id = m THEN "done" ELSE fate[m]]

PurgeQueue(q) ==
    /\ box[q] # EmptyQueue
    /\ box' = [box EXCEPT ![q] = EmptyQueue]
    /\ fate' = Ended(q, DOMAIN box[q])
    /\ UNCHANGED <<now, next, dedup, pending, pollVars, inbox>>

\* A turn of the retention worker, here for one queue.
RemoveExpired(q) ==
    /\ AfterSweep(box[q], now) # box[q]
    /\ box' = [box EXCEPT ![q] = AfterSweep(@, now)]
    /\ fate' = Ended(q, DOMAIN box[q] \ DOMAIN box'[q])
    /\ UNCHANGED <<now, next, dedup, pending, pollVars, inbox>>

\* Scheduling assumption: from the time it hands to store.Receive to its last
\* ChangeVisibility, a handler takes less than the 30 seconds of Receive.
Prompt(c) ==
    /\ pc[c] = "polling" /\ ~LongPoll(c) => now + 1 < asked[c] + TempVisibility
    /\ \A i \in DOMAIN got[c] : now + 1 < got[c][i].visibleAt

Tick ==
    /\ ~Frozen /\ now < MaxTime
    /\ \A c \in Consumers : Prompt(c)
    /\ now' = now + 1
    /\ UNCHANGED <<box, next, dedup, pending, pollVars, inbox, fate>>

-----------------------------------------------------------------------------

Send == \E id \in MessageIds, g \in Groups \cup {NoGroup}, k \in DedupIds \cup {NoDedup} :
            \/ \E delay \in Delays \cup {QueueDelay} : SendMessage(id, g, k, delay)
            \/ \E delay \in BatchDelays : SendMessageBatch(id, g, k, delay)

Receive(c) == \/ ReceiveSome(c) \/ ReceiveNone(c)
              \/ Register(c) \/ WaitEnds(c)
              \/ \E i \in DOMAIN got[c] : DlqSend(c, i) \/ DlqDelete(c, i) \/ Hide(c, i)
              \/ Answer(c)

Client(c) == \/ \E wait \in Waits : ReceiveBegin(c, wait)
             \/ HangUp(c)
             \/ \E l \in inbox[c] : \/ DeleteMessage(c, l)
                                    \/ \E t \in Timeouts : ChangeMessageVisibility(c, l, t)

SqsNext ==
    \/ Send \/ Notify
    \/ \E c \in Consumers : Receive(c) \/ Client(c)
    \/ \E q \in Queues : PurgeQueue(q) \/ RemoveExpired(q)
    \/ Tick

SqsSpec == SqsInit /\ [][SqsNext]_vars

\* Handlers and senders run to their end, and the clock runs unless it is
\* frozen.  Nobody has to send, ask, hang up or purge.
SqsFairness ==
    /\ WF_vars(Notify) /\ WF_vars(Tick)
    /\ \A c \in Consumers : WF_vars(Receive(c))

SqsFairSpec == SqsSpec /\ SqsFairness

-----------------------------------------------------------------------------
(* Properties *)

\* A message of a group was handed out before an earlier message of the group
\* that is still in the queue only if that one was sent with a delay: Receive
\* skips a group one of whose messages is in flight.
GroupHeadOnly == \A q \in Queues : InGroupOrder(box[q])

InSomeQueue(id) == \E q \in Queues : \E i \in DOMAIN box[q] : box[q][i].id = id

\* An accepted message stays in the queue or its dead-letter queue until a
\* consumer deletes it, the queue is purged or it expires: checkDLQ sends the
\* copy before it deletes the original.
NothingLost == \A id \in MessageIds : fate[id] = "accepted" => InSomeQueue(id)

\* Until its lease ends a consumer alone holds the message: unless the queue
\* was purged or the message expired it is still in the queue and hidden, and
\* the consumer's handle is the current one, whatever older handles the other
\* consumers use.
LeaseHonoured ==
    \A c \in Consumers : \A l \in inbox[c] :
        now < l.until /\ fate[l.id] = "accepted"
                      => /\ Current(box["source"], l.handle)
                         /\ InFlight(box["source"][l.handle[1]], now)

\* Every ReceiveMessage is answered: the long poll keeps the deadline it
\* started with however often it is woken for messages others take.
PollEnds == \A c \in Consumers : pc[c] # "idle" ~> pc[c] = "idle"

=============================================================================
