------------------------------ MODULE SqsStore ------------------------------
(***************************************************************************)
(* The operations of the in-memory SQS message store                       *)
(* (internal/aws/store/sqs/memory.go) on the contents of one queue.  Each  *)
(* runs under the store's mutex and is therefore one operator here.        *)
(*                                                                         *)
(* A queue is a slice that grows at its end and shrinks anywhere.  It is   *)
(* represented as a function from arrival numbers to messages: the order   *)
(* of the slice is the order of the arrival numbers.  A receipt handle is  *)
(* drawn afresh by Send and by every Receive; it is represented as the     *)
(* pair of arrival number and receive count, which repeats as little.      *)
(***************************************************************************)
EXTENDS Integers, FiniteSets

CONSTANTS
    MessageIds,     \* MessageIDs
    Groups,         \* FIFO message groups
    NoGroup,        \* GroupID == ""
    DedupIds,       \* FIFO deduplication ids
    NoDedup,        \* DeduplicationID == ""
    TempVisibility, \* the 30 seconds Receive hides a message for
    DedupWindow,    \* the five minutes of the dedup window
    Retention       \* MessageRetentionPeriod

ASSUME SqsStoreAssumption ==
    /\ NoGroup \notin Groups
    /\ NoDedup \notin DedupIds
    /\ TempVisibility \in Nat \ {0}
    /\ DedupWindow \in Nat \ {0}
    /\ Retention \in Nat \ {0}

\* Times are natural numbers from 1 on; 0 is the zero time.Time.
Message == [id : MessageIds, group : Groups \cup {NoGroup},
            dedup : DedupIds \cup {NoDedup}, sentAt : Nat,
            visibleAt : Nat, delayUntil : Nat, count : Nat]

\* Every queue the store can hold.
IsQueue(q) == /\ DOMAIN q \subseteq Nat
              /\ q \in [DOMAIN q -> Message]

EmptyQueue == [i \in {} |-> 0]

\* A message of a group was received before an earlier one of the group that is
\* still in the queue only if that one was sent with a delay.
InGroupOrder(q) ==
    \A i, j \in DOMAIN q :
        i < j /\ q[i].group = q[j].group /\ q[i].group # NoGroup /\ q[j].count > 0
        => q[i].delayUntil > 0

-----------------------------------------------------------------------------
(* Receive *)

Delayed(m, now) == now < m.delayUntil
InFlight(m, now) == now < m.visibleAt

InFlightGroups(q, now) ==
    {q[i].group : i \in {j \in DOMAIN q : InFlight(q[j], now)}} \ {NoGroup}

\* Not delayed, not in flight, and no message of its group is in flight.
Eligible(q, i, now) ==
    /\ ~Delayed(q[i], now)
    /\ ~InFlight(q[i], now)
    /\ q[i].group \notin InFlightGroups(q, now)

\* Mutant of Candidates: a batch may hold several messages of a group.
CandidatesUngrouped(q, now) == {i \in DOMAIN q : Eligible(q, i, now)}

\* The loop marks a group as in flight when it takes a message of it.
Candidates(q, now) ==
    {i \in DOMAIN q :
        /\ Eligible(q, i, now)
        /\ q[i].group = NoGroup \/
           \A j \in DOMAIN q : j < i /\ q[j].group = q[i].group => ~Eligible(q, j, now)}

\* The first max of them, in the order of the slice.
Picked(q, max, now) ==
    {i \in Candidates(q, now) :
        Cardinality({j \in Candidates(q, now) : j < i}) < max}

\* A fresh handle, and hidden for the time being.
Received(m, now) == [m EXCEPT !.count = @ + 1, !.visibleAt = now + TempVisibility]

\* Mutant of AfterReceive: the message stays visible until the caller hides it.
AfterReceiveVisible(q, max, now) ==
    [i \in DOMAIN q |-> IF i \in Picked(q, max, now)
                        THEN [q[i] EXCEPT !.count = @ + 1]
                        ELSE q[i]]

AfterReceive(q, max, now) ==
    [i \in DOMAIN q |-> IF i \in Picked(q, max, now)
                        THEN Received(q[i], now)
                        ELSE q[i]]

-----------------------------------------------------------------------------
(* Receipt handles *)

Handle(q, i) == <<i, q[i].count>>

\* h is the handle of a message that is still in the queue.
Current(q, h) == h[1] \in DOMAIN q /\ h = Handle(q, h[1])

Without(q, gone) == [i \in DOMAIN q \ gone |-> q[i]]

\* Mutant of AfterDelete: an older handle of the message deletes it too.
AfterDeleteAnyHandle(q, h) == Without(q, {h[1]})

AfterDelete(q, h) == IF Current(q, h) THEN Without(q, {h[1]}) ELSE q

AfterChangeVisibility(q, h, timeout, now) ==
    IF Current(q, h)
    THEN [q EXCEPT ![h[1]].visibleAt = IF timeout = 0 THEN 0 ELSE now + timeout]
    ELSE q

-----------------------------------------------------------------------------
(* Send, Purge and the retention sweep *)

\* The key of the dedup map within one queue.
DedupKey(m, groupScope) == <<IF groupScope THEN m.group ELSE NoGroup, m.dedup>>

DedupKeys == (Groups \cup {NoGroup}) \X DedupIds

\* dedup maps the keys of one queue to their expiry, 0 if there is none.
Duplicate(dedup, m, groupScope, now) ==
    m.dedup # NoDedup /\ now < dedup[DedupKey(m, groupScope)]

AfterDedup(dedup, m, groupScope, now) ==
    IF m.dedup = NoDedup THEN dedup
    ELSE [dedup EXCEPT ![DedupKey(m, groupScope)] = now + DedupWindow]

\* n is larger than every arrival number used before.
AfterSend(q, n, m, now) ==
    [i \in DOMAIN q \cup {n} |-> IF i = n THEN [m EXCEPT !.sentAt = now] ELSE q[i]]

AfterSweep(q, now) ==
    Without(q, {i \in DOMAIN q : q[i].sentAt < now - Retention})

=============================================================================
