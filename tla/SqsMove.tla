------------------------------ MODULE SqsMove ------------------------------
(***************************************************************************)
(* Message move tasks (internal/aws/provider/queue/message_move.go) beside *)
(* the operations of SqsQueue.  A task is a goroutine that takes the       *)
(* messages of one queue out one by one: it receives a message, sends a    *)
(* copy to the destination and deletes the original, three calls into the  *)
(* store with those of consumers and of other tasks in between.            *)
(*                                                                         *)
(* Left out: the rate limit and resetMoveTasks, the reset of the provider. *)
(***************************************************************************)
EXTENDS SqsQueue

CONSTANTS
    Tasks,          \* task handles
    MoveFrom,       \* the queues tasks are started for
    MoveTo,         \* the destinations requests carry: queues, NoDest, Missing
    NoDest,         \* no DestinationArn
    Missing,        \* a DestinationArn of no queue
    MaxMoved        \* bound: messages a task moves

ASSUME SqsMoveAssumption ==
    /\ MoveFrom \subseteq Queues /\ MoveTo \subseteq Queues \cup {NoDest, Missing}
    /\ {NoDest, Missing} \cap Queues = {} /\ NoDest # Missing
    /\ MaxMoved \in Nat
    /\ Tasks \cap Consumers = {}

VARIABLES
    task,       \* the registry
    step,       \* where the goroutine of each task is
    taken       \* the copy it has received and not deleted yet

moveVars == <<task, step, taken>>
allVars == <<vars, moveVars>>

NoTask == [status |-> "none", from |-> "source", to |-> "source", moved |-> 0]

MoveTypeOK ==
    /\ task \in [Tasks -> [status : {"none", "RUNNING", "CANCELLING", "CANCELLED", "COMPLETED"},
                           from : Queues, to : Queues, moved : Nat]]
    /\ step \in [Tasks -> {"none", "waiting", "sending", "deleting"}]
    /\ DOMAIN taken = Tasks /\ \A t \in Tasks : IsQueue(taken[t])

MoveInit ==
    /\ SqsInit
    /\ task = [t \in Tasks |-> NoTask] /\ step = [t \in Tasks |-> "none"]
    /\ taken = [t \in Tasks |-> EmptyQueue]

\* A source has at most one RUNNING task; the goroutine of one that is CANCELLING
\* may still be at work.  A task whose destination does not resolve is RUNNING
\* without a goroutine.  Without a destination messages go back to the source.
StartMessageMoveTask(t, from, dest) ==
    /\ task[t].status = "none"
    /\ \A u \in Tasks : ~(task[u].status = "RUNNING" /\ task[u].from = from)
    /\ task' = [task EXCEPT ![t] =
                  [status |-> "RUNNING", from |-> from,
                   to |-> IF dest \in Queues THEN dest ELSE from, moved |-> 0]]
    /\ step' = [step EXCEPT ![t] = IF dest = Missing THEN "none" ELSE "waiting"]
    /\ UNCHANGED <<vars, taken>>

CancelMessageMoveTask(t) ==
    /\ task[t].status = "RUNNING"
    /\ task' = [task EXCEPT ![t].status = "CANCELLING"]
    /\ UNCHANGED <<vars, step, taken>>

-----------------------------------------------------------------------------
(* runMoveTask *)

From(t) == box[task[t].from]
Movable(t) == Picked(From(t), 1, now)

MoveReceive(t) ==
    /\ step[t] = "waiting" /\ task[t].moved < MaxMoved
    /\ Movable(t) # {}
    /\ box' = [box EXCEPT ![task[t].from] = AfterReceive(@, 1, now)]
    /\ taken' = [taken EXCEPT ![t] = [i \in Movable(t) |-> box'[task[t].from][i]]]
    /\ step' = [step EXCEPT ![t] = "sending"]
    /\ UNCHANGED <<now, next, dedup, pending, pollVars, inbox, fate, task>>

\* The goroutine returns: there is nothing to receive, ...
MoveCompletes(t) ==
    /\ step[t] = "waiting" /\ Movable(t) = {}
    /\ task' = [task EXCEPT ![t].status = "COMPLETED"]
    /\ step' = [step EXCEPT ![t] = "none"]
    /\ UNCHANGED <<vars, taken>>

\* ... or its context has been cancelled.
MoveCancelled(t) ==
    /\ step[t] = "waiting" /\ task[t].status = "CANCELLING"
    /\ task' = [task EXCEPT ![t].status = "CANCELLED"]
    /\ step' = [step EXCEPT ![t] = "none"]
    /\ UNCHANGED <<vars, taken>>

\* Neither the group nor the deduplication id is copied.
Moved(m) == [m EXCEPT !.group = NoGroup, !.dedup = NoDedup,
                      !.visibleAt = 0, !.delayUntil = 0, !.count = 0]

\* Nobody is notified.
MoveSend(t, i) ==
    /\ step[t] = "sending" /\ i \in DOMAIN taken[t]
    /\ StoreSend(task[t].to, Moved(taken[t][i]))
    /\ step' = [step EXCEPT ![t] = "deleting"]
    /\ UNCHANGED <<now, pending, pollVars, inbox, fate, task, taken>>

\* Mutant of MoveDelete: the handle from before the receive is used.
MoveDeleteOldHandle(t, i) ==
    /\ step[t] = "deleting" /\ i \in DOMAIN taken[t]
    /\ box' = [box EXCEPT ![task[t].from] = AfterDelete(@, <<i, taken[t][i].count - 1>>)]
    /\ taken' = [taken EXCEPT ![t] = EmptyQueue]
    /\ task' = [task EXCEPT ![t].moved = @ + 1]
    /\ step' = [step EXCEPT ![t] = "waiting"]
    /\ UNCHANGED <<now, next, dedup, pending, pollVars, inbox, fate>>

MoveDelete(t, i) ==
    /\ step[t] = "deleting" /\ i \in DOMAIN taken[t]
    /\ box' = [box EXCEPT ![task[t].from] = AfterDelete(@, Handle(taken[t], i))]
    /\ taken' = [taken EXCEPT ![t] = EmptyQueue]
    /\ task' = [task EXCEPT ![t].moved = @ + 1]
    /\ step' = [step EXCEPT ![t] = "waiting"]
    /\ UNCHANGED <<now, next, dedup, pending, pollVars, inbox, fate>>

Move(t) ==
    \/ MoveReceive(t) \/ MoveCompletes(t) \/ MoveCancelled(t)
    \/ \E i \in DOMAIN taken[t] : MoveSend(t, i) \/ MoveDelete(t, i)

-----------------------------------------------------------------------------

\* The scheduling assumption Prompt for the goroutine of a task: the three calls
\* take less than the 30 seconds of Receive.
MovePrompt(t) == \A i \in DOMAIN taken[t] : now + 1 < taken[t][i].visibleAt

QueueStep == /\ SqsNext
             /\ now' # now => \A t \in Tasks : MovePrompt(t)
             /\ UNCHANGED moveVars

MoveNext ==
    \/ QueueStep
    \/ \E t \in Tasks :
          \/ \E from \in MoveFrom, dest \in MoveTo : StartMessageMoveTask(t, from, dest)
          \/ CancelMessageMoveTask(t) \/ Move(t)

MoveSpec == MoveInit /\ [][MoveNext]_allVars

\* The goroutines run, those of tasks as well as those of SqsFairness.
MoveFairness ==
    /\ WF_allVars(Notify /\ UNCHANGED moveVars)
    /\ WF_allVars(Tick /\ QueueStep)
    /\ \A c \in Consumers : WF_allVars(Receive(c) /\ UNCHANGED moveVars)
    /\ \A t \in Tasks : WF_allVars(Move(t))

MoveFairSpec == MoveSpec /\ MoveFairness

-----------------------------------------------------------------------------
(* Properties *)

Copies(id) ==
    UNION {{<<q, i>> : i \in {j \in DOMAIN box[q] : box[q][j].id = id}} : q \in Queues}

\* Those that have sent a copy of the message and have yet to delete the original.
Carriers(id) ==
    {c \in Consumers : pc[c] = "moving" /\ \E i \in DOMAIN got[c] : First(c, i) /\ got[c][i].id = id}
    \cup {t \in Tasks : step[t] = "deleting" /\ \E i \in DOMAIN taken[t] : taken[t][i].id = id}

\* A message that nobody deleted is in exactly one queue, once, however redrives,
\* move tasks (also two from one queue, one of them cancelled), stale handles and
\* receives interleave; only between the Send and the Delete of a redrive or a
\* move is there one more of it, the original.
MovedOnce ==
    \A id \in MessageIds : fate[id] = "accepted" =>
        Cardinality(Copies(id)) = 1 + Cardinality(Carriers(id))

=============================================================================
