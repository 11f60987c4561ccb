------------------------------ MODULE Barrier ------------------------------
(***************************************************************************)
(* The persistence barrier (internal/persistence/snapshot/barrier.go): one *)
(* sync.RWMutex that gates every cloud request, periodic save, export,     *)
(* named snapshot, reset and import.                                       *)
(*                                                                         *)
(* A call of ReadBegin or WriteBegin starts a goroutine that takes the     *)
(* lock and closes a channel; the caller selects between that channel and  *)
(* its context.  When the context ends first the caller returns an error   *)
(* and a second goroutine waits for the lock only to give it back.         *)
(* TryReadBegin never waits.                                               *)
(*                                                                         *)
(* sync.RWMutex is modelled as Go documents it: writers queue on an inner  *)
(* mutex; the one that owns it announces itself, which stops new readers,  *)
(* and has the lock once the readers that were active have left; Unlock    *)
(* first admits every reader blocked in RLock, then lets go of the inner   *)
(* mutex.                                                                  *)
(***************************************************************************)
CONSTANTS
    TryReaders,     \* callers of TryReadBegin: cloud requests, periodic save
    WaitReaders,    \* callers of ReadBegin: export, snapshot create, SaveNow
    Writers,        \* callers of WriteBegin: reset, import
    NoWriter        \* no writer owns the inner mutex

Readers == TryReaders \cup WaitReaders
Procs == Readers \cup Writers

ASSUME BarrierAssumption ==
    /\ TryReaders \cap WaitReaders = {}
    /\ Readers \cap Writers = {}
    /\ NoWriter \notin Procs

VARIABLES
    caller,     \* what each caller of the barrier is doing
    lock,       \* how far the RLock or Lock made on its behalf has come
    announced   \* the writer that owns the inner mutex, or NoWriter

barrierVars == <<caller, lock, announced>>

\* idle       no call under way          selecting  in the select statement
\* owner      has the release function   refused    TryReadBegin returned false
\* drained    returned ctx.Err(), a goroutine is left to give the lock back
CallerStates == {"idle", "selecting", "owner", "refused", "drained"}

\* none       no lock wanted             starting   the goroutine has not run
\* blocked    inside RLock or Lock       held       the lock is taken
LockStates == {"none", "starting", "blocked", "held"}

Free(p) == caller[p] \in {"idle", "refused"}

\* The variables have their types; TryReadBegin never waits and is the only
\* call that refuses.
BarrierTypeOK ==
    /\ caller \in [Procs -> CallerStates]
    /\ lock \in [Procs -> LockStates]
    /\ announced \in Writers \cup {NoWriter}
    /\ \A p \in TryReaders : lock[p] \in {"none", "held"}
    /\ \A p \in Procs \ TryReaders : caller[p] # "refused"

BarrierInit ==
    /\ caller = [p \in Procs |-> "idle"]
    /\ lock = [p \in Procs |-> "none"]
    /\ announced = NoWriter

-----------------------------------------------------------------------------
(* sync.RWMutex *)

\* No writer is announced: RLock does not block and TryRLock succeeds.
ReadersAdmitted == announced = NoWriter

\* The goroutine calls RLock: it has the lock, or it blocks.
RLock(p) ==
    /\ p \in Readers /\ lock[p] = "starting"
    /\ lock' = [lock EXCEPT ![p] = IF ReadersAdmitted THEN "held" ELSE "blocked"]
    /\ UNCHANGED <<caller, announced>>

\* Mutant of Lock: WriteBegin's goroutine calls RLock, as ReadBegin's does.
LockShared(p) ==
    /\ p \in Writers /\ lock[p] = "starting"
    /\ ReadersAdmitted
    /\ lock' = [lock EXCEPT ![p] = "held"]
    /\ UNCHANGED <<caller, announced>>

\* The goroutine calls Lock and queues on the inner mutex.
Lock(p) ==
    /\ p \in Writers /\ lock[p] = "starting"
    /\ lock' = [lock EXCEPT ![p] = "blocked"]
    /\ UNCHANGED <<caller, announced>>

\* A queued writer owns the inner mutex and turns new readers away.
LockAnnounces(p) ==
    /\ p \in Writers /\ lock[p] = "blocked"
    /\ announced = NoWriter
    /\ announced' = p
    /\ UNCHANGED <<caller, lock>>

\* The last reader active at the announcement has left: Lock returns.
LockReturns(p) ==
    /\ announced = p /\ lock[p] = "blocked"
    /\ \A r \in Readers : lock[r] # "held"
    /\ lock' = [lock EXCEPT ![p] = "held"]
    /\ UNCHANGED <<caller, announced>>

\* Unlock: every reader blocked in RLock has the lock now.
AfterUnlock(p) ==
    [q \in Procs |-> IF q = p THEN "none"
                     ELSE IF q \in Readers /\ lock[q] = "blocked" THEN "held"
                     ELSE lock[q]]

\* RUnlock or Unlock, whichever the begin call handed out.
Unlock(p) ==
    /\ caller' = [caller EXCEPT ![p] = "idle"]
    /\ IF p \in Writers
          THEN announced' = NoWriter /\ lock' = AfterUnlock(p)
          ELSE lock' = [lock EXCEPT ![p] = "none"] /\ UNCHANGED announced

-----------------------------------------------------------------------------
(* Barrier operations *)

\* The goroutine is started, the caller enters its select.
BeginCall(p) ==
    /\ Free(p)
    /\ caller' = [caller EXCEPT ![p] = "selecting"]
    /\ lock' = [lock EXCEPT ![p] = "starting"]
    /\ UNCHANGED announced

ReadBegin(p) == p \in WaitReaders /\ BeginCall(p)

WriteBegin(p) == p \in Writers /\ BeginCall(p)

\* Mutant of BeginReturns: the goroutine closes the channel before it locks.
BeginReturnsEarly(p) ==
    /\ caller[p] = "selecting"
    /\ caller' = [caller EXCEPT ![p] = "owner"]
    /\ UNCHANGED <<lock, announced>>

\* case <-done: the caller is handed the release function.
BeginReturns(p) ==
    /\ caller[p] = "selecting" /\ lock[p] = "held"
    /\ caller' = [caller EXCEPT ![p] = "owner"]
    /\ UNCHANGED <<lock, announced>>

\* Mutant of BeginCancelled: the error is returned, no drain is started.
BeginCancelledNoDrain(p) ==
    /\ caller[p] = "selecting"
    /\ caller' = [caller EXCEPT ![p] = "idle"]
    /\ UNCHANGED <<lock, announced>>

\* case <-ctx.Done(): the caller gets the error, a drain stays behind.  With
\* both channels ready Go picks either, so the lock may be held already.
BeginCancelled(p) ==
    /\ caller[p] = "selecting"
    /\ caller' = [caller EXCEPT ![p] = "drained"]
    /\ UNCHANGED <<lock, announced>>

\* Mutants of Drain: nobody waits for the channel; only ReadBegin has a drain.
DrainNever(p) == FALSE
DrainReadersOnly(p) ==
    p \in Readers /\ caller[p] = "drained" /\ lock[p] = "held" /\ Unlock(p)

\* The drain goroutine gives the lock back.
Drain(p) == caller[p] = "drained" /\ lock[p] = "held" /\ Unlock(p)

\* Mutant of TryReadBegin: only a writer that has the lock turns it away.
TryReadBeginUnlessHeld(p) ==
    /\ p \in TryReaders /\ Free(p)
    /\ \A w \in Writers : lock[w] # "held"
    /\ caller' = [caller EXCEPT ![p] = "owner"]
    /\ lock' = [lock EXCEPT ![p] = "held"]
    /\ UNCHANGED announced

\* Mutant of TryReadBegin: RLock instead of TryRLock.
TryReadBeginBlocks(p) ==
    /\ p \in TryReaders /\ Free(p)
    /\ caller' = [caller EXCEPT ![p] = "selecting"]
    /\ lock' = [lock EXCEPT ![p] = "starting"]
    /\ UNCHANGED announced

\* The lock is taken without waiting, or not at all.
TryReadBegin(p) ==
    /\ p \in TryReaders /\ Free(p)
    /\ ReadersAdmitted
    /\ caller' = [caller EXCEPT ![p] = "owner"]
    /\ lock' = [lock EXCEPT ![p] = "held"]
    /\ UNCHANGED announced

\* TryReadBegin returns (nil, false): the request is answered 503.
TryReadRefused(p) ==
    /\ p \in TryReaders /\ Free(p)
    /\ ~ReadersAdmitted
    /\ caller' = [caller EXCEPT ![p] = "refused"]
    /\ UNCHANGED <<lock, announced>>

\* The owner calls the release function.
Release(p) == caller[p] = "owner" /\ Unlock(p)

\* What the Go runtime does on its own, without the caller.
LockProgress(p) ==
    \/ RLock(p)
    \/ Lock(p)
    \/ LockAnnounces(p)
    \/ LockReturns(p)
    \/ Drain(p)

\* What a caller of the barrier does.
CallerStep(p) ==
    \/ ReadBegin(p)
    \/ WriteBegin(p)
    \/ BeginReturns(p)
    \/ BeginCancelled(p)
    \/ TryReadBegin(p)
    \/ TryReadRefused(p)
    \/ Release(p)

BarrierNext == \E p \in Procs : CallerStep(p) \/ LockProgress(p)

BarrierSpec == BarrierInit /\ [][BarrierNext]_barrierVars

\* Goroutines are scheduled; sync.Mutex starves no queued writer (its
\* starvation mode); a select whose channel is closed ends; and every handler
\* under the barrier returns, so every release function is called.
BarrierFairness ==
    \A p \in Procs :
        /\ WF_barrierVars(RLock(p))
        /\ WF_barrierVars(Lock(p))
        /\ SF_barrierVars(LockAnnounces(p))
        /\ WF_barrierVars(LockReturns(p))
        /\ WF_barrierVars(Drain(p))
        /\ WF_barrierVars(BeginReturns(p))
        /\ WF_barrierVars(Release(p))

BarrierFairSpec == BarrierSpec /\ BarrierFairness

-----------------------------------------------------------------------------
(* Properties *)

\* Writers (import, reset) own the lock alone: while one has it, no request,
\* save, export or snapshot is under way and no other writer mutates state.
\* The lock of a drain counts.  (barrier.go, ReadBegin/WriteBegin)
WriterExclusion ==
    \A w \in Writers : lock[w] = "held" =>
        \A q \in Procs \ {w} : lock[q] # "held"

\* A lock is never leaked: one that was asked for is known to a caller that
\* will release it or to a drain, also after a cancelled wait.  And a lock that
\* is released was held: RUnlock of an unlocked RWMutex is a fatal error.
NoLeakedLock ==
    \A p \in Procs :
        /\ Free(p) <=> lock[p] = "none"
        /\ caller[p] = "owner" => lock[p] = "held"

\* Once a writer has announced itself, no reader gets the lock before it:
\* a stream of requests cannot starve a reset.
NoReaderOvertakes ==
    [][\A r \in Readers :
          (lock[r] # "held" /\ lock'[r] = "held")
             => (announced = NoWriter \/ announced' = NoWriter)]_barrierVars

\* Every ReadBegin and WriteBegin ends, with the lock or with an error.
EveryBeginEnds == \A p \in Procs : caller[p] = "selecting" ~> caller[p] # "selecting"

\* The goroutine left behind by a cancelled call ends as well ("we must drain
\* it to avoid a leak").
EveryDrainEnds == \A p \in Procs : caller[p] = "drained" ~> caller[p] # "drained"

\* A caller is inside from the return of its begin call to its call of release.
Abstract == INSTANCE SharedLock WITH
    Sharers <- Readers, Excluders <- Writers,
    inside <- {p \in Procs : caller[p] = "owner"}

\* The barrier implements the shared lock its callers rely on, with goroutines,
\* cancelled waits and drains in between: whoever is handed a release function
\* enters when the lock allows it and leaves only by calling that function.
ImplementsSharedLock == Abstract!LockSpec

\* 503s end: an announced writer, cancelled or not, lets the readers back in.
ReadersReadmitted == ~ReadersAdmitted ~> ReadersAdmitted
=============================================================================
