--------------------------- MODULE BarrierProofs ---------------------------
(***************************************************************************)
(* Proofs that the barrier is safe for any number of requests, savers and  *)
(* writers.  WriterExclusion is not inductive by itself: that a writer is  *)
(* alone rests on who is announced, on readers being turned away from the  *)
(* announcement on, and on nobody holding a lock that no caller or drain   *)
(* knows of.  BarrierInv is the conjunction that carries itself.           *)
(***************************************************************************)
EXTENDS Barrier, TLAPS

\* A writer that has the lock is the announced one, and then no reader has it.
AnnouncedOwnsLock ==
    /\ \A w \in Writers : lock[w] = "held" => announced = w
    /\ \A w \in Writers : lock[w] = "held" =>
          \A r \in Readers : lock[r] # "held"
    /\ announced # NoWriter => lock[announced] \in {"blocked", "held"}

BarrierInv ==
    /\ BarrierTypeOK
    /\ AnnouncedOwnsLock
    /\ NoLeakedLock

\* The barrier starts in a state that satisfies the inductive invariant.
LEMMA BarrierInitInv == BarrierInit => BarrierInv
  BY BarrierAssumption DEF BarrierInit, BarrierInv, BarrierTypeOK, AnnouncedOwnsLock,
     NoLeakedLock, Free, CallerStates, LockStates,
     Procs, Readers

\* RUnlock and Unlock, called by the release function and by the drain alike,
\* keep the invariant when the lock they give back is held.
LEMMA UnlockInv ==
  ASSUME BarrierInv, NEW p \in Procs, lock[p] = "held", Unlock(p)
  PROVE  BarrierInv'
<1> USE BarrierAssumption DEF Procs, Readers
<1>1. CASE p \in Writers
  <2>1. /\ caller' = [caller EXCEPT ![p] = "idle"]
        /\ announced' = NoWriter
        /\ lock' = AfterUnlock(p)
        /\ announced = p
        /\ \A r \in Readers : lock[r] # "held"
    BY <1>1 DEF Unlock, BarrierInv, AnnouncedOwnsLock
  <2>2. BarrierTypeOK'
    BY <2>1 DEF BarrierInv, BarrierTypeOK, AfterUnlock, LockStates, CallerStates
  <2>3. \A w \in Writers : lock'[w] # "held"
    BY <1>1, <2>1 DEF BarrierInv, AnnouncedOwnsLock, AfterUnlock
  <2>4. NoLeakedLock'
    BY <1>1, <2>1 DEF BarrierInv, BarrierTypeOK, NoLeakedLock, Free, AfterUnlock,
       CallerStates
  <2> QED BY <2>1, <2>2, <2>3, <2>4 DEF BarrierInv, AnnouncedOwnsLock
<1>2. CASE p \in Readers
  <2>1. /\ caller' = [caller EXCEPT ![p] = "idle"]
        /\ announced' = announced
        /\ lock' = [lock EXCEPT ![p] = "none"]
    BY <1>2 DEF Unlock
  <2> QED BY <1>2, <2>1 DEF BarrierInv, BarrierTypeOK, AnnouncedOwnsLock,
             NoLeakedLock, Free, CallerStates, LockStates
<1> QED BY <1>1, <1>2

\* Every step a caller takes keeps the invariant.
LEMMA CallerStepInv ==
  ASSUME BarrierInv, NEW p \in Procs, CallerStep(p)
  PROVE  BarrierInv'
<1> USE BarrierAssumption DEF Procs, Readers, BarrierInv, BarrierTypeOK,
       AnnouncedOwnsLock, NoLeakedLock, Free,
       CallerStates, LockStates
<1>1. CASE ReadBegin(p)
  BY <1>1 DEF ReadBegin, BeginCall
<1>2. CASE WriteBegin(p)
  BY <1>2 DEF WriteBegin, BeginCall
<1>3. CASE BeginReturns(p)
  BY <1>3 DEF BeginReturns
<1>4. CASE BeginCancelled(p)
  BY <1>4 DEF BeginCancelled
<1>5. CASE TryReadBegin(p)
  BY <1>5 DEF TryReadBegin, ReadersAdmitted
<1>6. CASE TryReadRefused(p)
  BY <1>6 DEF TryReadRefused
<1>7. CASE Release(p)
  BY <1>7, UnlockInv DEF Release
<1> QED BY <1>1, <1>2, <1>3, <1>4, <1>5, <1>6, <1>7 DEF CallerStep

\* Every step the runtime takes for a caller keeps the invariant.
LEMMA LockProgressInv ==
  ASSUME BarrierInv, NEW p \in Procs, LockProgress(p)
  PROVE  BarrierInv'
<1> USE BarrierAssumption DEF Procs, Readers, BarrierInv, BarrierTypeOK,
       AnnouncedOwnsLock, NoLeakedLock, Free,
       CallerStates, LockStates
<1>1. CASE RLock(p)
  BY <1>1 DEF RLock, ReadersAdmitted
<1>2. CASE Lock(p)
  BY <1>2 DEF Lock
<1>3. CASE LockAnnounces(p)
  BY <1>3 DEF LockAnnounces
<1>4. CASE LockReturns(p)
  BY <1>4 DEF LockReturns
<1>5. CASE Drain(p)
  BY <1>5, UnlockInv DEF Drain
<1> QED BY <1>1, <1>2, <1>3, <1>4, <1>5 DEF LockProgress

\* The inductive step: BarrierInv is kept by every step of the specification.
LEMMA BarrierNextInv == BarrierInv /\ [BarrierNext]_barrierVars => BarrierInv'
<1> SUFFICES ASSUME BarrierInv, [BarrierNext]_barrierVars
             PROVE  BarrierInv'
  OBVIOUS
<1>1. CASE BarrierNext
  BY <1>1, CallerStepInv, LockProgressInv DEF BarrierNext
<1>2. CASE UNCHANGED barrierVars
  BY <1>2 DEF barrierVars, BarrierInv, BarrierTypeOK, AnnouncedOwnsLock,
     NoLeakedLock, Free
<1> QED BY <1>1, <1>2

\* The inductive invariant holds in every behaviour of the barrier.
THEOREM BarrierInvariant == BarrierSpec => []BarrierInv
  BY BarrierInitInv, BarrierNextInv, PTL DEF BarrierSpec

\* Import and reset never overlap a request, save, export, snapshot or each
\* other, for any number of callers and any cancellations.
THEOREM BarrierExclusion == BarrierSpec => []WriterExclusion
<1>1. BarrierInv => WriterExclusion
  BY BarrierAssumption DEF BarrierInv, AnnouncedOwnsLock, WriterExclusion, Procs,
     Readers
<1> QED BY <1>1, BarrierInvariant, PTL

\* No begin call, however it ends, loses a lock or releases one twice.
THEOREM BarrierNoLeak == BarrierSpec => []NoLeakedLock
<1>1. BarrierInv => NoLeakedLock
  BY DEF BarrierInv
<1> QED BY <1>1, BarrierInvariant, PTL

\* From the announcement of a writer until its Unlock no reader is admitted.
THEOREM BarrierNoOvertaking == BarrierSpec => NoReaderOvertakes
<1> DEFINE A == \A r \in Readers :
                   (lock[r] # "held" /\ lock'[r] = "held")
                      => (announced = NoWriter \/ announced' = NoWriter)
<1>1. BarrierInv /\ [BarrierNext]_barrierVars => [A]_barrierVars
  <2> SUFFICES ASSUME BarrierInv, BarrierNext
               PROVE  A
    OBVIOUS
  <2>1. PICK p \in Procs : CallerStep(p) \/ LockProgress(p)
    BY DEF BarrierNext
  <2> USE BarrierAssumption DEF BarrierInv, BarrierTypeOK, Procs, Readers
  <2>2. ASSUME lock[p] = "held", Unlock(p) PROVE A
    BY <2>2 DEF Unlock
  <2>3. CASE CallerStep(p)
    BY <2>2, <2>3 DEF CallerStep, ReadBegin, WriteBegin, BeginCall, BeginReturns,
       BeginCancelled, TryReadBegin, TryReadRefused, Release, ReadersAdmitted,
       NoLeakedLock
  <2>4. CASE LockProgress(p)
    BY <2>2, <2>4 DEF LockProgress, RLock, Lock, LockAnnounces, LockReturns, Drain,
       ReadersAdmitted
  <2> QED BY <2>1, <2>3, <2>4
<1> QED BY <1>1, BarrierInvariant, PTL DEF BarrierSpec, NoReaderOvertakes

\* The variables keep their types, and only TryReadBegin refuses without waiting.
THEOREM BarrierTypes == BarrierSpec => []BarrierTypeOK
<1>1. BarrierInv => BarrierTypeOK
  BY DEF BarrierInv
<1> QED BY <1>1, BarrierInvariant, PTL

\* A caller that is handed the lock meets the conditions of the shared lock.
LEMMA OwnersExclude ==
  ASSUME BarrierInv, NEW p \in Procs, lock[p] = "held"
  PROVE  /\ p \in Readers => \A w \in Writers : caller[w] # "owner"
         /\ p \in Writers => \A q \in Procs \ {p} : caller[q] # "owner"
  BY BarrierAssumption DEF BarrierInv, AnnouncedOwnsLock, NoLeakedLock, Procs, Readers

\* Every step of the barrier is a step of the shared lock or leaves it alone.
LEMMA BarrierStepRefines ==
  ASSUME BarrierInv, [BarrierNext]_barrierVars
  PROVE  [Abstract!LockNext]_{p \in Procs : caller[p] = "owner"}
<1> DEFINE in == {p \in Procs : caller[p] = "owner"}
<1> USE DEF Abstract!LockNext, Abstract!EnterShared, Abstract!EnterExclusive, Abstract!Leave
<1>1. CASE UNCHANGED barrierVars
  BY <1>1 DEF barrierVars
<1>2. ASSUME NEW p \in Procs, CallerStep(p) \/ LockProgress(p)
      PROVE  [Abstract!LockNext]_in
  <2>0. caller \in [Procs -> CallerStates] /\ p \in Readers \cup Writers
    BY DEF BarrierInv, BarrierTypeOK, Procs
  <2>1. ASSUME caller' = [caller EXCEPT ![p] = "owner"], caller[p] # "owner",
               p \in Readers, \A w \in Writers : caller[w] # "owner"
        PROVE  [Abstract!LockNext]_in
    <3>1. in' = in \cup {p}
      BY <2>0, <2>1
    <3>2. p \in Readers \ in /\ in \cap Writers = {}
      BY <2>1
    <3> HIDE DEF in
    <3> QED BY <3>1, <3>2 DEF in
  <2>2. ASSUME caller' = [caller EXCEPT ![p] = "owner"], caller[p] # "owner",
               p \in Writers, \A q \in Procs \ {p} : caller[q] # "owner"
        PROVE  [Abstract!LockNext]_in
    <3>1. in = {} /\ in' = {p}
      BY <2>0, <2>2
    <3> QED BY <2>2, <3>1
  <2>3. ASSUME caller' = [caller EXCEPT ![p] = "idle"], caller[p] = "owner"
        PROVE  [Abstract!LockNext]_in
    <3>1. p \in in /\ in' = in \ {p}
      BY <2>0, <2>3
    <3> QED BY <2>0, <3>1
  <2>4. ASSUME NEW x \in CallerStates \ {"owner"}, caller[p] # "owner",
               caller' = [caller EXCEPT ![p] = x]
        PROVE  [Abstract!LockNext]_in
    <3>1. in' = in
      BY <2>0, <2>4
    <3> QED BY <3>1
  <2>5. ASSUME UNCHANGED caller PROVE [Abstract!LockNext]_in
    BY <2>5
  <2>6. CASE BeginReturns(p)
    BY <2>0, <2>1, <2>2, <2>6, OwnersExclude DEF BeginReturns
  <2>7. CASE TryReadBegin(p)
    <3>1. \A w \in Writers : caller[w] # "owner"
      BY <2>7, BarrierAssumption DEF TryReadBegin, ReadersAdmitted, BarrierInv,
         AnnouncedOwnsLock, NoLeakedLock, Procs
    <3> QED BY <2>1, <2>7, <3>1 DEF TryReadBegin, Free, Readers
  <2>8. CASE Release(p)
    BY <2>3, <2>8 DEF Release, Unlock
  <2>9. CASE Drain(p)
    BY <2>4, <2>9 DEF Drain, Unlock, CallerStates
  <2>10. CASE ReadBegin(p) \/ WriteBegin(p) \/ BeginCancelled(p) \/ TryReadRefused(p)
    BY <2>4, <2>10 DEF ReadBegin, WriteBegin, BeginCall, BeginCancelled, TryReadRefused,
       Free, CallerStates
  <2>11. CASE RLock(p) \/ Lock(p) \/ LockAnnounces(p) \/ LockReturns(p)
    BY <2>5, <2>11 DEF RLock, Lock, LockAnnounces, LockReturns
  <2> QED BY <1>2, <2>6, <2>7, <2>8, <2>9, <2>10, <2>11 DEF CallerStep, LockProgress
<1> QED BY <1>1, <1>2 DEF BarrierNext

\* The barrier, with its goroutines, cancelled waits and drains, implements the
\* shared lock for any number of callers.
THEOREM BarrierRefinesSharedLock == BarrierSpec => ImplementsSharedLock
<1>1. BarrierInit => Abstract!LockInit
  BY DEF BarrierInit, Abstract!LockInit
<1>2. BarrierInv /\ [BarrierNext]_barrierVars
         => [Abstract!LockNext]_{p \in Procs : caller[p] = "owner"}
  BY BarrierStepRefines
<1> QED BY <1>1, <1>2, BarrierInvariant, PTL
        DEF BarrierSpec, ImplementsSharedLock, Abstract!LockSpec
=============================================================================
