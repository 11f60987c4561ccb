------------------------- MODULE SnapshotLoopProofs -------------------------
(***************************************************************************)
(* Proofs that the snapshot loop is safe for any number of requests,       *)
(* resets, stores and restarts.  None of its properties is inductive by    *)
(* itself; LoopInv is the conjunction that is, and its parts say           *)
(*                                                                         *)
(*   CoreOK     who saves, in which phase of the process, and that a saver *)
(*              past its flag is an owner of the barrier;                  *)
(*   MemoryOK   what the stores hold of answered, wiped and half-done      *)
(*              requests;                                                  *)
(*   SnapOK     what a saver has read so far, against the stores;          *)
(*   DiskOK     what the files hold, and that the temporary file belongs   *)
(*              to the one saver that is active;                           *)
(*   DurableOK  that what the last synced file promises is found again in  *)
(*              the newer file, in the snapshot under way and in memory;   *)
(*   StopOK     the same for what was live when Stop was called.           *)
(***************************************************************************)
EXTENDS SnapshotLoop, BarrierProofs

\* p has the shared lock and is saving.
Active(p) == step[p] \notin {"idle", "flag"}

\* Some reset has emptied some stores and not all of them.
MidReset == \E w \in Writers : resetLeft[w] # Stores /\ resetLeft[w] # {}

CoreOK ==
    /\ BarrierInv
    /\ phase \in Phases /\ looping \in BOOLEAN /\ boots \in 0..MaxBoots
    /\ step \in [Savers -> Steps] /\ saving \in BOOLEAN /\ finalFailed \in BOOLEAN
    /\ phase = "down" => \A p \in Procs : lock[p] = "none"
    /\ phase \in {"final", "exit", "down"} => ~looping
    /\ ~looping => step[Saver] = "idle"
    /\ step[Shutdown] # "idle" <=> phase = "final"
    /\ saving <=> (step[Saver] # "idle" \/ step[Shutdown] # "idle")
    /\ \A p \in Savers : Active(p) <=> caller[p] = "owner"
    /\ caller[Shutdown] = "selecting" => step[Shutdown] = "flag"

MemoryOK ==
    /\ mem \in [Stores -> SUBSET Requests] /\ wrote \in [Requests -> SUBSET Stores]
    /\ resetLeft \in [Writers -> SUBSET Stores]
    /\ acked \subseteq Requests /\ lost \subseteq Requests
    /\ wiped \subseteq acked /\ atStop \subseteq acked
    /\ live = IF phase = "down" THEN {} ELSE {q \in acked : In(q, mem)}
    /\ phase # "down" => \A q \in wiped : NotIn(q, mem)
    /\ \A q \in Requests : \A s \in wrote[q] : caller[q] = "owner" /\ q \in mem[s]
    /\ \A w \in Writers : \A s \in Stores \ resetLeft[w] : caller[w] = "owner" /\ mem[s] = {}

SnapOK ==
    /\ snap \in [Savers -> Snapshots] /\ seen \in [Savers -> SUBSET Requests]
    /\ \A p \in Savers :
        /\ ~Active(p) => DOMAIN snap[p] = {}
        /\ Active(p) => seen[p] \subseteq live
        /\ \A s \in DOMAIN snap[p] : seen[p] \subseteq snap[p][s] /\ snap[p][s] \subseteq mem[s]
        /\ step[p] \in {"write", "sync", "rename", "dirsync"} => DOMAIN snap[p] = Stores

\* A published file: complete, synced, and it keeps its promise.
Kept(f) ==
    f = NoFile \/ /\ f.data # Torn /\ f.synced /\ f.must \subseteq acked
                  /\ \A q \in f.must : In(q, f.data)
                  /\ \A q \in f.gone : NotIn(q, f.data)

DiskOK ==
    /\ file \in Files /\ tmp \in Files /\ backup \in Files
    /\ Kept(file) /\ Kept(backup)
    /\ \A p \in Savers :
        /\ step[p] \in {"sync", "rename"} =>
             tmp = [data |-> snap[p], synced |-> step[p] = "rename", must |-> seen[p], gone |-> {}]
        /\ step[p] = "dirsync" => file # NoFile /\ file.must = seen[p]

\* What the durable file promises and nothing has taken away since.
Durable == Must(backup) \ (wiped \cup lost)

DurableOK ==
    /\ Durable \subseteq Must(file)
    /\ file # NoFile => \A q \in Must(backup) :
          /\ In(q, file.data) => q \in file.must
          /\ In(q, file.data) \/ NotIn(q, file.data) \/ q \in lost
    /\ phase # "down" /\ ~MidReset => \A q \in Durable : In(q, mem)
    /\ \A p \in Savers : Active(p) =>
          /\ Durable \subseteq seen[p]
          /\ Must(backup) \cap live \subseteq seen[p]

StopOK ==
    /\ phase \in {"stopping", "final"} => atStop \ wiped \subseteq live \/ MidReset
    /\ Active(Shutdown) => atStop \ wiped \subseteq seen[Shutdown]
    /\ StopCapturesState

LoopInv == CoreOK /\ MemoryOK /\ SnapOK /\ DiskOK /\ DurableOK /\ StopOK

-----------------------------------------------------------------------------
(* The barrier *)

LEMMA Roles ==
    /\ Saver \in TryReaders /\ Shutdown \in WaitReaders /\ Saver # Shutdown
    /\ Savers = {Saver, Shutdown} /\ Savers \subseteq Procs
    /\ Requests \subseteq TryReaders /\ Requests \subseteq Procs /\ Requests \cap Savers = {}
    /\ Writers \subseteq Procs /\ Writers \cap Savers = {} /\ Writers \cap Requests = {}
BY BarrierAssumption, SnapshotLoopAssumption DEF Savers, Requests, Procs, Readers

\* Requests and savers own the barrier only while no reset does.
LEMMA NoResetBeside ==
    ASSUME BarrierInv, NEW w \in Writers, caller[w] = "owner", NEW p \in Procs \ {w}
    PROVE  caller[p] # "owner"
BY BarrierAssumption DEF BarrierInv, AnnouncedOwnsLock, NoLeakedLock, Procs, Readers

\* A step that is one of the barrier's keeps its invariant.
LEMMA CallerKeeps ==
    ASSUME BarrierInv, NEW p \in Procs, CallerStep(p) \/ LockProgress(p)
    PROVE  BarrierInv'
BY CallerStepInv, LockProgressInv

LEMMA BarrierIdle == ASSUME BarrierInv, UNCHANGED barrierVars PROVE BarrierInv'
BY BarrierNextInv

\* What lives in the process is gone, and with it every lock.
LEMMA ProcessEndsCore ==
    ASSUME CoreOK, ProcessEnds
    PROVE  CoreOK'
<1> USE Roles
<1>1. BarrierInv'
  BY BarrierAssumption DEF ProcessEnds, BarrierInv, BarrierTypeOK, AnnouncedOwnsLock,
     NoLeakedLock, Free, CallerStates, LockStates, Procs, Readers
<1>2. phase' = "down" /\ ~looping' /\ ~saving' /\ boots' = boots /\ finalFailed' = finalFailed
  BY DEF ProcessEnds
<1>3. \A p \in Savers : step'[p] = "idle" /\ caller'[p] = "idle"
  BY DEF ProcessEnds
<1>4. \A p \in Procs : lock'[p] = "none"
  BY DEF ProcessEnds
<1>5. step' \in [Savers -> Steps]
  BY DEF ProcessEnds, Steps
<1> QED BY <1>1, <1>2, <1>3, <1>4, <1>5 DEF CoreOK, Phases, Active, ProcessEnds

\* In the call of one caller nothing changes for the others.
LEMMA OneCaller ==
    ASSUME BarrierInv, NEW p \in Procs, CallerStep(p)
    PROVE  /\ BarrierInv'
           /\ \A r \in Procs \ {p} : caller'[r] = caller[r]
<1>1. BarrierInv'
  BY CallerKeeps
<1> QED BY <1>1 DEF CallerStep, ReadBegin, WriteBegin, BeginCall, BeginReturns,
           BeginCancelled, TryReadBegin, TryReadRefused, Release, Unlock, BarrierInv,
           BarrierTypeOK, NoLeakedLock

\* Calls of requests and resets leave the savers alone.
LEMMA RequestCore ==
    ASSUME CoreOK, NEW p \in Procs \ Savers, CallerStep(p), phase # "down",
           UNCHANGED <<procVars, step, saving, finalFailed>>
    PROVE  CoreOK'
<1>1. BarrierInv' /\ \A r \in Savers : caller'[r] = caller[r]
  BY OneCaller, Roles DEF CoreOK
<1> QED BY <1>1, Roles DEF CoreOK, procVars, Active

\* So do the goroutines of the barrier.
LEMMA ProgressCore ==
    ASSUME CoreOK, NEW p \in Procs, LockProgress(p),
           UNCHANGED <<procVars, step, saving, finalFailed>>
    PROVE  CoreOK' /\ phase # "down"
<1>1. BarrierInv'
  BY CallerKeeps DEF CoreOK
<1>2. phase # "down"
  BY BarrierAssumption DEF CoreOK, LockProgress, RLock, Lock, LockAnnounces, LockReturns, Drain,
     Procs
<1>3. \A r \in Savers : /\ caller'[r] = "owner" <=> caller[r] = "owner"
                        /\ caller'[r] = "selecting" => caller[r] = "selecting"
  BY Roles DEF CoreOK, BarrierInv, BarrierTypeOK, LockProgress, RLock, Lock, LockAnnounces,
     LockReturns, Drain, Unlock
<1> QED BY <1>1, <1>2, <1>3, Roles DEF CoreOK, procVars, Active

\* Nobody touches the barrier.
LEMMA QuietCore ==
    ASSUME CoreOK, UNCHANGED barrierVars
    PROVE  BarrierInv' /\ (\A p \in Procs : lock'[p] = lock[p] /\ caller'[p] = caller[p])
BY BarrierIdle DEF CoreOK, barrierVars

\* One of the two savers is at work at a time.
LEMMA OneSaver ==
    ASSUME CoreOK, NEW p \in Savers, step[p] # "idle"
    PROVE  /\ saving /\ phase # "down" /\ phase # "exit"
           /\ \A r \in Savers \ {p} : step[r] = "idle"
           /\ p = Saver => looping /\ phase # "final"
           /\ p = Shutdown => ~looping /\ phase = "final"
BY Roles DEF CoreOK

\* The saver that is past its flag goes on under its lock.
LEMMA AdvanceCore ==
    ASSUME CoreOK, NEW p \in Savers, NEW from \in Steps \ {"idle", "flag"},
           NEW to \in Steps \ {"idle", "flag"}, Advance(p, from, to)
    PROVE  CoreOK'
<1>1. step' \in [Savers -> Steps] /\ \A r \in Savers : step'[r] = IF r = p THEN to ELSE step[r]
  BY DEF CoreOK, Advance
<1>2. UNCHANGED <<phase, looping, boots, saving, finalFailed>> /\ step[p] = from
  BY DEF Advance, procVars, history
<1>3. BarrierInv' /\ \A r \in Procs : lock'[r] = lock[r] /\ caller'[r] = caller[r]
  BY QuietCore DEF Advance
<1>4. \A r \in Savers : /\ step'[r] = "idle" <=> step[r] = "idle"
                        /\ step'[r] = "flag" <=> step[r] = "flag"
  BY <1>1, <1>2
<1> QED BY <1>1, <1>2, <1>3, <1>4, Roles DEF CoreOK, Active

\* The save ends and the lock is given back.
LEMMA SaveReturnsCore ==
    ASSUME CoreOK, NEW p \in Savers, Active(p), NEW err \in BOOLEAN, SaveReturns(p, err)
    PROVE  CoreOK'
<1>1. BarrierInv' /\ (\A r \in Savers \ {p} : caller'[r] = caller[r]) /\ caller'[p] = "idle"
  BY OneCaller, Roles DEF SaveReturns, CallerStep, CoreOK, Release, Unlock, BarrierInv, BarrierTypeOK
<1>2. step' \in [Savers -> Steps] /\ \A r \in Savers : step'[r] = IF r = p THEN "idle" ELSE step[r]
  BY DEF CoreOK, SaveReturns, Steps
<1>3. step[p] # "idle"
  BY DEF Active
<1>4. UNCHANGED <<looping, boots>> /\ saving' = FALSE
  BY DEF SaveReturns
<1>5. CASE p = Shutdown
  <2>1. phase' = "exit" /\ finalFailed' \in BOOLEAN
    BY <1>5 DEF SaveReturns
  <2>2. ~looping /\ step'[Shutdown] = "idle" /\ step'[Saver] = "idle"
    BY <1>2, <1>3, <1>5, OneSaver, Roles
  <2>3. caller'[Saver] # "owner" /\ caller'[Shutdown] = "idle"
    BY <1>1, <1>3, <1>5, OneSaver, Roles DEF CoreOK, Active
  <2> QED BY <1>1, <1>2, <1>4, <2>1, <2>2, <2>3, Roles DEF CoreOK, Active, Phases
<1>6. CASE p = Saver
  <2>1. UNCHANGED <<phase, finalFailed>>
    BY <1>6, Roles DEF SaveReturns
  <2>2. looping /\ phase \notin {"final", "down"} /\ step'[Shutdown] = "idle" /\ step'[Saver] = "idle"
    BY <1>2, <1>3, <1>6, OneSaver, Roles
  <2>3. caller'[Saver] = "idle" /\ caller'[Shutdown] \notin {"owner", "selecting"}
    BY <1>1, <1>3, <1>6, OneSaver, Roles DEF CoreOK, Active
  <2> QED BY <1>1, <1>2, <1>4, <2>1, <2>2, <2>3, Roles DEF CoreOK, Active
<1> QED BY <1>5, <1>6, Roles

\* Every step keeps the order between phases, savers and the barrier.
LEMMA CoreStep ==
    ASSUME CoreOK, SnapshotLoopNext
    PROVE  CoreOK'
<1> USE Roles
<1>1. ASSUME NEW failing \in SUBSET FaultyStores, Start(failing) PROVE CoreOK'
  <2>1. boots' \in 0..MaxBoots
    BY <1>1, SnapshotLoopAssumption DEF Start, CoreOK
  <2>2. /\ phase = "down" /\ phase' = "up" /\ looping' = TRUE /\ finalFailed' = FALSE
        /\ UNCHANGED <<step, saving>>
    BY <1>1 DEF Start, saveVars
  <2>3. BarrierInv' /\ \A p \in Procs : caller'[p] = caller[p]
    BY <1>1, QuietCore DEF Start
  <2> QED BY <2>1, <2>2, <2>3 DEF CoreOK, Phases, Active
<1>2. ASSUME NEW q \in Requests, Serve(q) \/ ServeRefused(q) PROVE CoreOK'
  BY <1>2, RequestCore DEF Serve, ServeRefused, CallerStep, saveVars, history
<1>3. ASSUME NEW q \in Requests, RequestDone(q) PROVE CoreOK'
  <2>1. phase # "down"
    BY <1>3 DEF RequestDone, Release, CoreOK, BarrierInv, NoLeakedLock
  <2> QED BY <1>3, <2>1, RequestCore DEF RequestDone, CallerStep, saveVars, history
<1>4. ASSUME NEW q \in Requests, Respond(q) PROVE CoreOK'
  BY <1>4, QuietCore DEF Respond, CoreOK, saveVars, procVars, Active
<1>5. ASSUME NEW q \in Requests, NEW s \in Stores, StoreWrite(q, s) PROVE CoreOK'
  BY <1>5, QuietCore DEF StoreWrite, CoreOK, saveVars, procVars, Active, history
<1>6. ASSUME NEW w \in Writers, ResetBegin(w) PROVE CoreOK'
  BY <1>6, RequestCore DEF ResetBegin, CallerStep, saveVars, history
<1>7. ASSUME NEW w \in Writers, ResetLocked(w) \/ ResetCancelled(w) \/ ResetDone(w) PROVE CoreOK'
  <2>1. phase # "down"
    BY <1>7 DEF ResetLocked, ResetCancelled, ResetDone, BeginReturns, BeginCancelled, Release,
       CoreOK, BarrierInv, NoLeakedLock, Free
  <2> QED BY <1>7, <2>1, RequestCore DEF ResetLocked, ResetCancelled, ResetDone, Others,
             CallerStep, saveVars, history
<1>8. ASSUME NEW w \in Writers, NEW s \in Stores, ResetStore(w, s) PROVE CoreOK'
  BY <1>8, QuietCore DEF ResetStore, CoreOK, saveVars, procVars, Active
<1>9. CASE Tick
  <2>1. step' \in [Savers -> Steps] /\ step'[Saver] = "flag" /\ step'[Shutdown] = step[Shutdown]
    BY <1>9 DEF Tick, CoreOK, Steps
  <2> QED BY <1>9, <2>1, QuietCore DEF Tick, CoreOK, procVars, Active, history
<1>10. CASE PeriodicLock
  <2>1. step' \in [Savers -> Steps] /\ step'[Saver] = "snapshot" /\ step'[Shutdown] = step[Shutdown]
    BY <1>10 DEF PeriodicLock, CoreOK, Steps
  <2>2. BarrierInv' /\ caller'[Saver] = "owner" /\ caller'[Shutdown] = caller[Shutdown]
    BY <1>10, OneCaller DEF PeriodicLock, CallerStep, CoreOK, TryReadBegin, BarrierInv,
       BarrierTypeOK
  <2> QED BY <1>10, <2>1, <2>2, OneSaver DEF PeriodicLock, CoreOK, procVars, Active
<1>11. CASE PeriodicSkip
  <2>1. step' \in [Savers -> Steps] /\ step'[Saver] = "idle" /\ step'[Shutdown] = step[Shutdown]
    BY <1>11 DEF PeriodicSkip, CoreOK, Steps
  <2>2. BarrierInv' /\ caller'[Saver] = "refused" /\ caller'[Shutdown] = caller[Shutdown]
    BY <1>11, OneCaller DEF PeriodicSkip, CallerStep, CoreOK, TryReadRefused, BarrierInv,
       BarrierTypeOK
  <2> QED BY <1>11, <2>1, <2>2, OneSaver DEF PeriodicSkip, CoreOK, procVars, Active, history
<1>12. CASE FinalLock
  <2>1. BarrierInv' /\ caller'[Shutdown] = "selecting" /\ caller'[Saver] = caller[Saver]
    BY <1>12, OneCaller DEF FinalLock, CallerStep, CoreOK, ReadBegin, BeginCall, BarrierInv,
       BarrierTypeOK
  <2> QED BY <1>12, <2>1, OneSaver DEF FinalLock, CoreOK, procVars, saveVars, Active, history
<1>13. CASE FinalLocked
  <2>1. step' \in [Savers -> Steps] /\ step'[Shutdown] = "snapshot" /\ step'[Saver] = step[Saver]
    BY <1>13 DEF FinalLocked, CoreOK, Steps
  <2>2. BarrierInv' /\ caller'[Shutdown] = "owner" /\ caller'[Saver] = caller[Saver]
        /\ step[Shutdown] = "flag"
    BY <1>13, OneCaller DEF FinalLocked, CallerStep, CoreOK, BeginReturns, BarrierInv,
       BarrierTypeOK
  <2> QED BY <1>13, <2>1, <2>2, OneSaver DEF FinalLocked, CoreOK, procVars, Active
<1>14. CASE FinalTimeout
  <2>1. step' \in [Savers -> Steps] /\ step'[Shutdown] = "idle" /\ step'[Saver] = step[Saver]
    BY <1>14 DEF FinalTimeout, CoreOK, Steps
  <2>2. BarrierInv' /\ caller'[Shutdown] = "drained" /\ caller'[Saver] = caller[Saver]
        /\ step[Shutdown] = "flag"
    BY <1>14, OneCaller DEF FinalTimeout, CallerStep, CoreOK, BeginCancelled, BarrierInv,
       BarrierTypeOK
  <2> QED BY <1>14, <2>1, <2>2, OneSaver DEF FinalTimeout, CoreOK, Active, Phases
<1>15. ASSUME NEW p \in Savers, NEW s \in Stores, SnapshotStore(p, s) PROVE CoreOK'
  BY <1>15, QuietCore DEF SnapshotStore, CoreOK, procVars, Active, history
<1>16. ASSUME NEW p \in Savers, Marshal(p) \/ WriteTmp(p) \/ SyncTmp(p) \/ RenameTmp(p)
       PROVE CoreOK'
  BY <1>16, AdvanceCore DEF Marshal, WriteTmp, SyncTmp, RenameTmp, Steps
<1>17. ASSUME NEW p \in Savers, DirSync(p) \/ SaveFails(p) PROVE CoreOK'
  BY <1>17, SaveReturnsCore DEF DirSync, SaveFails, Active
<1>18. CASE Signal
  BY <1>18, QuietCore DEF Signal, CoreOK, saveVars, Active, Phases, history
<1>19. CASE Stop
  BY <1>19, QuietCore DEF Stop, CoreOK, saveVars, Active, Phases
<1>20. CASE LoopReturns
  BY <1>20, QuietCore DEF LoopReturns, CoreOK, saveVars, Active, Phases, history
<1>21. CASE FinalSave
  <2>1. ~saving /\ step[Saver] = "idle"
    BY <1>21 DEF FinalSave, CoreOK
  <2>2. step' \in [Savers -> Steps] /\ step'[Shutdown] = "flag" /\ step'[Saver] = "idle"
    BY <1>21, <2>1 DEF FinalSave, CoreOK, Steps
  <2> QED BY <1>21, <2>1, <2>2, QuietCore DEF FinalSave, CoreOK, Active, Phases, history
<1>22. CASE Exit \/ PowerLoss
  BY <1>22, ProcessEndsCore DEF Exit, PowerLoss
<1>23. CASE BarrierProgress
  BY <1>23, ProgressCore DEF BarrierProgress, Others, saveVars, history
<1> QED BY <1>1, <1>2, <1>3, <1>4, <1>5, <1>6, <1>7, <1>8, <1>9, <1>10, <1>11, <1>12, <1>13,
           <1>14, <1>15, <1>16, <1>17, <1>18, <1>19, <1>20, <1>21, <1>22, <1>23
        DEF SnapshotLoopNext

-----------------------------------------------------------------------------
(* The stores *)

\* Whoever owns the barrier goes on owning it until it calls release.
LEMMA OwnersStay ==
    ASSUME BarrierInv, NEW p \in Procs,
           (CallerStep(p) /\ caller[p] # "owner") \/ LockProgress(p)
    PROVE  \A r \in Procs : caller[r] = "owner" => caller'[r] = "owner"
BY DEF CallerStep, ReadBegin, WriteBegin, BeginCall, BeginReturns, BeginCancelled, TryReadBegin,
   TryReadRefused, Release, LockProgress, RLock, Lock, LockAnnounces, LockReturns, Drain, Unlock,
   BarrierInv, BarrierTypeOK

\* A process that is down has neither a request nor a reset under way.
LEMMA DownIsIdle ==
    ASSUME CoreOK, MemoryOK, phase = "down"
    PROVE  /\ \A p \in Procs : caller[p] # "owner"
           /\ \A q \in Requests : wrote[q] = {}
           /\ \A w \in Writers : resetLeft[w] = Stores
<1>1. \A p \in Procs : caller[p] # "owner"
  BY DEF CoreOK, BarrierInv, NoLeakedLock
<1>2. \A q \in Requests : wrote[q] = {}
  BY <1>1, Roles DEF MemoryOK
<1>3. \A w \in Writers : Stores \ resetLeft[w] = {} /\ resetLeft[w] \subseteq Stores
  BY <1>1, Roles DEF MemoryOK
<1> QED BY <1>1, <1>2, <1>3

\* While a request or a saver owns the barrier, no reset has begun.
LEMMA ReaderOwns ==
    ASSUME CoreOK, MemoryOK, NEW p \in Procs \ Writers, caller[p] = "owner"
    PROVE  /\ \A w \in Writers : caller[w] # "owner" /\ resetLeft[w] = Stores
           /\ ~MidReset /\ phase # "down"
<1>1. \A w \in Writers : caller[w] # "owner"
  BY NoResetBeside DEF CoreOK
<1>2. \A w \in Writers : Stores \ resetLeft[w] = {} /\ resetLeft[w] \subseteq Stores
  BY <1>1 DEF MemoryOK
<1>3. phase # "down"
  BY DownIsIdle
<1> QED BY <1>1, <1>2, <1>3 DEF MidReset

\* While a reset owns the barrier, no request is under way and no saver reads.
LEMMA WriterOwns ==
    ASSUME CoreOK, MemoryOK, NEW w \in Writers, caller[w] = "owner"
    PROVE  /\ \A p \in Procs \ {w} : caller[p] # "owner"
           /\ \A q \in Requests : wrote[q] = {}
           /\ \A p \in Savers : ~Active(p)
           /\ \A v \in Writers \ {w} : resetLeft[v] = Stores
           /\ phase # "down"
<1>1. \A p \in Procs \ {w} : caller[p] # "owner"
  BY NoResetBeside DEF CoreOK
<1>2. \A q \in Requests : wrote[q] = {}
  BY <1>1, Roles DEF MemoryOK
<1>3. \A p \in Savers : ~Active(p)
  BY <1>1, Roles DEF CoreOK
<1>4. \A v \in Writers \ {w} : Stores \ resetLeft[v] = {} /\ resetLeft[v] \subseteq Stores
  BY <1>1, Roles DEF MemoryOK
<1>5. phase # "down"
  BY DownIsIdle, Roles
<1> QED BY <1>1, <1>2, <1>3, <1>4, <1>5

memoryVars == <<mem, wrote, resetLeft, acked, live, wiped, lost, atStop>>

\* A step that changes no store and takes the barrier from nobody.
MemoryIdle ==
    /\ UNCHANGED memoryVars
    /\ phase' = "down" <=> phase = "down"
    /\ \A p \in Requests \cup Writers : caller[p] = "owner" => caller'[p] = "owner"

LEMMA MemoryFrame == ASSUME MemoryOK, MemoryIdle PROVE MemoryOK'
BY DEF MemoryOK, MemoryIdle, memoryVars, In, NotIn

\* The steps of savers, and those between a caller and the barrier.
LEMMA IdleSteps ==
    ASSUME CoreOK, SnapshotLoopNext
    PROVE  \/ MemoryIdle
           \/ \E failing \in SUBSET FaultyStores : Start(failing)
           \/ \E q \in Requests : Respond(q) \/ RequestDone(q)
           \/ \E q \in Requests, s \in Stores : StoreWrite(q, s)
           \/ \E w \in Writers : ResetDone(w)
           \/ \E w \in Writers, s \in Stores : ResetStore(w, s)
           \/ Stop \/ Exit \/ PowerLoss
<1> USE Roles DEF memoryVars, history, procVars
<1>0. BarrierInv
  BY DEF CoreOK
<1>1. ASSUME NEW q \in Requests, Serve(q) \/ ServeRefused(q) PROVE MemoryIdle
  BY <1>0, <1>1, OwnersStay DEF Serve, ServeRefused, CallerStep, MemoryIdle, TryReadBegin,
     TryReadRefused, Free
<1>2. ASSUME NEW w \in Writers, ResetBegin(w) \/ ResetLocked(w) \/ ResetCancelled(w)
      PROVE MemoryIdle
  BY <1>0, <1>2, OwnersStay DEF ResetBegin, ResetLocked, ResetCancelled, CallerStep, MemoryIdle,
     Others, WriteBegin, BeginCall, BeginReturns, BeginCancelled, Free
<1>3. CASE PeriodicLock \/ PeriodicSkip
  <2>1. MemoryIdle
    BY <1>0, <1>3, OwnersStay DEF PeriodicLock, PeriodicSkip, CallerStep, MemoryIdle,
       TryReadBegin, TryReadRefused, Free
  <2> QED BY <2>1
<1>4. CASE FinalLock \/ FinalLocked \/ FinalTimeout
  <2>1. phase # "down"
    BY <1>4 DEF FinalLock, FinalLocked, FinalTimeout, CoreOK, BeginReturns, BeginCancelled
  <2>2. MemoryIdle
    BY <1>0, <1>4, <2>1, OwnersStay DEF FinalLock, FinalLocked, FinalTimeout, CallerStep,
       MemoryIdle, ReadBegin, BeginCall, BeginReturns, BeginCancelled, Free
  <2> QED BY <2>2
<1>5. ASSUME NEW p \in Savers, NEW s \in Stores, SnapshotStore(p, s) PROVE MemoryIdle
  BY <1>5 DEF SnapshotStore, MemoryIdle, barrierVars
<1>6. ASSUME NEW p \in Savers, Marshal(p) \/ WriteTmp(p) \/ SyncTmp(p) \/ RenameTmp(p)
      PROVE MemoryIdle
  BY <1>6 DEF Marshal, WriteTmp, SyncTmp, RenameTmp, Advance, MemoryIdle, barrierVars
<1>7. ASSUME NEW p \in Savers, DirSync(p) \/ SaveFails(p) PROVE MemoryIdle
  <2>1. PICK err \in BOOLEAN : SaveReturns(p, err)
    BY <1>7 DEF DirSync, SaveFails
  <2>2. \A r \in Procs \ {p} : caller'[r] = caller[r]
    BY <1>0, <2>1, OneCaller DEF SaveReturns, CallerStep
  <2>3. phase # "down" /\ phase' # "down"
    BY <1>7, <2>1, OneSaver DEF DirSync, SaveFails, SaveReturns
  <2> QED BY <2>1, <2>2, <2>3 DEF SaveReturns, MemoryIdle
<1>8. CASE Tick \/ Signal \/ LoopReturns \/ FinalSave
  <2>1. MemoryIdle
    BY <1>8 DEF Tick, Signal, LoopReturns, FinalSave, MemoryIdle, barrierVars
  <2> QED BY <2>1
<1>9. CASE BarrierProgress
  <2>1. MemoryIdle
    BY <1>0, <1>9, OwnersStay DEF BarrierProgress, Others, MemoryIdle
  <2> QED BY <2>1
<1> QED BY <1>1, <1>2, <1>3, <1>4, <1>5, <1>6, <1>7, <1>8, <1>9 DEF SnapshotLoopNext

LEMMA RestoredType ==
    ASSUME NEW f \in Files, NEW failing
    PROVE  Restored(f, failing) \in [Stores -> SUBSET Requests]
BY DEF Restored, Files, Empty

\* Every step keeps what the stores hold.
LEMMA MemoryStep ==
    ASSUME CoreOK, MemoryOK, file \in Files, SnapshotLoopNext
    PROVE  MemoryOK'
<1> USE Roles
<1>1. ASSUME NEW failing \in SUBSET FaultyStores, Start(failing) PROVE MemoryOK'
  <2>1. mem' \in [Stores -> SUBSET Requests]
    BY <1>1, RestoredType DEF Start
  <2>2. UNCHANGED <<wrote, resetLeft, acked>> /\ phase = "down" /\ phase' = "up"
    BY <1>1 DEF Start
  <2>3. lost' \subseteq Requests /\ wiped' \subseteq acked /\ atStop' = {}
    BY <1>1 DEF Start, MemoryOK
  <2>4. live' = {q \in acked : In(q, mem')} /\ \A q \in wiped' : NotIn(q, mem')
    BY <1>1 DEF Start
  <2> QED BY <2>1, <2>2, <2>3, <2>4, DownIsIdle DEF MemoryOK, In, NotIn
<1>2. ASSUME NEW q \in Requests, Respond(q) PROVE MemoryOK'
  <2>1. caller[q] = "owner" /\ wrote[q] = Stores /\ q \notin acked
        /\ acked' = acked \cup {q} /\ live' = live \cup {q}
        /\ UNCHANGED <<caller, phase, mem, wrote, resetLeft, wiped, lost, atStop>>
    BY <1>2 DEF Respond, barrierVars, procVars
  <2>2. In(q, mem) /\ phase # "down"
    BY <2>1, ReaderOwns DEF MemoryOK, In
  <2>3. live' = {r \in acked' : In(r, mem')}
    BY <2>1, <2>2 DEF MemoryOK, In
  <2> QED BY <2>1, <2>2, <2>3 DEF MemoryOK, NotIn, In
<1>3. ASSUME NEW q \in Requests, RequestDone(q) PROVE MemoryOK'
  <2>1. \A r \in Procs \ {q} : caller'[r] = caller[r]
    BY <1>3, OneCaller DEF RequestDone, CallerStep, CoreOK
  <2>2. /\ wrote' = [wrote EXCEPT ![q] = {}]
        /\ UNCHANGED <<phase, mem, resetLeft, acked, live, wiped, lost, atStop>>
    BY <1>3 DEF RequestDone, procVars, history
  <2> QED BY <2>1, <2>2 DEF MemoryOK, NotIn, In
<1>4. ASSUME NEW q \in Requests, NEW s \in Stores, StoreWrite(q, s) PROVE MemoryOK'
  <2>1. /\ caller[q] = "owner" /\ q \notin acked
        /\ mem' = [mem EXCEPT ![s] = @ \cup {q}] /\ wrote' = [wrote EXCEPT ![q] = @ \cup {s}]
        /\ UNCHANGED <<caller, phase, resetLeft, acked, live, wiped, lost, atStop>>
    BY <1>4 DEF StoreWrite, barrierVars, procVars, history
  <2>2. phase # "down" /\ \A w \in Writers : resetLeft[w] = Stores
    BY <2>1, ReaderOwns
  <2>3. mem' \in [Stores -> SUBSET Requests] /\ wrote' \in [Requests -> SUBSET Stores]
        /\ (\A t \in Stores : mem'[t] = IF t = s THEN mem[s] \cup {q} ELSE mem[t])
        /\ (\A r \in Requests : wrote'[r] = IF r = q THEN wrote[q] \cup {s} ELSE wrote[r])
    BY <2>1 DEF MemoryOK
  <2>4. \A r \in acked : /\ In(r, mem') <=> In(r, mem)
                         /\ NotIn(r, mem') <=> NotIn(r, mem)
    BY <2>1, <2>3 DEF In, NotIn
  <2>5. live' = {r \in acked' : In(r, mem')} /\ \A r \in wiped' : NotIn(r, mem')
    BY <2>1, <2>2, <2>4 DEF MemoryOK
  <2>6. \A r \in Requests : \A t \in wrote'[r] : caller'[r] = "owner" /\ r \in mem'[t]
    BY <2>1, <2>3 DEF MemoryOK
  <2> QED BY <2>1, <2>2, <2>3, <2>5, <2>6 DEF MemoryOK
<1>5. ASSUME NEW w \in Writers, ResetDone(w) PROVE MemoryOK'
  <2>1. \A r \in Procs \ {w} : caller'[r] = caller[r]
    BY <1>5, OneCaller DEF ResetDone, CallerStep, CoreOK
  <2>2. /\ resetLeft' = [resetLeft EXCEPT ![w] = Stores]
        /\ UNCHANGED <<phase, mem, wrote, acked, live, wiped, lost, atStop>>
    BY <1>5 DEF ResetDone, procVars, history
  <2> QED BY <2>1, <2>2 DEF MemoryOK, NotIn, In
<1>6. ASSUME NEW w \in Writers, NEW s \in Stores, ResetStore(w, s) PROVE MemoryOK'
  <2>1. /\ caller[w] = "owner" /\ s \in resetLeft[w]
        /\ mem' = [mem EXCEPT ![s] = {}] /\ resetLeft' = [resetLeft EXCEPT ![w] = @ \ {s}]
        /\ live' = {} /\ wiped' = IF resetLeft[w] = {s} THEN wiped \cup acked ELSE wiped
        /\ UNCHANGED <<caller, phase, wrote, acked, lost, atStop>>
    BY <1>6 DEF ResetStore, barrierVars, procVars
  <2>2. phase # "down" /\ (\A q \in Requests : wrote[q] = {})
    BY <2>1, WriterOwns
  <2>3. mem' \in [Stores -> SUBSET Requests] /\ resetLeft' \in [Writers -> SUBSET Stores]
        /\ (\A t \in Stores : mem'[t] = IF t = s THEN {} ELSE mem[t])
        /\ (\A v \in Writers : resetLeft'[v] = IF v = w THEN resetLeft[w] \ {s} ELSE resetLeft[v])
    BY <2>1 DEF MemoryOK
  <2>4. live' = {r \in acked' : In(r, mem')}
    BY <2>1, <2>3 DEF In
  <2>5. \A r \in wiped' : NotIn(r, mem')
    <3>1. CASE resetLeft[w] = {s}
      <4>1. \A t \in Stores : mem'[t] = {}
        BY <2>1, <2>3, <3>1 DEF MemoryOK
      <4> QED BY <4>1 DEF NotIn
    <3>2. CASE resetLeft[w] # {s}
      BY <2>1, <2>2, <2>3, <3>2 DEF MemoryOK, NotIn
    <3> QED BY <3>1, <3>2
  <2>6. \A v \in Writers : \A t \in Stores \ resetLeft'[v] : caller'[v] = "owner" /\ mem'[t] = {}
    BY <2>1, <2>3 DEF MemoryOK
  <2> QED BY <2>1, <2>2, <2>3, <2>4, <2>5, <2>6 DEF MemoryOK
<1>7. CASE Stop
  BY <1>7 DEF Stop, MemoryOK, In, NotIn, barrierVars, saveVars
<1>8. CASE Exit \/ PowerLoss
  <2>1. ProcessEnds
    BY <1>8 DEF Exit, PowerLoss
  <2>2. mem' \in [Stores -> SUBSET Requests] /\ wrote' \in [Requests -> SUBSET Stores]
        /\ resetLeft' \in [Writers -> SUBSET Stores]
        /\ (\A q \in Requests : wrote'[q] = {}) /\ (\A w \in Writers : resetLeft'[w] = Stores)
    BY <2>1 DEF ProcessEnds, Empty
  <2> QED BY <2>1, <2>2 DEF ProcessEnds, MemoryOK
<1> QED BY <1>1, <1>2, <1>3, <1>4, <1>5, <1>6, <1>7, <1>8, IdleSteps, MemoryFrame

-----------------------------------------------------------------------------
(* The snapshots *)

LEMMA SnapshotFacts ==
    ASSUME NEW g
    PROVE  g \in Snapshots <=> DOMAIN g \subseteq Stores /\ g \in [DOMAIN g -> SUBSET Requests]
BY DEF Snapshots

LEMMA NoSnapshot == [s \in {} |-> {}] \in Snapshots /\ DOMAIN [s \in {} |-> {}] = {}
BY SnapshotFacts

LEMMA SnapshotAdds ==
    ASSUME NEW g \in Snapshots, NEW s \in Stores, NEW v \in SUBSET Requests
    PROVE  [t \in DOMAIN g \cup {s} |-> IF t = s THEN v ELSE g[t]] \in Snapshots
<1> DEFINE h == [t \in DOMAIN g \cup {s} |-> IF t = s THEN v ELSE g[t]]
<1>1. DOMAIN g \subseteq Stores /\ \A t \in DOMAIN g : g[t] \in SUBSET Requests
  BY SnapshotFacts
<1>2. DOMAIN h \subseteq Stores /\ h \in [DOMAIN h -> SUBSET Requests]
  BY <1>1
<1> HIDE DEF h
<1> QED BY <1>2, SnapshotFacts DEF h

\* A step that leaves the savers where they are and takes nothing from the
\* stores while one of them reads.
LEMMA SnapFrame ==
    ASSUME SnapOK, UNCHANGED <<snap, seen, step>>,
           (\E p \in Savers : Active(p)) => live \subseteq live' /\ \A s \in Stores : mem[s] \subseteq mem'[s]
    PROVE  SnapOK'
<1>1. \A p \in Savers : DOMAIN snap[p] \subseteq Stores
  BY SnapshotFacts DEF SnapOK
<1> QED BY <1>1 DEF SnapOK, Active

\* A step of a saver from one place under its lock to another.
LEMMA SnapAdvance ==
    ASSUME SnapOK, NEW p \in Savers, NEW from, NEW to, Advance(p, from, to),
           step \in [Savers -> Steps], from \notin {"idle", "flag"}, to \notin {"idle", "flag"},
           to \in {"write", "sync", "rename", "dirsync"} => DOMAIN snap[p] = Stores
    PROVE  SnapOK'
<1>1. \A r \in Savers : step'[r] = IF r = p THEN to ELSE step[r]
  BY DEF Advance
<1>2. step[p] = from /\ UNCHANGED <<snap, seen, live, mem>>
  BY DEF Advance, history
<1> QED BY <1>1, <1>2 DEF SnapOK, Active

\* Every step keeps what a saver has read: no less than what it has to save,
\* and nothing the store has lost meanwhile.
LEMMA SnapStep ==
    ASSUME CoreOK, MemoryOK, SnapOK, SnapshotLoopNext
    PROVE  SnapOK'
<1> USE Roles
<1>0. step \in [Savers -> Steps]
  BY DEF CoreOK
<1>1. ASSUME NEW failing \in SUBSET FaultyStores, Start(failing) PROVE SnapOK'
  <2>1. \A p \in Savers : ~Active(p)
    BY <1>1, OneSaver DEF Start, Active
  <2> QED BY <1>1, <2>1, SnapFrame DEF Start, saveVars
<1>2. ASSUME NEW q \in Requests, Respond(q) PROVE SnapOK'
  BY <1>2, SnapFrame DEF Respond, saveVars
<1>3. ASSUME NEW q \in Requests, NEW s \in Stores, StoreWrite(q, s) PROVE SnapOK'
  <2>1. \A t \in Stores : mem[t] \subseteq mem'[t]
    BY <1>3 DEF StoreWrite, MemoryOK
  <2> QED BY <1>3, <2>1, SnapFrame DEF StoreWrite, saveVars, history
<1>4. ASSUME NEW w \in Writers, NEW s \in Stores, ResetStore(w, s) PROVE SnapOK'
  BY <1>4, WriterOwns, SnapFrame DEF ResetStore, saveVars
<1>5. ASSUME NEW q \in Requests, Serve(q) \/ ServeRefused(q) \/ RequestDone(q) PROVE SnapOK'
  BY <1>5, SnapFrame DEF Serve, ServeRefused, RequestDone, saveVars, history
<1>6. ASSUME NEW w \in Writers, ResetBegin(w) \/ ResetLocked(w) \/ ResetCancelled(w) \/ ResetDone(w)
      PROVE SnapOK'
  BY <1>6, SnapFrame DEF ResetBegin, ResetLocked, ResetCancelled, ResetDone, Others, saveVars, history
<1>7. CASE Signal \/ Stop \/ LoopReturns \/ BarrierProgress \/ FinalLock
  BY <1>7, SnapFrame DEF Signal, Stop, LoopReturns, BarrierProgress, Others, FinalLock, saveVars,
     history
<1>8. CASE Tick \/ PeriodicSkip \/ FinalTimeout \/ FinalSave
  <2>1. PICK p \in Savers : \A r \in Savers \ {p} : step'[r] = step[r]
        /\ step[p] \in {"idle", "flag"} /\ step'[p] \in {"idle", "flag"}
    <3>1. CASE Tick \/ PeriodicSkip
      BY <1>0, <3>1 DEF Tick, PeriodicSkip
    <3>2. CASE FinalTimeout
      BY <1>0, <3>2 DEF FinalTimeout, BeginCancelled, CoreOK
    <3>3. CASE FinalSave
      BY <1>0, <3>3 DEF FinalSave, CoreOK, saveVars
    <3> QED BY <1>8, <3>1, <3>2, <3>3
  <2>2. UNCHANGED <<snap, seen, live, mem>>
    BY <1>8 DEF Tick, PeriodicSkip, FinalTimeout, FinalSave, saveVars, history
  <2> QED BY <2>1, <2>2 DEF SnapOK, Active
<1>9. CASE PeriodicLock \/ FinalLocked
  <2>1. PICK p \in Savers : step[p] = "flag" /\ step' = [step EXCEPT ![p] = "snapshot"]
                            /\ seen' = [seen EXCEPT ![p] = live]
    BY <1>9 DEF PeriodicLock, FinalLocked, BeginReturns, CoreOK
  <2>2. UNCHANGED <<snap, live, mem>>
    BY <1>9 DEF PeriodicLock, FinalLocked
  <2>3. live \subseteq Requests
    BY DEF MemoryOK
  <2> QED BY <1>0, <2>1, <2>2, <2>3 DEF SnapOK, Active
<1>10. ASSUME NEW p \in Savers, NEW s \in Stores, SnapshotStore(p, s) PROVE SnapOK'
  <2> DEFINE g == [t \in DOMAIN snap[p] \cup {s} |-> IF t = s THEN mem[s] ELSE snap[p][t]]
  <2>1. snap' = [snap EXCEPT ![p] = g] /\ step[p] = "snapshot"
        /\ UNCHANGED <<step, seen, live, mem>>
    BY <1>10 DEF SnapshotStore, history
  <2>2. g \in Snapshots
    <3>1. snap[p] \in Snapshots /\ mem[s] \in SUBSET Requests
      BY DEF SnapOK, MemoryOK
    <3> QED BY <3>1, SnapshotAdds
  <2>3. \A t \in DOMAIN g : seen[p] \subseteq g[t] /\ g[t] \subseteq mem[t]
    <3>1. seen[p] \subseteq mem[s]
      BY <2>1 DEF SnapOK, Active, MemoryOK, In
    <3> QED BY <3>1 DEF SnapOK
  <2> HIDE DEF g
  <2>4. snap' \in [Savers -> Snapshots] /\ \A r \in Savers : snap'[r] = IF r = p THEN g ELSE snap[r]
    BY <2>1, <2>2 DEF SnapOK
  <2> QED BY <2>1, <2>3, <2>4 DEF SnapOK, Active
<1>11. ASSUME NEW p \in Savers, Marshal(p) \/ WriteTmp(p) \/ SyncTmp(p) \/ RenameTmp(p)
       PROVE SnapOK'
  <2>1. CASE Marshal(p)
    BY <1>0, <2>1, SnapAdvance DEF Marshal
  <2>2. CASE WriteTmp(p)
    <3>1. DOMAIN snap[p] = Stores
      BY <2>2 DEF WriteTmp, Advance, SnapOK
    <3> QED BY <1>0, <2>2, <3>1, SnapAdvance DEF WriteTmp
  <2>3. CASE SyncTmp(p)
    <3>1. DOMAIN snap[p] = Stores
      BY <2>3 DEF SyncTmp, Advance, SnapOK
    <3> QED BY <1>0, <2>3, <3>1, SnapAdvance DEF SyncTmp
  <2>4. CASE RenameTmp(p)
    <3>1. DOMAIN snap[p] = Stores
      BY <2>4 DEF RenameTmp, Advance, SnapOK
    <3> QED BY <1>0, <2>4, <3>1, SnapAdvance DEF RenameTmp
  <2> QED BY <1>11, <2>1, <2>2, <2>3, <2>4
<1>12. ASSUME NEW p \in Savers, DirSync(p) \/ SaveFails(p) PROVE SnapOK'
  <2>1. /\ step' = [step EXCEPT ![p] = "idle"] /\ UNCHANGED <<live, mem>>
        /\ snap' = [snap EXCEPT ![p] = [s \in {} |-> {}]] /\ seen' = [seen EXCEPT ![p] = {}]
    BY <1>12 DEF DirSync, SaveFails, SaveReturns
  <2>2. snap' \in [Savers -> Snapshots] /\ DOMAIN snap'[p] = {}
        /\ \A r \in Savers \ {p} : snap'[r] = snap[r]
    BY <2>1, NoSnapshot DEF SnapOK
  <2> QED BY <1>0, <2>1, <2>2 DEF SnapOK, Active
<1>13. CASE Exit \/ PowerLoss
  <2>1. ProcessEnds
    BY <1>13 DEF Exit, PowerLoss
  <2>2. snap' \in [Savers -> Snapshots] /\ \A r \in Savers : DOMAIN snap'[r] = {}
    BY <2>1, NoSnapshot DEF ProcessEnds
  <2> QED BY <2>1, <2>2 DEF ProcessEnds, SnapOK, Active
<1> QED BY <1>1, <1>2, <1>3, <1>4, <1>5, <1>6, <1>7, <1>8, <1>9, <1>10, <1>11, <1>12, <1>13
        DEF SnapshotLoopNext

-----------------------------------------------------------------------------
(* The files *)

FileRecords == [data : [Stores -> SUBSET Requests] \cup {Torn}, synced : BOOLEAN,
                must : SUBSET Requests, gone : SUBSET Requests]

LEMMA FileFacts ==
    /\ Files = FileRecords \cup {NoFile} /\ NoFile \notin FileRecords
    /\ Torn \notin [Stores -> SUBSET Requests]
BY SnapshotLoopAssumption DEF Files, FileRecords

\* The files that the savers and a power loss make.
LEMMA FileRecord ==
    ASSUME NEW d \in [Stores -> SUBSET Requests] \cup {Torn}, NEW b \in BOOLEAN,
           NEW m \in SUBSET Requests, NEW g \in SUBSET Requests
    PROVE  [data |-> d, synced |-> b, must |-> m, gone |-> g] \in FileRecords
<1> DEFINE D == [Stores -> SUBSET Requests] \cup {Torn}
<1> HIDE DEF D
<1>1. d \in D
  BY DEF D
<1>2. [data |-> d, synced |-> b, must |-> m, gone |-> g]
        \in [data : D, synced : BOOLEAN, must : SUBSET Requests, gone : SUBSET Requests]
  BY <1>1
<1> QED BY <1>2 DEF D, FileRecords

\* A snapshot of every store is the data of a file.
LEMMA FullSnapshot ==
    ASSUME SnapOK, NEW p \in Savers, DOMAIN snap[p] = Stores
    PROVE  snap[p] \in [Stores -> SUBSET Requests] /\ seen[p] \subseteq Requests
BY SnapshotFacts DEF SnapOK

\* A published file survives a power loss as it is.
LEMMA KeptSurvives ==
    ASSUME NEW f, Kept(f)
    PROVE  Survivors(f) = {f}
BY DEF Kept, Survivors

\* A step of no saver leaves the files alone.
LEMMA DiskFrame ==
    ASSUME DiskOK, UNCHANGED <<diskVars, snap, seen>>, acked \subseteq acked',
           \A p \in Savers : step'[p] # step[p] => step'[p] \notin {"sync", "rename", "dirsync"}
    PROVE  DiskOK'
<1>1. UNCHANGED <<file, tmp, backup>>
  BY DEF diskVars
<1>2. Kept(file)' /\ Kept(backup)'
  BY <1>1 DEF Kept, DiskOK, In, NotIn
<1> QED BY <1>1, <1>2 DEF DiskOK

\* Every step keeps the files: only the one active saver touches them.
LEMMA DiskStep ==
    ASSUME CoreOK, MemoryOK, SnapOK, DiskOK, SnapshotLoopNext
    PROVE  DiskOK'
<1> USE Roles
<1>0. step \in [Savers -> Steps]
  BY DEF CoreOK
<1>1. ASSUME NEW failing \in SUBSET FaultyStores, Start(failing) PROVE DiskOK'
  BY <1>1, DiskFrame DEF Start, saveVars
<1>2. ASSUME NEW q \in Requests, Respond(q) \/ RequestDone(q) \/ Serve(q) \/ ServeRefused(q)
      PROVE DiskOK'
  BY <1>2, DiskFrame DEF Respond, RequestDone, Serve, ServeRefused, saveVars, history
<1>3. ASSUME NEW q \in Requests, NEW s \in Stores, StoreWrite(q, s) PROVE DiskOK'
  BY <1>3, DiskFrame DEF StoreWrite, saveVars, history
<1>4. ASSUME NEW w \in Writers, NEW s \in Stores, ResetStore(w, s) PROVE DiskOK'
  BY <1>4, DiskFrame DEF ResetStore, saveVars
<1>5. ASSUME NEW w \in Writers, ResetBegin(w) \/ ResetLocked(w) \/ ResetCancelled(w) \/ ResetDone(w)
      PROVE DiskOK'
  BY <1>5, DiskFrame DEF ResetBegin, ResetLocked, ResetCancelled, ResetDone, Others, saveVars, history
<1>6. CASE Signal \/ Stop \/ LoopReturns \/ BarrierProgress \/ FinalLock
  BY <1>6, DiskFrame DEF Signal, Stop, LoopReturns, BarrierProgress, Others, FinalLock, saveVars,
     history
<1>7. CASE Tick \/ PeriodicSkip
  BY <1>0, <1>7, DiskFrame DEF Tick, PeriodicSkip, history
<1>8. CASE FinalTimeout
  BY <1>0, <1>8, DiskFrame DEF FinalTimeout
<1>9. CASE FinalSave
  BY <1>0, <1>9, DiskFrame DEF FinalSave, CoreOK, history
<1>10. CASE PeriodicLock \/ FinalLocked
  <2>1. PICK p \in Savers : step[p] = "flag" /\ step' = [step EXCEPT ![p] = "snapshot"]
                            /\ seen' = [seen EXCEPT ![p] = live]
    BY <1>10 DEF PeriodicLock, FinalLocked, BeginReturns, CoreOK
  <2>2. \A r \in Savers : step'[r] \notin {"sync", "rename", "dirsync"}
    BY <1>0, <2>1, OneSaver
  <2>3. UNCHANGED <<file, tmp, backup, acked>>
    BY <1>10 DEF PeriodicLock, FinalLocked, diskVars
  <2> QED BY <2>2, <2>3 DEF DiskOK, Kept, In, NotIn
<1>11. ASSUME NEW p \in Savers, NEW s \in Stores, SnapshotStore(p, s) PROVE DiskOK'
  <2>1. \A r \in Savers : step'[r] \notin {"sync", "rename", "dirsync"}
    BY <1>0, <1>11, OneSaver DEF SnapshotStore
  <2>2. UNCHANGED <<file, tmp, backup, acked>>
    BY <1>11 DEF SnapshotStore, diskVars, history
  <2> QED BY <2>1, <2>2 DEF DiskOK, Kept, In, NotIn
<1>12. ASSUME NEW p \in Savers, Marshal(p) PROVE DiskOK'
  <2>1. \A r \in Savers : step'[r] \notin {"sync", "rename", "dirsync"}
    BY <1>0, <1>12, OneSaver DEF Marshal, Advance
  <2>2. UNCHANGED <<file, tmp, backup, acked>>
    BY <1>12 DEF Marshal, Advance, diskVars, history
  <2> QED BY <2>1, <2>2 DEF DiskOK, Kept, In, NotIn
<1>13. ASSUME NEW p \in Savers, WriteTmp(p) PROVE DiskOK'
  <2>1. step[p] = "write" /\ DOMAIN snap[p] = Stores
    BY <1>13 DEF WriteTmp, Advance, SnapOK
  <2>2. step'[p] = "sync" /\ \A r \in Savers \ {p} : step'[r] = "idle"
    BY <1>0, <1>13, <2>1, OneSaver DEF WriteTmp, Advance
  <2>3. tmp' = [data |-> snap[p], synced |-> FALSE, must |-> seen[p], gone |-> {}]
        /\ UNCHANGED <<file, backup, acked, snap, seen>>
    BY <1>13 DEF WriteTmp, Advance, history
  <2>4. tmp' \in Files
    <3>1. snap[p] \in [Stores -> SUBSET Requests] \cup {Torn} /\ seen[p] \in SUBSET Requests
      BY <2>1, FullSnapshot
    <3> QED BY <2>3, <3>1, FileFacts, FileRecord
  <2> QED BY <2>2, <2>3, <2>4 DEF DiskOK, Kept, In, NotIn
<1>14. ASSUME NEW p \in Savers, SyncTmp(p) PROVE DiskOK'
  <2>1. step[p] = "sync" /\ DOMAIN snap[p] = Stores
    BY <1>14 DEF SyncTmp, Advance, SnapOK
  <2>2. step'[p] = "rename" /\ \A r \in Savers \ {p} : step'[r] = "idle"
    BY <1>0, <1>14, <2>1, OneSaver DEF SyncTmp, Advance
  <2>3. tmp' = [data |-> snap[p], synced |-> TRUE, must |-> seen[p], gone |-> {}]
        /\ UNCHANGED <<file, backup, acked, snap, seen>>
    <3>1. tmp = [data |-> snap[p], synced |-> step[p] = "rename", must |-> seen[p], gone |-> {}]
      BY <2>1 DEF DiskOK
    <3>2. tmp' = [tmp EXCEPT !.synced = TRUE]
      BY <1>14 DEF SyncTmp
    <3>3. tmp' = [data |-> snap[p], synced |-> TRUE, must |-> seen[p], gone |-> {}]
      BY <3>1, <3>2
    <3> QED BY <1>14, <3>3 DEF SyncTmp, Advance, history
  <2>4. tmp' \in Files
    <3>1. snap[p] \in [Stores -> SUBSET Requests] \cup {Torn} /\ seen[p] \in SUBSET Requests
      BY <2>1, FullSnapshot
    <3> QED BY <2>3, <3>1, FileFacts, FileRecord
  <2> QED BY <2>2, <2>3, <2>4 DEF DiskOK, Kept, In, NotIn
<1>15. ASSUME NEW p \in Savers, RenameTmp(p) PROVE DiskOK'
  <2>1. step[p] = "rename" /\ DOMAIN snap[p] = Stores /\ Active(p)
    BY <1>15 DEF RenameTmp, Advance, SnapOK, Active
  <2>2. step'[p] = "dirsync" /\ \A r \in Savers \ {p} : step'[r] = "idle"
    BY <1>0, <1>15, <2>1, OneSaver DEF RenameTmp, Advance
  <2>3. file' = [data |-> snap[p], synced |-> TRUE, must |-> seen[p], gone |-> wiped]
        /\ tmp' = NoFile /\ UNCHANGED <<backup, acked, snap, seen>>
    <3>1. tmp = [data |-> snap[p], synced |-> step[p] = "rename", must |-> seen[p], gone |-> {}]
      BY <2>1 DEF DiskOK
    <3>2. (step[p] = "rename") = TRUE
      BY <2>1
    <3>3. file' = [tmp EXCEPT !.gone = wiped]
      BY <1>15 DEF RenameTmp
    <3>4. file' = [data |-> snap[p], synced |-> TRUE, must |-> seen[p], gone |-> wiped]
      BY <3>1, <3>2, <3>3
    <3> QED BY <1>15, <3>4 DEF RenameTmp, Advance, history
  <2>4. file' \in FileRecords /\ snap[p] # Torn
    <3>1. snap[p] \in [Stores -> SUBSET Requests] /\ seen[p] \in SUBSET Requests
      BY <2>1, FullSnapshot
    <3>2. wiped \in SUBSET Requests
      BY DEF MemoryOK
    <3> QED BY <2>3, <3>1, <3>2, FileFacts, FileRecord
  <2>5. seen[p] \subseteq acked /\ (\A q \in seen[p] : In(q, snap[p]))
    BY <2>1 DEF SnapOK, MemoryOK, In
  <2>6. phase # "down"
    BY <2>1, OneSaver
  <2>7. \A q \in wiped : NotIn(q, snap[p])
    BY <2>1, <2>6 DEF SnapOK, MemoryOK, NotIn
  <2>8. Kept(file)'
    BY <2>3, <2>4, <2>5, <2>7 DEF Kept, In, NotIn
  <2>9. Kept(backup)' /\ backup' \in Files
    BY <2>3 DEF DiskOK, Kept, In, NotIn
  <2>10. file' # NoFile /\ file'.must = seen'[p] /\ file' \in Files /\ tmp' \in Files
    BY <2>3, <2>4, FileFacts
  <2> QED BY <2>2, <2>8, <2>9, <2>10 DEF DiskOK
<1>16. ASSUME NEW p \in Savers, DirSync(p) \/ SaveFails(p) PROVE DiskOK'
  <2>1. step' = [step EXCEPT ![p] = "idle"] /\ step[p] # "idle" /\ UNCHANGED acked
    BY <1>16 DEF DirSync, SaveFails, SaveReturns
  <2>2. \A r \in Savers : step'[r] = "idle"
    BY <1>0, <2>1, OneSaver
  <2>3. UNCHANGED file /\ tmp' \in {tmp, NoFile} /\ backup' \in {backup, file}
    BY <1>16 DEF DirSync, SaveFails
  <2>4. file' \in Files /\ tmp' \in Files /\ backup' \in Files
    BY <2>3, FileFacts DEF DiskOK
  <2>5. Kept(file)' /\ Kept(backup)'
    BY <2>1, <2>3 DEF Kept, DiskOK, In, NotIn
  <2> QED BY <2>2, <2>4, <2>5 DEF DiskOK
<1>17. CASE Exit \/ PowerLoss
  <2>1. (\A r \in Savers : step'[r] = "idle") /\ UNCHANGED acked
    BY <1>17 DEF Exit, PowerLoss, ProcessEnds
  <2>2. file' \in {file, backup} /\ backup' \in {file, backup}
    BY <1>17, KeptSurvives DEF Exit, PowerLoss, diskVars, DiskOK
  <2>3. tmp' \in Files
    <3>1. CASE Exit
      BY <3>1 DEF Exit, diskVars, DiskOK
    <3>2. CASE PowerLoss
      <4>1. tmp' \in {tmp, NoFile, [data |-> Torn, synced |-> TRUE, must |-> {}, gone |-> {}]}
        BY <3>2 DEF PowerLoss, Survivors
      <4>2. [data |-> Torn, synced |-> TRUE, must |-> {}, gone |-> {}] \in FileRecords
        BY FileRecord
      <4> QED BY <4>1, <4>2, FileFacts DEF DiskOK
    <3> QED BY <1>17, <3>1, <3>2
  <2>4. Kept(file)' /\ Kept(backup)'
    BY <2>1, <2>2 DEF Kept, DiskOK, In, NotIn
  <2> QED BY <2>1, <2>2, <2>3, <2>4 DEF DiskOK
<1> QED BY <1>1, <1>2, <1>3, <1>4, <1>5, <1>6, <1>7, <1>8, <1>9, <1>10, <1>11, <1>12, <1>13,
           <1>14, <1>15, <1>16, <1>17 DEF SnapshotLoopNext

-----------------------------------------------------------------------------
(* What a completed save holds *)

\* A saver gets its lock while no reset has begun to empty the stores.
LEMMA NoResetAtLock ==
    ASSUME CoreOK, MemoryOK, PeriodicLock \/ FinalLocked
    PROVE  ~MidReset /\ phase # "down"
<1> USE Roles
<1>1. \A w \in Writers : caller[w] # "owner"
  <2>1. CASE PeriodicLock
    BY <2>1, BarrierAssumption DEF PeriodicLock, TryReadBegin, ReadersAdmitted, CoreOK, BarrierInv,
       AnnouncedOwnsLock, NoLeakedLock, Procs
  <2>2. CASE FinalLocked
    BY <2>2, BarrierAssumption DEF FinalLocked, BeginReturns, CoreOK, BarrierInv, AnnouncedOwnsLock,
       NoLeakedLock, Procs, Readers
  <2> QED BY <2>1, <2>2
<1>2. \A w \in Writers : Stores \ resetLeft[w] = {} /\ resetLeft[w] \subseteq Stores
  BY <1>1 DEF MemoryOK
<1>3. phase # "down"
  BY OneSaver DEF PeriodicLock, FinalLocked, BeginReturns, CoreOK
<1> QED BY <1>2, <1>3 DEF MidReset

\* The one that empties the last store wipes all that was answered.
LEMMA ResetStoreMid ==
    ASSUME MemoryOK, NEW w \in Writers, NEW s \in Stores, ResetStore(w, s)
    PROVE  MidReset' \/ acked \subseteq wiped'
<1>1. CASE resetLeft[w] = {s}
  BY <1>1 DEF ResetStore
<1>2. CASE resetLeft[w] # {s}
  <2>1. resetLeft'[w] = resetLeft[w] \ {s}
    BY DEF ResetStore, MemoryOK
  <2>2. s \in resetLeft[w]
    BY DEF ResetStore
  <2>3. resetLeft'[w] # {} /\ resetLeft'[w] # Stores
    BY <1>2, <2>1, <2>2
  <2> QED BY <2>3 DEF MidReset
<1> QED BY <1>1, <1>2

LEMMA ResetDoneMid ==
    ASSUME MemoryOK, NEW w \in Writers, ResetDone(w)
    PROVE  MidReset' <=> MidReset
<1>1. resetLeft[w] = {} /\ \A v \in Writers : resetLeft'[v] = IF v = w THEN Stores ELSE resetLeft[v]
  BY DEF ResetDone, MemoryOK
<1> QED BY <1>1 DEF MidReset

\* The requests a published file promises were answered.
LEMMA MustAcked ==
    ASSUME DiskOK
    PROVE  Must(file) \subseteq acked /\ Must(backup) \subseteq acked
BY DEF DiskOK, Kept, Must

\* A step that changes neither file nor what a saver works on, and takes
\* nothing from the stores unless a reset is half way.
LEMMA DurableFrame ==
    ASSUME DurableOK, UNCHANGED <<file, backup, lost>>, wiped \subseteq wiped',
           \A p \in Savers : Active(p)' =>
               Active(p) /\ seen'[p] = seen[p] /\ Must(backup) \cap live' \subseteq live,
           phase' # "down" /\ ~MidReset' =>
               phase # "down" /\ ~MidReset /\ \A s \in Stores : mem[s] \subseteq mem'[s]
    PROVE  DurableOK'
<1>1. Must(file)' = Must(file) /\ Must(backup)' = Must(backup) /\ Durable' \subseteq Durable
  BY DEF Must, Durable
<1>2. phase' # "down" /\ ~MidReset' => \A q \in Durable' : In(q, mem')
  BY <1>1 DEF DurableOK, In
<1>3. file' # NoFile => \A q \in Must(backup)' :
          /\ In(q, file'.data) => q \in file'.must
          /\ In(q, file'.data) \/ NotIn(q, file'.data) \/ q \in lost'
  BY <1>1 DEF DurableOK
<1>4. \A p \in Savers : Active(p)' =>
          /\ Durable' \subseteq seen'[p]
          /\ Must(backup)' \cap live' \subseteq seen'[p]
  BY <1>1 DEF DurableOK
<1>5. Durable' \subseteq Must(file)'
  BY <1>1 DEF DurableOK
<1> QED BY <1>2, <1>3, <1>4, <1>5 DEF DurableOK, In, NotIn

\* Startup brings back every request of the durable file that is in the newer
\* one, and notes as lost what a failed Restore has skipped.
LEMMA DurableStart ==
    ASSUME CoreOK, MemoryOK, DiskOK, DurableOK, NEW failing \in SUBSET FaultyStores, Start(failing)
    PROVE  DurableOK'
<1> USE Roles
<1>1. /\ phase = "down" /\ UNCHANGED <<file, backup, step, seen, acked>>
      /\ mem' = Restored(file, failing)
      /\ wiped' = {q \in wiped : NotIn(q, mem')}
      /\ lost' = IF failing = {} \/ file = NoFile THEN lost ELSE {q \in Requests : ~In(q, mem')}
  BY DEF Start, diskVars, saveVars
<1>2. \A p \in Savers : ~Active(p)'
  BY <1>1, OneSaver DEF Active
<1>3. Must(file)' = Must(file) /\ Must(backup)' = Must(backup)
  BY <1>1 DEF Must
<1>4. CASE file = NoFile
  <2>1. Durable = {}
    BY <1>4 DEF DurableOK, Must
  <2>2. mem' = Empty /\ lost' = lost
    BY <1>1, <1>4 DEF Restored
  <2>3. wiped' = wiped
    BY <1>1, <2>2 DEF NotIn, Empty
  <2>4. Durable' = {}
    BY <1>3, <2>1, <2>2, <2>3 DEF Durable
  <2> QED BY <1>1, <1>2, <1>4, <2>4 DEF DurableOK
<1>5. CASE file # NoFile
  <2>1. /\ Must(file) = file.must
        /\ \A q \in file.must : In(q, file.data)
        /\ \A s \in Stores : mem'[s] = IF s \in failing THEN {} ELSE file.data[s]
    BY <1>1, <1>5 DEF Must, Restored, DiskOK, Kept
  <2>2. ASSUME NEW q \in Must(backup)
        PROVE  /\ In(q, file.data) => q \in file.must
               /\ In(q, file.data) \/ NotIn(q, file.data) \/ q \in lost
    BY <1>5, <2>2 DEF DurableOK
  <2>3. \A q \in Must(backup) : q \in Requests
    BY MustAcked DEF MemoryOK
  <2>4. CASE failing = {}
    <3>1. lost' = lost /\ \A q : (In(q, mem') <=> In(q, file.data)) /\ (NotIn(q, mem') <=> NotIn(q, file.data))
      BY <1>1, <2>1, <2>4 DEF In, NotIn
    <3>2. ASSUME NEW q \in Durable' PROVE In(q, file.data)
      <4>1. q \in Must(backup) /\ q \notin lost /\ q \notin wiped'
        BY <1>3, <3>1 DEF Durable
      <4>2. CASE NotIn(q, file.data)
        <5>1. q \in Durable
          BY <1>1, <3>1, <4>1, <4>2 DEF Durable
        <5> QED BY <2>1, <5>1 DEF DurableOK
      <4> QED BY <2>2, <4>1, <4>2
    <3>3. Durable' \subseteq Must(file)'
      BY <1>3, <2>1, <2>2, <3>2 DEF Durable
    <3>4. \A q \in Durable' : In(q, mem')
      BY <3>1, <3>2
    <3> QED BY <1>1, <1>2, <1>3, <2>2, <3>1, <3>3, <3>4 DEF DurableOK, In, NotIn
  <2>5. CASE failing # {}
    <3>1. lost' = {q \in Requests : ~In(q, mem')}
      BY <1>1, <1>5, <2>5
    <3>2. \A q : In(q, mem') => In(q, file.data)
      BY <2>1 DEF In
    <3>3. \A q \in Must(backup) : q \notin lost' => In(q, mem') /\ In(q, file.data)
      BY <2>3, <3>1, <3>2
    <3>4. \A q \in Durable' : q \in Must(backup) /\ q \notin lost'
      BY <1>3 DEF Durable
    <3>5. Durable' \subseteq Must(file)'
      BY <1>3, <2>1, <2>2, <3>3, <3>4
    <3>6. \A q \in Durable' : In(q, mem')
      BY <3>3, <3>4
    <3> QED BY <1>1, <1>2, <1>3, <2>2, <3>3, <3>5, <3>6 DEF DurableOK, In, NotIn
  <2> QED BY <2>4, <2>5
<1> QED BY <1>4, <1>5

\* A saver that gets its lock finds all of it in the stores.
LEMMA DurableLock ==
    ASSUME CoreOK, MemoryOK, SnapOK, DiskOK, DurableOK, PeriodicLock \/ FinalLocked
    PROVE  DurableOK'
<1> USE Roles
<1>1. PICK p \in Savers : step[p] = "flag" /\ step' = [step EXCEPT ![p] = "snapshot"]
                          /\ seen' = [seen EXCEPT ![p] = live]
  BY DEF PeriodicLock, FinalLocked, BeginReturns, CoreOK
<1>2. UNCHANGED <<file, backup, lost, wiped, live, mem, resetLeft, phase>>
  BY DEF PeriodicLock, FinalLocked, diskVars, procVars
<1>3. ~MidReset /\ phase # "down"
  BY NoResetAtLock
<1>4. Durable \subseteq live
  BY <1>3, MustAcked DEF DurableOK, MemoryOK, Durable
<1>5. Must(file)' = Must(file) /\ Must(backup)' = Must(backup) /\ Durable' = Durable
  BY <1>2 DEF Must, Durable
<1>6. \A r \in Savers : Active(r)' => r = p
  BY <1>1, OneSaver DEF Active, CoreOK
<1>7. seen'[p] = live
  BY <1>1 DEF SnapOK
<1>8. /\ phase' # "down" /\ ~MidReset' => \A q \in Durable' : In(q, mem')
      /\ \A r \in Savers : Active(r)' => Durable' \subseteq seen'[r] /\ live' \subseteq seen'[r]
  BY <1>2, <1>3, <1>4, <1>5, <1>6, <1>7 DEF DurableOK, In
<1> QED BY <1>2, <1>5, <1>8 DEF DurableOK, In, NotIn

\* The new file holds what the durable one promises, whole or not at all.
LEMMA DurableRename ==
    ASSUME CoreOK, MemoryOK, SnapOK, DiskOK, DurableOK, NEW p \in Savers, RenameTmp(p)
    PROVE  DurableOK'
<1> USE Roles
<1>0. step \in [Savers -> Steps]
  BY DEF CoreOK
<1>1. step[p] = "rename" /\ DOMAIN snap[p] = Stores /\ Active(p)
  BY DEF RenameTmp, Advance, SnapOK, Active
<1>2. phase # "down"
  BY <1>1, OneSaver
<1>3. UNCHANGED <<backup, acked, live, wiped, lost, mem, resetLeft, phase, seen>>
  BY DEF RenameTmp, Advance, history, procVars
<1>4. file' = [data |-> snap[p], synced |-> TRUE, must |-> seen[p], gone |-> wiped]
  <2>1. tmp = [data |-> snap[p], synced |-> step[p] = "rename", must |-> seen[p], gone |-> {}]
    BY <1>1 DEF DiskOK
  <2>2. (step[p] = "rename") = TRUE
    BY <1>1
  <2>3. file' = [tmp EXCEPT !.gone = wiped]
    BY DEF RenameTmp
  <2> QED BY <2>1, <2>2, <2>3
<1>5. file'.data = snap[p] /\ file'.must = seen[p]
  BY <1>4
<1>6. Durable \subseteq seen[p] /\ Must(backup) \cap live \subseteq seen[p]
  BY <1>1 DEF DurableOK
<1>7. Durable' = Durable /\ Must(backup)' = Must(backup)
  BY <1>3 DEF Durable, Must
<1>8. Must(file)' = seen[p] \/ file' = NoFile
  BY <1>5 DEF Must
<1>9. file' # NoFile
  <2>1. snap[p] \in [Stores -> SUBSET Requests] /\ seen[p] \in SUBSET Requests
    BY <1>1, FullSnapshot
  <2>2. wiped \in SUBSET Requests
    BY DEF MemoryOK
  <2>3. [data |-> snap[p], synced |-> TRUE, must |-> seen[p], gone |-> wiped] \in FileRecords
    BY <2>1, <2>2, FileRecord
  <2> QED BY <1>4, <2>3, FileFacts
<1>10. ASSUME NEW q \in Must(backup), In(q, snap[p]) PROVE q \in seen[p]
  <2>1. In(q, mem)
    BY <1>1, <1>10 DEF SnapOK, In
  <2>2. q \in live
    BY <1>2, <2>1, MustAcked DEF MemoryOK
  <2> QED BY <1>6, <2>2
<1>11. ASSUME NEW q \in Must(backup), q \notin lost PROVE In(q, snap[p]) \/ NotIn(q, snap[p])
  <2>1. CASE q \in wiped
    BY <1>1, <1>2, <2>1 DEF SnapOK, MemoryOK, NotIn
  <2>2. CASE q \notin wiped
    <3>1. q \in seen[p]
      BY <1>6, <1>11, <2>2 DEF Durable
    <3> QED BY <1>1, <3>1 DEF SnapOK, In
  <2> QED BY <2>1, <2>2
<1>12. \A r \in Savers : Active(r)' => Active(r)
  BY <1>0, <1>1 DEF RenameTmp, Advance, Active
<1>13. MidReset' = MidReset
  BY <1>3 DEF MidReset
<1>14. /\ Durable' \subseteq Must(file)'
       /\ phase' # "down" /\ ~MidReset' => \A q \in Durable' : In(q, mem')
       /\ \A r \in Savers : Active(r)' =>
             Durable' \subseteq seen'[r] /\ Must(backup)' \cap live' \subseteq seen'[r]
  BY <1>3, <1>6, <1>7, <1>8, <1>9, <1>12, <1>13 DEF DurableOK, In
<1>15. \A q \in Must(backup)' :
          /\ In(q, file'.data) => q \in file'.must
          /\ In(q, file'.data) \/ NotIn(q, file'.data) \/ q \in lost'
  BY <1>3, <1>5, <1>7, <1>10, <1>11
<1> QED BY <1>14, <1>15 DEF DurableOK, In, NotIn

\* The new file becomes the durable one.
LEMMA DurableDirSync ==
    ASSUME CoreOK, MemoryOK, SnapOK, DiskOK, DurableOK, NEW p \in Savers, DirSync(p)
    PROVE  DurableOK'
<1> USE Roles
<1>0. step \in [Savers -> Steps]
  BY DEF CoreOK
<1>1. step[p] = "dirsync" /\ Active(p)
  BY DEF DirSync, Active
<1>2. phase # "down" /\ \A r \in Savers : ~Active(r)'
  BY <1>0, <1>1, OneSaver DEF DirSync, SaveReturns, Active
<1>3. backup' = file /\ UNCHANGED <<file, mem, wiped, lost>>
  BY DEF DirSync, SaveReturns
<1>4. Must(file)' = Must(file) /\ Must(backup)' = Must(file)
  BY <1>3 DEF Must
<1>5. file # NoFile /\ file.must = seen[p]
  BY <1>1 DEF DiskOK
<1>6. Must(file) \subseteq live
  BY <1>1, <1>5 DEF Must, SnapOK
<1>7. \A q \in Must(file) : In(q, mem) /\ In(q, file.data) /\ q \in file.must
  BY <1>2, <1>5, <1>6 DEF MemoryOK, Must, DiskOK, Kept
<1>8. Durable' \subseteq Must(file)
  BY <1>4 DEF Durable
<1> QED BY <1>2, <1>3, <1>4, <1>7, <1>8 DEF DurableOK, In, NotIn

\* A power loss leaves one of the two files, and both are whole.
LEMMA DurablePowerLoss ==
    ASSUME DiskOK, DurableOK, PowerLoss
    PROVE  DurableOK'
<1>1. file' \in {file, backup} /\ backup' = file'
  BY KeptSurvives DEF PowerLoss, DiskOK
<1>2. phase' = "down" /\ \A r \in Savers : ~Active(r)'
  BY DEF PowerLoss, ProcessEnds, Active
<1>3. file' # NoFile => Must(backup)' = file'.must /\ \A q \in file'.must : In(q, file'.data)
  BY <1>1 DEF DiskOK, Kept, Must
<1>4. Durable' \subseteq Must(file)'
  BY <1>1 DEF Durable, Must
<1> QED BY <1>2, <1>3, <1>4 DEF DurableOK, In, NotIn

\* Every step keeps what a completed save holds.
LEMMA DurableStep ==
    ASSUME CoreOK, MemoryOK, SnapOK, DiskOK, DurableOK, SnapshotLoopNext
    PROVE  DurableOK'
<1> USE Roles
<1>0. step \in [Savers -> Steps]
  BY DEF CoreOK
<1>1. ASSUME NEW failing \in SUBSET FaultyStores, Start(failing) PROVE DurableOK'
  BY <1>1, DurableStart
<1>2. ASSUME NEW q \in Requests, Respond(q) PROVE DurableOK'
  <2>1. Must(backup) \cap live' \subseteq live
    BY <1>2, MustAcked DEF Respond
  <2>2. MidReset' = MidReset
    BY <1>2 DEF Respond, MidReset
  <2> QED BY <1>2, <2>1, <2>2, DurableFrame DEF Respond, diskVars, saveVars, procVars, Active
<1>3. ASSUME NEW q \in Requests, NEW s \in Stores, StoreWrite(q, s) PROVE DurableOK'
  <2>1. \A t \in Stores : mem[t] \subseteq mem'[t]
    BY <1>3 DEF StoreWrite, MemoryOK
  <2>2. MidReset' = MidReset
    BY <1>3 DEF StoreWrite, MidReset
  <2> QED BY <1>3, <2>1, <2>2, DurableFrame DEF StoreWrite, diskVars, saveVars, procVars, history, Active
<1>4. ASSUME NEW w \in Writers, NEW s \in Stores, ResetStore(w, s) PROVE DurableOK'
  <2>1. \A p \in Savers : ~Active(p)'
    BY <1>4, WriterOwns DEF ResetStore, saveVars, Active
  <2>2. UNCHANGED <<file, backup, lost>> /\ wiped \subseteq wiped'
    BY <1>4 DEF ResetStore, diskVars
  <2>3. Must(file)' = Must(file) /\ Must(backup)' = Must(backup) /\ Durable' \subseteq Durable
    BY <2>2 DEF Must, Durable
  <2>4. MidReset' \/ Durable' = {}
    <3>1. MidReset' \/ acked \subseteq wiped'
      BY <1>4, ResetStoreMid
    <3> QED BY <2>3, <3>1, MustAcked DEF Durable
  <2> QED BY <2>1, <2>2, <2>3, <2>4 DEF DurableOK, In, NotIn
<1>5. ASSUME NEW q \in Requests, Serve(q) \/ ServeRefused(q) \/ RequestDone(q) PROVE DurableOK'
  <2>1. MidReset' = MidReset
    BY <1>5 DEF Serve, ServeRefused, RequestDone, MidReset
  <2> QED BY <1>5, <2>1, DurableFrame DEF Serve, ServeRefused, RequestDone, diskVars, saveVars,
             procVars, history, Active
<1>6. ASSUME NEW w \in Writers, ResetBegin(w) \/ ResetLocked(w) \/ ResetCancelled(w) \/ ResetDone(w)
      PROVE DurableOK'
  <2>1. MidReset' <=> MidReset
    BY <1>6, ResetDoneMid DEF ResetBegin, ResetLocked, ResetCancelled, Others, MidReset
  <2> QED BY <1>6, <2>1, DurableFrame DEF ResetBegin, ResetLocked, ResetCancelled, ResetDone, Others,
             diskVars, saveVars, procVars, history, Active
<1>7. CASE Signal \/ Stop \/ LoopReturns \/ BarrierProgress \/ FinalLock
  <2>1. UNCHANGED <<file, backup, lost, wiped, live, seen, mem, resetLeft, step>>
        /\ (phase' # "down" => phase # "down")
    BY <1>7 DEF Signal, Stop, LoopReturns, BarrierProgress, Others, FinalLock, diskVars, saveVars,
       procVars, history
  <2> QED BY <2>1, DurableFrame DEF MidReset, Active
<1>8. CASE Tick \/ PeriodicSkip \/ FinalTimeout \/ FinalSave
  <2>1. UNCHANGED <<file, backup, lost, wiped, live, seen, mem, resetLeft>>
    BY <1>8 DEF Tick, PeriodicSkip, FinalTimeout, FinalSave, diskVars, history
  <2>2. phase # "down"
    BY <1>8, OneSaver DEF Tick, PeriodicSkip, FinalTimeout, BeginCancelled, FinalSave, CoreOK
  <2>3. \A p \in Savers : Active(p)' => Active(p)
    BY <1>0, <1>8 DEF Tick, PeriodicSkip, FinalTimeout, FinalSave, saveVars, Active
  <2> QED BY <2>1, <2>2, <2>3, DurableFrame DEF MidReset
<1>9. CASE PeriodicLock \/ FinalLocked
  BY <1>9, DurableLock
<1>10. ASSUME NEW p \in Savers, NEW s \in Stores, SnapshotStore(p, s) PROVE DurableOK'
  BY <1>10, DurableFrame DEF SnapshotStore, diskVars, procVars, history, Active, MidReset
<1>11. ASSUME NEW p \in Savers, Marshal(p) \/ WriteTmp(p) \/ SyncTmp(p) PROVE DurableOK'
  <2>1. UNCHANGED <<file, backup, lost, wiped, live, seen, mem, resetLeft, phase>>
    BY <1>11 DEF Marshal, WriteTmp, SyncTmp, Advance, diskVars, procVars, history
  <2>2. \A r \in Savers : Active(r)' => Active(r)
    BY <1>0, <1>11 DEF Marshal, WriteTmp, SyncTmp, Advance, Active
  <2> QED BY <2>1, <2>2, DurableFrame DEF MidReset
<1>12. ASSUME NEW p \in Savers, RenameTmp(p) PROVE DurableOK'
  BY <1>12, DurableRename
<1>13. ASSUME NEW p \in Savers, DirSync(p) PROVE DurableOK'
  BY <1>13, DurableDirSync
<1>14. ASSUME NEW p \in Savers, SaveFails(p) PROVE DurableOK'
  <2>1. UNCHANGED <<file, backup, lost, wiped, live, mem, resetLeft>>
    BY <1>14 DEF SaveFails, SaveReturns
  <2>2. phase # "down" /\ \A r \in Savers : ~Active(r)'
    BY <1>0, <1>14, OneSaver DEF SaveFails, SaveReturns, Active
  <2> QED BY <2>1, <2>2, DurableFrame DEF MidReset
<1>15. CASE Exit
  <2>1. UNCHANGED <<file, backup, lost, wiped>> /\ phase' = "down" /\ \A r \in Savers : ~Active(r)'
    BY <1>15 DEF Exit, ProcessEnds, diskVars, Active
  <2> QED BY <2>1, DurableFrame
<1>16. CASE PowerLoss
  BY <1>16, DurablePowerLoss
<1> QED BY <1>1, <1>2, <1>3, <1>4, <1>5, <1>6, <1>7, <1>8, <1>9, <1>10, <1>11, <1>12, <1>13,
           <1>14, <1>15, <1>16 DEF SnapshotLoopNext

-----------------------------------------------------------------------------
(* The final save *)

LEMMA StopFrame ==
    ASSUME StopOK, UNCHANGED atStop, wiped \subseteq wiped',
           phase' \in {"stopping", "final"} =>
               phase \in {"stopping", "final"} /\ live \subseteq live' /\ (MidReset => MidReset'),
           Active(Shutdown)' => Active(Shutdown) /\ seen'[Shutdown] = seen[Shutdown],
           phase' = "exit" => finalFailed' \/ (phase = "exit" /\ UNCHANGED <<file, finalFailed>>)
    PROVE  StopOK'
<1>1. phase' \in {"stopping", "final"} => atStop' \ wiped' \subseteq live' \/ MidReset'
  BY DEF StopOK
<1>2. Active(Shutdown)' => atStop' \ wiped' \subseteq seen'[Shutdown]
  BY DEF StopOK
<1>3. StopCapturesState'
  BY DEF StopOK, StopCapturesState, Must
<1> QED BY <1>1, <1>2, <1>3 DEF StopOK

\* Every step keeps what was live at Stop on its way into the file.
LEMMA StopStep ==
    ASSUME CoreOK, MemoryOK, SnapOK, DiskOK, StopOK, SnapshotLoopNext
    PROVE  StopOK'
<1> USE Roles
<1>0. step \in [Savers -> Steps] /\ seen \in [Savers -> SUBSET Requests]
  BY DEF CoreOK, SnapOK
<1>1. ASSUME NEW failing \in SUBSET FaultyStores, Start(failing) PROVE StopOK'
  <2>1. phase' = "up" /\ ~Active(Shutdown)'
    BY <1>1, OneSaver DEF Start, saveVars, Active
  <2> QED BY <2>1 DEF StopOK, StopCapturesState
<1>2. ASSUME NEW q \in Requests, Serve(q) \/ ServeRefused(q) \/ Respond(q) \/ RequestDone(q)
      PROVE StopOK'
  <2>1. MidReset' = MidReset
    BY <1>2 DEF Serve, ServeRefused, Respond, RequestDone, MidReset
  <2> QED BY <1>2, <2>1, StopFrame DEF Serve, ServeRefused, Respond, RequestDone, diskVars, saveVars,
             procVars, history, Active
<1>3. ASSUME NEW q \in Requests, NEW s \in Stores, StoreWrite(q, s) PROVE StopOK'
  <2>1. MidReset' = MidReset
    BY <1>3 DEF StoreWrite, MidReset
  <2> QED BY <1>3, <2>1, StopFrame DEF StoreWrite, diskVars, saveVars, procVars, history, Active
<1>4. ASSUME NEW w \in Writers, NEW s \in Stores, ResetStore(w, s) PROVE StopOK'
  <2>1. ~Active(Shutdown)'
    BY <1>4, WriterOwns DEF ResetStore, saveVars, Active
  <2>2. UNCHANGED <<file, phase, atStop, finalFailed>> /\ wiped \subseteq wiped'
    BY <1>4 DEF ResetStore, diskVars, procVars
  <2>3. MidReset' \/ atStop' \ wiped' = {}
    <3>1. MidReset' \/ acked \subseteq wiped'
      BY <1>4, ResetStoreMid
    <3> QED BY <2>2, <3>1 DEF MemoryOK
  <2>4. StopCapturesState'
    BY <2>2 DEF StopOK, StopCapturesState, Must
  <2> QED BY <2>1, <2>3, <2>4 DEF StopOK
<1>5. ASSUME NEW w \in Writers, ResetBegin(w) \/ ResetLocked(w) \/ ResetCancelled(w) \/ ResetDone(w)
      PROVE StopOK'
  <2>1. MidReset' <=> MidReset
    BY <1>5, ResetDoneMid DEF ResetBegin, ResetLocked, ResetCancelled, Others, MidReset
  <2> QED BY <1>5, <2>1, StopFrame DEF ResetBegin, ResetLocked, ResetCancelled, ResetDone, Others,
             diskVars, saveVars, procVars, history, Active
<1>6. CASE Signal \/ LoopReturns \/ BarrierProgress \/ FinalLock
  <2>1. /\ UNCHANGED <<file, wiped, live, seen, resetLeft, step, atStop, finalFailed>>
        /\ phase' = phase \/ phase' = "draining"
    BY <1>6 DEF Signal, LoopReturns, BarrierProgress, Others, FinalLock, diskVars, saveVars, procVars,
       history
  <2> QED BY <2>1, StopFrame DEF MidReset, Active
<1>7. CASE Stop
  <2>1. phase' = "stopping" /\ atStop' = live /\ UNCHANGED <<wiped, live>> /\ ~Active(Shutdown)'
    BY <1>7 DEF Stop, saveVars, CoreOK, Active
  <2> QED BY <2>1 DEF StopOK, StopCapturesState
<1>8. CASE Tick \/ PeriodicLock \/ PeriodicSkip
  <2>1. /\ UNCHANGED <<file, wiped, live, phase, resetLeft, atStop, finalFailed>>
        /\ step'[Shutdown] = step[Shutdown] /\ seen'[Shutdown] = seen[Shutdown]
    BY <1>0, <1>8 DEF Tick, PeriodicLock, PeriodicSkip, diskVars, procVars, history
  <2> QED BY <2>1, StopFrame DEF MidReset, Active
<1>9. CASE FinalSave
  <2>1. ~saving
    BY <1>9 DEF FinalSave, CoreOK
  <2>2. /\ phase = "stopping" /\ phase' = "final" /\ step'[Shutdown] = "flag"
        /\ UNCHANGED <<wiped, live, resetLeft, atStop>>
    BY <1>0, <1>9, <2>1 DEF FinalSave, history
  <2> QED BY <2>2, StopFrame DEF MidReset, Active
<1>10. CASE FinalLocked
  <2>1. ~MidReset /\ phase = "final"
    BY <1>10, NoResetAtLock DEF FinalLocked, BeginReturns, CoreOK
  <2>2. seen'[Shutdown] = live /\ UNCHANGED <<wiped, live, phase, atStop>>
    BY <1>0, <1>10 DEF FinalLocked, procVars
  <2>3. atStop' \ wiped' \subseteq live' /\ atStop' \ wiped' \subseteq seen'[Shutdown]
    BY <2>1, <2>2 DEF StopOK
  <2> QED BY <2>1, <2>2, <2>3 DEF StopOK, StopCapturesState
<1>11. CASE FinalTimeout
  <2>1. phase' = "exit" /\ finalFailed' /\ step'[Shutdown] = "idle" /\ UNCHANGED <<atStop, wiped>>
    BY <1>0, <1>11 DEF FinalTimeout
  <2> QED BY <2>1, StopFrame DEF Active
<1>12. ASSUME NEW p \in Savers, NEW s \in Stores, SnapshotStore(p, s) PROVE StopOK'
  BY <1>12, StopFrame DEF SnapshotStore, diskVars, procVars, history, Active, MidReset
<1>13. ASSUME NEW p \in Savers, Marshal(p) \/ WriteTmp(p) \/ SyncTmp(p) \/ RenameTmp(p) PROVE StopOK'
  <2>1. UNCHANGED <<wiped, live, seen, resetLeft, phase, atStop>>
    BY <1>13 DEF Marshal, WriteTmp, SyncTmp, RenameTmp, Advance, procVars, history
  <2>2. phase # "exit" /\ (Active(Shutdown)' => Active(Shutdown))
    BY <1>0, <1>13, OneSaver DEF Marshal, WriteTmp, SyncTmp, RenameTmp, Advance, Active
  <2> QED BY <2>1, <2>2, StopFrame DEF MidReset
<1>14. ASSUME NEW p \in Savers, DirSync(p) \/ SaveFails(p) PROVE StopOK'
  <2>1. UNCHANGED <<file, wiped, live, resetLeft, atStop>> /\ step[p] # "idle" /\ Active(p)
    BY <1>14 DEF DirSync, SaveFails, SaveReturns, Active
  <2>2. ~Active(Shutdown)'
    BY <1>0, <1>14, <2>1, OneSaver DEF DirSync, SaveFails, SaveReturns, Active
  <2>3. CASE p = Saver
    <3>1. UNCHANGED <<phase, finalFailed>>
      BY <1>14, <2>3 DEF DirSync, SaveFails, SaveReturns
    <3> QED BY <2>1, <2>2, <3>1, StopFrame DEF MidReset
  <2>4. CASE p = Shutdown /\ SaveFails(p)
    <3>1. phase' = "exit" /\ finalFailed'
      BY <2>4 DEF SaveFails, SaveReturns
    <3> QED BY <2>1, <2>2, <3>1, StopFrame
  <2>5. CASE p = Shutdown /\ DirSync(p)
    <3>1. phase' = "exit"
      BY <2>5 DEF DirSync, SaveReturns
    <3>2. file # NoFile /\ file.must = seen[Shutdown]
      BY <2>5 DEF DirSync, DiskOK
    <3>3. atStop' \ wiped' \subseteq Must(file')
      BY <2>1, <2>5, <3>2 DEF Must, StopOK
    <3> QED BY <2>2, <3>1, <3>3 DEF StopOK, StopCapturesState, Must
  <2> QED BY <1>14, <2>3, <2>4, <2>5
<1>15. CASE Exit \/ PowerLoss
  <2>1. phase' = "down" /\ ~Active(Shutdown)'
    BY <1>15 DEF Exit, PowerLoss, ProcessEnds, Active
  <2> QED BY <2>1 DEF StopOK, StopCapturesState
<1> QED BY <1>1, <1>2, <1>3, <1>4, <1>5, <1>6, <1>7, <1>8, <1>9, <1>10, <1>11, <1>12, <1>13,
           <1>14, <1>15 DEF SnapshotLoopNext

-----------------------------------------------------------------------------
(* The invariant and what follows from it *)

LEMMA LoopInitInv == SnapshotLoopInit => LoopInv
<1> SUFFICES ASSUME SnapshotLoopInit PROVE LoopInv
  OBVIOUS
<1> USE Roles DEF SnapshotLoopInit
<1>1. CoreOK
  <2>1. BarrierInv
    BY BarrierInitInv
  <2>2. \A p \in Procs : caller[p] = "idle" /\ lock[p] = "none"
    BY DEF BarrierInit
  <2>3. boots \in 0..MaxBoots
    BY SnapshotLoopAssumption
  <2>4. step \in [Savers -> Steps] /\ \A p \in Savers : step[p] = "idle"
    BY DEF Steps
  <2> QED BY <2>1, <2>2, <2>3, <2>4 DEF CoreOK, Phases, Active
<1>2. MemoryOK
  BY DEF MemoryOK, Empty
<1>3. SnapOK
  <2>1. snap \in [Savers -> Snapshots] /\ \A p \in Savers : DOMAIN snap[p] = {}
    BY NoSnapshot
  <2> QED BY <2>1 DEF SnapOK, Active
<1>4. DiskOK
  BY FileFacts DEF DiskOK, Kept
<1>5. DurableOK
  BY DEF DurableOK, Durable, Must, Active
<1>6. StopOK
  BY DEF StopOK, StopCapturesState, Active
<1> QED BY <1>1, <1>2, <1>3, <1>4, <1>5, <1>6 DEF LoopInv

LEMMA LoopStutterInv == LoopInv /\ UNCHANGED vars => LoopInv'
<1> SUFFICES ASSUME LoopInv, UNCHANGED vars PROVE LoopInv'
  OBVIOUS
<1> USE DEF LoopInv, vars, barrierVars, diskVars, saveVars, procVars, history
<1>1. CoreOK'
  <2>1. BarrierInv'
    BY BarrierIdle DEF CoreOK
  <2> QED BY <2>1 DEF CoreOK, Active
<1>2. MemoryOK'
  BY DEF MemoryOK, In, NotIn
<1>3. SnapOK'
  BY SnapFrame
<1>4. DiskOK'
  BY DiskFrame
<1>5. DurableOK'
  BY DurableFrame DEF Active, MidReset
<1>6. StopOK'
  BY StopFrame DEF Active, MidReset
<1> QED BY <1>1, <1>2, <1>3, <1>4, <1>5, <1>6

\* LoopInv is inductive: no interleaving of requests, resets, saves, stop,
\* power loss and restart leaves it, for any number of each and any stores.
THEOREM SnapshotLoopInvariant == SnapshotLoopSpec => []LoopInv
<1>1. LoopInv /\ [SnapshotLoopNext]_vars => LoopInv'
  <2>1. ASSUME LoopInv, SnapshotLoopNext PROVE LoopInv'
    <3>1. file \in Files
      BY <2>1 DEF LoopInv, DiskOK
    <3> QED BY <2>1, <3>1, CoreStep, MemoryStep, SnapStep, DiskStep, DurableStep, StopStep DEF LoopInv
  <2> QED BY <2>1, LoopStutterInv
<1> QED BY <1>1, LoopInitInv, PTL DEF SnapshotLoopSpec

\* The variables of the loop have their types.
THEOREM SnapshotLoopTypes == SnapshotLoopSpec => []SnapshotLoopTypeOK
<1>1. LoopInv => SnapshotLoopTypeOK
  BY DEF LoopInv, CoreOK, MemoryOK, SnapOK, DiskOK, BarrierInv, SnapshotLoopTypeOK
<1> QED BY <1>1, SnapshotLoopInvariant, PTL

\* Requests and resets are atomic to each other: an answered request is in
\* every store until a completed reset, and in none after it.
THEOREM ResetsAreAtomic == SnapshotLoopSpec => []MemoryConsistent
<1>1. LoopInv => MemoryConsistent
  BY DEF LoopInv, MemoryOK, MemoryConsistent
<1> QED BY <1>1, SnapshotLoopInvariant, PTL

\* WriteAtomic: no power loss leaves a state.json that does not parse.
THEOREM NoTornFile == SnapshotLoopSpec => []NeverTorn
<1>1. LoopInv => NeverTorn
  BY KeptSurvives DEF LoopInv, DiskOK, Kept, NeverTorn
<1> QED BY <1>1, SnapshotLoopInvariant, PTL

\* A published state.json holds every request answered before its save began
\* and none that a reset had wiped: no file mixes two epochs.
THEOREM FilesKeepPromise == SnapshotLoopSpec => []FileKeepsPromise
<1>1. LoopInv => FileKeepsPromise
  BY DEF LoopInv, DiskOK, Kept, FileKeepsPromise
<1> QED BY <1>1, SnapshotLoopInvariant, PTL

\* The final SaveNow, if it does not fail, captures everything that was live
\* when Stop was called and no reset has wiped since.
THEOREM FinalSaveCaptures == SnapshotLoopSpec => []StopCapturesState
<1>1. LoopInv => StopCapturesState
  BY DEF LoopInv, StopOK
<1> QED BY <1>1, SnapshotLoopInvariant, PTL

\* What a completed save holds is in every durable file that follows it,
\* unless a reset wiped it or a failed Restore lost it.
THEOREM SavesAreDurable == SnapshotLoopSpec => DurabilityMonotone
<1>1. LoopInv /\ [SnapshotLoopNext]_vars => [Must(backup) \ (wiped \cup lost) \subseteq Must(backup')]_vars
  <2>1. ASSUME LoopInv, SnapshotLoopNext PROVE Must(backup) \ (wiped \cup lost) \subseteq Must(backup')
    <3>1. backup' \in {backup, file}
      <4>1. CASE PowerLoss
        BY <2>1, <4>1, KeptSurvives DEF PowerLoss, LoopInv, DiskOK
      <4>2. CASE \E p \in Savers : DirSync(p)
        BY <4>2 DEF DirSync
      <4>3. CASE ~PowerLoss /\ ~\E p \in Savers : DirSync(p)
        BY <2>1, <4>3 DEF SnapshotLoopNext, Start, Serve, ServeRefused, Respond, RequestDone, StoreWrite,
           ResetBegin, ResetLocked, ResetCancelled, ResetDone, ResetStore, Tick, PeriodicLock,
           PeriodicSkip, FinalLock, FinalLocked, FinalTimeout, SnapshotStore, Marshal, WriteTmp,
           SyncTmp, RenameTmp, SaveFails, Signal, Stop, LoopReturns, FinalSave, Exit,
           BarrierProgress, Others, diskVars
      <4> QED BY <4>1, <4>2, <4>3
    <3>2. Durable \subseteq Must(file) /\ Durable \subseteq Must(backup)
      BY <2>1 DEF LoopInv, DurableOK, Durable
    <3> QED BY <3>1, <3>2 DEF Durable
  <2> QED BY <2>1
<1> QED BY <1>1, SnapshotLoopInvariant, PTL DEF SnapshotLoopSpec, DurabilityMonotone
=============================================================================
