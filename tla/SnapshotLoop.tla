---------------------------- MODULE SnapshotLoop ----------------------------
(***************************************************************************)
(* Periodic persistence of the in-memory stores:                           *)
(* internal/persistence/snapshot/{loop,atomic}.go, the barrier middleware  *)
(* of the gateway, POST /_jaiscloud/reset, and the start and stop sequence *)
(* of cmd/jaiscloud-aws/main.go.                                           *)
(*                                                                         *)
(* A cloud request writes into several stores, one after the other, under  *)
(* the shared lock of the barrier; a save reads the stores one after the   *)
(* other under the same shared lock and replaces state.json by way of a    *)
(* temporary file; a reset empties the stores under the exclusive lock;    *)
(* the machine may lose power at any moment.  A store is abstracted to the *)
(* set of the requests whose effect it holds.                              *)
(***************************************************************************)
EXTENDS Barrier, Integers

CONSTANTS
    Stores,         \* the registered Snapshotters
    Saver,          \* the ticker goroutine, a caller of TryReadBegin
    Shutdown,       \* Stop's final SaveNow, a caller of ReadBegin
    FaultyStores,   \* stores whose Restore may fail at startup
    MaxBoots,       \* bound: how often the process is started
    NoFile, Torn    \* no such file; a file that does not parse

Requests == TryReaders \ {Saver}
Savers == {Saver, Shutdown}

ASSUME SnapshotLoopAssumption ==
    /\ Saver \in TryReaders
    /\ WaitReaders = {Shutdown}
    /\ FaultyStores \subseteq Stores
    /\ MaxBoots \in Nat
    /\ NoFile \notin [data : [Stores -> SUBSET Requests] \cup {Torn}, synced : BOOLEAN,
                      must : SUBSET Requests, gone : SUBSET Requests]
    /\ Torn \notin [Stores -> SUBSET Requests]

VARIABLES
    phase,      \* of the process, see Phases
    looping,    \* the ticker goroutine has not returned (doneCh is open)
    boots,      \* how often the process was started
    mem,        \* the contents of each store
    wrote,      \* the stores the handler of each request has written to
    resetLeft,  \* the stores the handler of each reset has still to empty
    step,       \* where each saver is, see Steps
    snap,       \* what each saver has read so far: a store |-> its contents
    saving,     \* the CompareAndSwap flag
    file, tmp,  \* state.json, state.json.tmp
    backup      \* the state.json a power loss may bring back

diskVars == <<file, tmp, backup>>
saveVars == <<step, snap, saving>>
procVars == <<phase, looping, boots>>

VARIABLES       \* history, read by no action's guard
    acked,      \* requests that were answered 200
    live,       \* answered, and neither wiped by a reset nor lost by a crash
    wiped,      \* answered before a reset that has completed
    lost,       \* in a store whose Restore failed
    seen,       \* live when the saver's snapshot began
    atStop,     \* live when Stop was called
    finalFailed \* the final save returned an error

history == <<acked, live, wiped, lost, seen, atStop, finalFailed>>

vars == <<barrierVars, diskVars, saveVars, procVars, mem, wrote, resetLeft, history>>

Phases == {"up", "draining", "stopping", "final", "exit", "down"}
Steps == {"idle", "flag", "snapshot", "write", "sync", "rename", "dirsync"}

Snapshots == UNION {[D -> SUBSET Requests] : D \in SUBSET Stores}

\* must and gone are history: the requests live when the snapshot began, and
\* those already wiped when the file was published.
Files == [data : [Stores -> SUBSET Requests] \cup {Torn}, synced : BOOLEAN,
          must : SUBSET Requests, gone : SUBSET Requests] \cup {NoFile}

SnapshotLoopTypeOK ==
    /\ BarrierTypeOK
    /\ phase \in Phases /\ looping \in BOOLEAN
    /\ boots \in 0..MaxBoots
    /\ mem \in [Stores -> SUBSET Requests]
    /\ wrote \in [Requests -> SUBSET Stores]
    /\ resetLeft \in [Writers -> SUBSET Stores]
    /\ step \in [Savers -> Steps] /\ snap \in [Savers -> Snapshots]
    /\ saving \in BOOLEAN
    /\ {file, tmp, backup} \subseteq Files
    /\ {acked, live, wiped, lost, atStop} \subseteq SUBSET Requests
    /\ seen \in [Savers -> SUBSET Requests]
    /\ finalFailed \in BOOLEAN

Empty == [s \in Stores |-> {}]
In(q, m) == \A s \in Stores : q \in m[s]
NotIn(q, m) == \A s \in Stores : q \notin m[s]

SnapshotLoopInit ==
    /\ BarrierInit
    /\ phase = "down" /\ looping = FALSE /\ boots = 0
    /\ mem = Empty
    /\ wrote = [q \in Requests |-> {}]
    /\ resetLeft = [w \in Writers |-> Stores]
    /\ step = [p \in Savers |-> "idle"]
    /\ snap = [p \in Savers |-> [s \in {} |-> {}]]
    /\ saving = FALSE
    /\ file = NoFile /\ tmp = NoFile /\ backup = NoFile
    /\ acked = {} /\ live = {} /\ wiped = {} /\ lost = {} /\ atStop = {}
    /\ seen = [p \in Savers |-> {}]
    /\ finalFailed = FALSE

-----------------------------------------------------------------------------
(* Startup *)

\* Mutant of Restored: the loop is started on the empty stores.
RestoredNothing(f, failing) == Empty

\* What Restore makes of state.json: a missing or unparsable file starts
\* fresh, a store whose Restore fails is skipped.  A file that cannot be read is
\* one of which no store is restored (failing = Stores).  One of another schema
\* version or cloud ends the start with an error and changes nothing: here every
\* file was written by this build for this cloud.
Restored(f, failing) ==
    IF f = NoFile THEN Empty
    ELSE IF f.data = Torn THEN Empty
    ELSE [s \in Stores |-> IF s \in failing THEN {} ELSE f.data[s]]

\* state.json is read whatever --fresh-start says, then the loop is started.
Start(failing) ==
    /\ phase = "down" /\ boots < MaxBoots
    /\ boots' = boots + 1
    /\ phase' = "up" /\ looping' = TRUE
    /\ mem' = Restored(file, failing)
    /\ live' = {q \in acked : In(q, mem')}
    /\ wiped' = {q \in wiped : NotIn(q, mem')}
    /\ lost' = IF failing = {} \/ file = NoFile THEN lost
               ELSE {q \in Requests : ~In(q, mem')}
    /\ finalFailed' = FALSE /\ atStop' = {}
    /\ UNCHANGED <<barrierVars, diskVars, saveVars, wrote, resetLeft, acked, seen>>

-----------------------------------------------------------------------------
(* Cloud requests: middleware.Persistence around the handler *)

Serve(q) ==
    /\ q \in Requests \ acked
    /\ phase = "up"
    /\ TryReadBegin(q)
    /\ UNCHANGED <<diskVars, saveVars, procVars, mem, wrote, resetLeft, history>>

\* 503, Retry-After: 1
ServeRefused(q) ==
    /\ q \in Requests \ acked
    /\ phase = "up"
    /\ TryReadRefused(q)
    /\ UNCHANGED <<diskVars, saveVars, procVars, mem, wrote, resetLeft, history>>

StoreWrite(q, s) ==
    /\ q \in Requests \ acked /\ caller[q] = "owner"
    /\ s \in Stores \ wrote[q]
    /\ mem' = [mem EXCEPT ![s] = @ \cup {q}]
    /\ wrote' = [wrote EXCEPT ![q] = @ \cup {s}]
    /\ UNCHANGED <<barrierVars, diskVars, saveVars, procVars, resetLeft, history>>

\* The response goes out before the deferred release runs.
Respond(q) ==
    /\ q \in Requests \ acked /\ caller[q] = "owner"
    /\ wrote[q] = Stores
    /\ acked' = acked \cup {q}
    /\ live' = live \cup {q}
    /\ UNCHANGED <<barrierVars, diskVars, saveVars, procVars, mem, wrote, resetLeft,
                   wiped, lost, seen, atStop, finalFailed>>

\* The handler returns, answered or failed half way.
RequestDone(q) ==
    /\ q \in Requests /\ Release(q)
    /\ wrote' = [wrote EXCEPT ![q] = {}]
    /\ UNCHANGED <<diskVars, saveVars, procVars, mem, resetLeft, history>>

-----------------------------------------------------------------------------
(* POST /_jaiscloud/reset *)

ResetBegin(w) ==
    /\ phase = "up"
    /\ WriteBegin(w)
    /\ UNCHANGED <<diskVars, saveVars, procVars, mem, wrote, resetLeft, history>>

\* Mutant of ResetStore: the reset does not wait for the barrier.
ResetStoreUnlocked(w, s) ==
    /\ w \in Writers /\ caller[w] \in {"selecting", "owner"}
    /\ s \in resetLeft[w]
    /\ mem' = [mem EXCEPT ![s] = {}]
    /\ resetLeft' = [resetLeft EXCEPT ![w] = @ \ {s}]
    /\ live' = {}
    /\ wiped' = IF resetLeft[w] = {s} THEN wiped \cup acked ELSE wiped
    /\ UNCHANGED <<barrierVars, diskVars, saveVars, procVars, wrote,
                   acked, lost, seen, atStop, finalFailed>>

ResetStore(w, s) ==
    /\ w \in Writers /\ caller[w] = "owner"
    /\ s \in resetLeft[w]
    /\ mem' = [mem EXCEPT ![s] = {}]
    /\ resetLeft' = [resetLeft EXCEPT ![w] = @ \ {s}]
    /\ live' = {}
    /\ wiped' = IF resetLeft[w] = {s} THEN wiped \cup acked ELSE wiped
    /\ UNCHANGED <<barrierVars, diskVars, saveVars, procVars, wrote,
                   acked, lost, seen, atStop, finalFailed>>

ResetDone(w) ==
    /\ w \in Writers /\ resetLeft[w] = {}
    /\ Release(w)
    /\ resetLeft' = [resetLeft EXCEPT ![w] = Stores]
    /\ UNCHANGED <<diskVars, saveVars, procVars, mem, wrote, history>>

-----------------------------------------------------------------------------
(* Saves *)

\* A tick: periodicSave wins the flag, or returns nil.
Tick ==
    /\ looping /\ step[Saver] = "idle"
    /\ phase \in {"up", "draining", "stopping"}
    /\ ~saving
    /\ saving' = TRUE
    /\ step' = [step EXCEPT ![Saver] = "flag"]
    /\ UNCHANGED <<barrierVars, diskVars, snap, procVars, mem, wrote, resetLeft, history>>

\* Mutant of PeriodicLock: no barrier around the periodic save.
PeriodicLockSkipped ==
    /\ step[Saver] = "flag"
    /\ caller' = [caller EXCEPT ![Saver] = "owner"]
    /\ step' = [step EXCEPT ![Saver] = "snapshot"]
    /\ seen' = [seen EXCEPT ![Saver] = live]
    /\ UNCHANGED <<lock, announced, diskVars, snap, saving, procVars, mem, wrote, resetLeft,
                   acked, live, wiped, lost, atStop, finalFailed>>

PeriodicLock ==
    /\ step[Saver] = "flag"
    /\ TryReadBegin(Saver)
    /\ step' = [step EXCEPT ![Saver] = "snapshot"]
    /\ seen' = [seen EXCEPT ![Saver] = live]
    /\ UNCHANGED <<diskVars, snap, saving, procVars, mem, wrote, resetLeft,
                   acked, live, wiped, lost, atStop, finalFailed>>

\* "skipping periodic save, reset/import in progress"
PeriodicSkip ==
    /\ step[Saver] = "flag"
    /\ TryReadRefused(Saver)
    /\ step' = [step EXCEPT ![Saver] = "idle"]
    /\ saving' = FALSE
    /\ UNCHANGED <<diskVars, snap, procVars, mem, wrote, resetLeft, history>>

\* SaveNow waits for the shared lock under the ten seconds of its context.
FinalLock ==
    /\ step[Shutdown] = "flag"
    /\ ReadBegin(Shutdown)
    /\ UNCHANGED <<diskVars, saveVars, procVars, mem, wrote, resetLeft, history>>

FinalLocked ==
    /\ BeginReturns(Shutdown)
    /\ step' = [step EXCEPT ![Shutdown] = "snapshot"]
    /\ seen' = [seen EXCEPT ![Shutdown] = live]
    /\ UNCHANGED <<diskVars, snap, saving, procVars, mem, wrote, resetLeft,
                   acked, live, wiped, lost, atStop, finalFailed>>

\* Mutant of FinalTimeout: the final save has no deadline.
FinalTimeoutNever == FALSE

FinalTimeout ==
    /\ BeginCancelled(Shutdown)
    /\ step' = [step EXCEPT ![Shutdown] = "idle"]
    /\ saving' = FALSE
    /\ phase' = "exit" /\ finalFailed' = TRUE
    /\ UNCHANGED <<diskVars, snap, looping, boots, mem, wrote, resetLeft,
                   acked, live, wiped, lost, seen, atStop>>

\* doSave asks one store after the other, in the order of a Go map.
SnapshotStore(p, s) ==
    /\ p \in Savers /\ step[p] = "snapshot"
    /\ s \in Stores \ DOMAIN snap[p]
    /\ snap' = [snap EXCEPT ![p] =
                   [t \in DOMAIN @ \cup {s} |-> IF t = s THEN mem[s] ELSE @[t]]]
    /\ UNCHANGED <<barrierVars, diskVars, step, saving, procVars, mem, wrote,
                   resetLeft, history>>

Advance(p, from, to) ==
    /\ p \in Savers /\ step[p] = from
    /\ step' = [step EXCEPT ![p] = to]
    /\ UNCHANGED <<barrierVars, snap, saving, procVars, mem, wrote, resetLeft, history>>

\* Mutant of Marshal: the shared lock is released once the stores are read.
MarshalUnlocked(p) ==
    /\ p \in Savers /\ step[p] = "snapshot" /\ DOMAIN snap[p] = Stores
    /\ step' = [step EXCEPT ![p] = "write"]
    /\ lock' = [lock EXCEPT ![p] = "none"]
    /\ UNCHANGED <<caller, announced, snap, saving, procVars, mem, wrote, resetLeft,
                   history, diskVars>>

\* Mutant of Marshal: a store that could not be read is left out.
MarshalPartial(p) == Advance(p, "snapshot", "write") /\ UNCHANGED diskVars

\* Every store is read: the envelope is built and the file written.
Marshal(p) ==
    /\ DOMAIN snap[p] = Stores
    /\ Advance(p, "snapshot", "write")
    /\ UNCHANGED diskVars

\* WriteAtomic: a stale .tmp is removed, the new one created and written.
WriteTmp(p) ==
    /\ Advance(p, "write", "sync")
    /\ tmp' = [data |-> snap[p], synced |-> FALSE, must |-> seen[p], gone |-> {}]
    /\ UNCHANGED <<file, backup>>

\* Mutant of SyncTmp: the file is renamed without f.Sync().
SyncTmpSkipped(p) == Advance(p, "sync", "rename") /\ UNCHANGED diskVars

SyncTmp(p) ==
    /\ Advance(p, "sync", "rename")
    /\ tmp' = [tmp EXCEPT !.synced = TRUE]
    /\ UNCHANGED <<file, backup>>

\* The rename is visible at once; a power loss may still undo it.
RenameTmp(p) ==
    /\ Advance(p, "rename", "dirsync")
    /\ file' = [tmp EXCEPT !.gone = wiped]
    /\ tmp' = NoFile
    /\ UNCHANGED backup

\* SaveNow or periodicSave returns: release(), then saving.Store(false).
SaveReturns(p, err) ==
    /\ step' = [step EXCEPT ![p] = "idle"]
    /\ saving' = FALSE
    /\ Release(p)
    /\ IF p = Shutdown
          THEN phase' = "exit" /\ finalFailed' = err
          ELSE UNCHANGED <<phase, finalFailed>>
    /\ snap' = [snap EXCEPT ![p] = [s \in {} |-> {}]]
    /\ seen' = [seen EXCEPT ![p] = {}]
    /\ UNCHANGED <<looping, boots, mem, wrote, resetLeft,
                   acked, live, wiped, lost, atStop>>

DirSync(p) ==
    /\ p \in Savers /\ step[p] = "dirsync"
    /\ SaveReturns(p, FALSE)
    /\ backup' = file
    /\ UNCHANGED <<file, tmp>>

\* A Snapshot, or a call of the file system, fails or runs into the context's
\* deadline: WriteAtomic removes its temporary file.
SaveFails(p) ==
    /\ p \in Savers /\ step[p] \notin {"idle", "flag"}
    /\ SaveReturns(p, TRUE)
    /\ tmp' = IF step[p] \in {"write", "sync", "rename"} THEN NoFile ELSE tmp
    /\ UNCHANGED <<file, backup>>

-----------------------------------------------------------------------------
(* Shutdown and power loss *)

\* SIGTERM: srv.Shutdown closes the listeners.
Signal ==
    /\ phase = "up"
    /\ phase' = "draining"
    /\ UNCHANGED <<barrierVars, diskVars, saveVars, looping, boots, mem, wrote,
                   resetLeft, history>>

\* srv.Shutdown returns, because every handler has or after five seconds;
\* cleanup calls loopCancel and Stop.
Stop ==
    /\ phase = "draining"
    /\ phase' = "stopping"
    /\ atStop' = live
    /\ UNCHANGED <<barrierVars, diskVars, saveVars, looping, boots, mem, wrote,
                   resetLeft, acked, live, wiped, lost, seen, finalFailed>>

\* The ticker goroutine finds its context done or stopCh closed.
LoopReturns ==
    /\ phase = "stopping" /\ looping /\ step[Saver] = "idle"
    /\ looping' = FALSE
    /\ UNCHANGED <<barrierVars, diskVars, saveVars, phase, boots, mem, wrote,
                   resetLeft, history>>

\* Mutant of FinalSave: Stop does not wait for doneCh.
FinalSaveAtOnce ==
    /\ phase = "stopping"
    /\ IF saving
          THEN phase' = "exit" /\ UNCHANGED saveVars
          ELSE /\ phase' = "final"
               /\ saving' = TRUE
               /\ step' = [step EXCEPT ![Shutdown] = "flag"]
               /\ UNCHANGED snap
    /\ UNCHANGED <<barrierVars, diskVars, looping, boots, mem, wrote, resetLeft,
                   history>>

\* <-doneCh, then SaveNow: without the flag it returns nil at once.
FinalSave ==
    /\ phase = "stopping" /\ ~looping
    /\ IF saving
          THEN phase' = "exit" /\ UNCHANGED saveVars
          ELSE /\ phase' = "final"
               /\ saving' = TRUE
               /\ step' = [step EXCEPT ![Shutdown] = "flag"]
               /\ UNCHANGED snap
    /\ UNCHANGED <<barrierVars, diskVars, looping, boots, mem, wrote, resetLeft,
                   history>>

\* What lives in the process is gone.
ProcessEnds ==
    /\ phase' = "down" /\ looping' = FALSE
    /\ caller' = [p \in Procs |-> "idle"]
    /\ lock' = [p \in Procs |-> "none"]
    /\ announced' = NoWriter
    /\ mem' = Empty
    /\ wrote' = [q \in Requests |-> {}]
    /\ resetLeft' = [w \in Writers |-> Stores]
    /\ step' = [p \in Savers |-> "idle"]
    /\ snap' = [p \in Savers |-> [s \in {} |-> {}]]
    /\ seen' = [p \in Savers |-> {}]
    /\ saving' = FALSE
    /\ live' = {}
    /\ UNCHANGED <<boots, acked, wiped, lost, atStop, finalFailed>>

Exit ==
    /\ phase = "exit"
    /\ ProcessEnds
    /\ UNCHANGED diskVars

\* What may be left of a file after a power loss.
Survivors(f) ==
    IF f = NoFile THEN {NoFile}
    ELSE IF f.synced THEN {f}
    ELSE {[data |-> Torn, synced |-> TRUE, must |-> {}, gone |-> {}]}

PowerLoss ==
    /\ phase # "down" /\ boots < MaxBoots
    /\ ProcessEnds
    /\ file' \in Survivors(file) \cup Survivors(backup)
    /\ backup' = file'
    /\ tmp' \in Survivors(tmp)

-----------------------------------------------------------------------------

Others == UNCHANGED <<diskVars, saveVars, procVars, mem, wrote, resetLeft, history>>

\* Steps of the barrier that no code of this module follows up.
BarrierProgress == (\E p \in Procs : LockProgress(p)) /\ Others
ResetLocked(w) == w \in Writers /\ BeginReturns(w) /\ Others
ResetCancelled(w) == w \in Writers /\ BeginCancelled(w) /\ Others

SnapshotLoopNext ==
    \/ \E failing \in SUBSET FaultyStores : Start(failing)
    \/ \E q \in Requests : Serve(q) \/ ServeRefused(q) \/ Respond(q) \/ RequestDone(q)
    \/ \E q \in Requests, s \in Stores : StoreWrite(q, s)
    \/ \E w \in Writers : ResetBegin(w) \/ ResetLocked(w) \/ ResetCancelled(w) \/ ResetDone(w)
    \/ \E w \in Writers, s \in Stores : ResetStore(w, s)
    \/ Tick \/ PeriodicLock \/ PeriodicSkip
    \/ FinalLock \/ FinalLocked \/ FinalTimeout
    \/ \E p \in Savers, s \in Stores : SnapshotStore(p, s)
    \/ \E p \in Savers : Marshal(p) \/ WriteTmp(p) \/ SyncTmp(p) \/ RenameTmp(p)
                         \/ DirSync(p) \/ SaveFails(p)
    \/ Signal \/ Stop \/ LoopReturns \/ FinalSave \/ Exit \/ PowerLoss
    \/ BarrierProgress

SnapshotLoopSpec == SnapshotLoopInit /\ [][SnapshotLoopNext]_vars

\* Goroutines run and I/O returns; a select with a tick and a closed stopCh
\* both ready picks stopCh at last (strong fairness); SaveNow's context expires after ten seconds,
\* srv.Shutdown's after five.
ShutdownFairness ==
    /\ WF_vars(Stop) /\ SF_vars(LoopReturns) /\ WF_vars(FinalSave)
    /\ WF_vars(PeriodicLock) /\ WF_vars(PeriodicSkip)
    /\ WF_vars(FinalLock) /\ WF_vars(FinalLocked) /\ WF_vars(FinalTimeout)
    /\ WF_vars(Exit) /\ WF_vars(BarrierProgress)
    /\ \A p \in Savers :
          /\ WF_vars(\E s \in Stores : SnapshotStore(p, s))
          /\ WF_vars(Marshal(p) \/ WriteTmp(p) \/ SyncTmp(p) \/ RenameTmp(p) \/ DirSync(p))

SnapshotLoopFairSpec == SnapshotLoopSpec /\ ShutdownFairness

-----------------------------------------------------------------------------
(* Properties *)

\* Reset and requests are atomic to each other: what was answered and not reset
\* since is in every store, what was answered before a reset is in none.  A
\* request that overlaps a reset would leave half of itself behind.
MemoryConsistent ==
    /\ \A q \in live : In(q, mem)
    /\ \A q \in wiped : phase # "down" => NotIn(q, mem)

\* "On error, the .tmp file is cleaned up; the original dst is unchanged": at no
\* moment can a power loss leave a state.json that does not parse, which the
\* next start would answer by starting fresh.
NeverTorn == \A f \in Survivors(file) \cup Survivors(backup) :
                f # NoFile => f.data # Torn

\* A state.json, also one a power loss brings back, holds in every store each
\* request answered before its save began, and nothing a reset completed
\* before its publication had wiped: no save mixes two epochs.
FileKeepsPromise ==
    \A f \in {file, backup} : f # NoFile /\ f.data # Torn =>
        /\ \A q \in f.must : In(q, f.data)
        /\ \A q \in f.gone : NotIn(q, f.data)

Must(f) == IF f = NoFile THEN {} ELSE f.must

\* What a completed save holds is not lost by a later save, stop, power loss
\* or start, except to a reset or to a store whose Restore failed.
DurabilityMonotone ==
    [][Must(backup) \ (wiped \cup lost) \subseteq Must(backup')]_vars

\* "a final SaveNow ... to capture the last state before shutdown": unless that
\* save fails, everything answered before Stop is in state.json at exit.  It is
\* never skipped as "another save already in progress".
StopCapturesState ==
    (phase = "exit" /\ ~finalFailed) => atStop \ wiped \subseteq Must(file)

\* A signalled process ends, also when a reset holds the barrier for good.
ShutdownEnds == phase = "draining" ~> phase = "down"
=============================================================================
