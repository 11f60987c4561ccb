----------------------------- MODULE AdminImport -----------------------------
(***************************************************************************)
(* Export, named snapshots, import, revert and reset                       *)
(* (internal/admin/{admin,snapshots}.go) beside the cloud requests of a    *)
(* client.  Makers are export and snapshot-create calls: they read the     *)
(* stores one after the other, then the blobs, under the shared lock of    *)
(* the barrier.  Importers are import, revert and reset calls: they work   *)
(* under the exclusive lock.  The lock is SharedLock, which Barrier is     *)
(* shown to implement.                                                     *)
(*                                                                         *)
(* A store, and the blob store, hold one value each: the number of the     *)
(* request that wrote it, or Nothing when empty.  There is one snapshot    *)
(* name.  A file written by several creates at once does not parse, unless *)
(* all of what one of them wrote is left.  Power loss ends the process,    *)
(* which starts empty; SnapshotLoop has what state.json brings back.       *)
(* Left out: metadata.json, which only the listing reads; the hooks after  *)
(* an import and the emulated clock; resets of a single account.           *)
(***************************************************************************)
EXTENDS Naturals, FiniteSets, SharedLock

CONSTANTS
    Client,         \* issues cloud requests one after the other
    Makers, Importers,
    Stores,         \* the registered Snapshotters
    KeyStore,       \* of the stores, the one with KMS key material
    MaxRequests,    \* bound: requests of the client
    MaxBoots,       \* bound: starts of the process
    MaxArchives,    \* bound: no maker begins once there are as many archives
    Nothing,        \* an empty store
    NoFile, Torn    \* no such file; a file that does not parse

ASSUME AdminImportAssumption ==
    /\ Sharers = Makers \cup {Client} /\ Excluders = Importers
    /\ Client \notin Makers /\ (Makers \cup {Client}) \cap Importers = {}
    /\ KeyStore \in Stores
    /\ MaxRequests \in Nat /\ {MaxBoots, MaxArchives} \subseteq Nat \ {0}
    /\ Nothing \notin Nat

VARIABLES
    mem,        \* the value of each store
    blob,       \* the value of the blob store
    idFile,     \* the instance id on disk: this process's own, or a new one
    requests,   \* counts requests
    req,        \* the request under way: what it has still to write
    mk,         \* where each maker is, and what it has read
    tar,        \* the tarball of the named snapshot
    opens,      \* the creates that have this very file open
    mixed,      \* several creates have written to it
    im,         \* where each importer is
    boots       \* counts starts of the process

VARIABLES       \* history, read by no action's guard but MaxBoots'
    made,       \* archives that some maker has completed
    clean,      \* makers that no request has overlapped so far
    before      \* the state each importer found when it got the lock

memVars == <<mem, blob>>
fileVars == <<tar, opens, mixed>>
clientVars == <<requests, req>>
vars == <<inside, memVars, idFile, clientVars, mk, fileVars, im, boots, made, clean, before>>

Values == 1..MaxRequests \cup {Nothing}
Contents == [Stores -> Values]
Empty == [s \in Stores |-> Nothing]

Archives == [stores : Contents, blob : Values]

NoRequest == [op |-> "none", left |-> {}, blobLeft |-> FALSE]
IdleMaker == [step |-> "idle", got |-> {}, stores |-> Empty, blob |-> Nothing]
IdleImporter ==
    [step |-> "idle", body |-> [stores |-> Empty, blob |-> Nothing], reset |-> FALSE, left |-> {}]

\* The variables have their types, and no maker that has returned has the tarball
\* open.
AdminTypeOK ==
    /\ inside \subseteq Sharers \cup Excluders
    /\ mem \in Contents /\ blob \in Values /\ idFile \in {"own", "new"}
    /\ requests \in 0..MaxRequests
    /\ req \in [op : {"none", "put", "delete"}, left : SUBSET Stores, blobLeft : BOOLEAN]
    /\ mk \in [Makers -> [step : {"idle", "export", "create", "blobs", "close"},
                          got : SUBSET Stores, stores : Contents, blob : Values]]
    /\ tar \in Archives \cup {NoFile, Torn}
    /\ opens \subseteq {m \in Makers : mk[m].step \in {"blobs", "close"}} /\ mixed \in BOOLEAN
    /\ im \in [Importers -> [step : {"idle", "locking", "resetting", "wiping", "blobs",
                                     "guard", "restore"},
                             body : Archives, reset : BOOLEAN, left : SUBSET Stores]]
    /\ boots \in 1..MaxBoots
    /\ made \subseteq Archives /\ clean \in [Makers -> BOOLEAN]
    /\ before \in [Importers -> Archives]

AdminInit ==
    /\ LockInit
    /\ mem = Empty /\ blob = Nothing /\ idFile = "own"
    /\ requests = 0 /\ req = NoRequest
    /\ mk = [m \in Makers |-> IdleMaker]
    /\ tar = NoFile /\ opens = {} /\ mixed = FALSE
    /\ im = [a \in Importers |-> IdleImporter]
    /\ boots = 1 /\ made = {}
    /\ clean = [m \in Makers |-> FALSE]
    /\ before = [a \in Importers |-> IdleImporter.body]

-----------------------------------------------------------------------------
(* Cloud requests *)

\* A request is let in by TryReadBegin; while it is refused nothing happens.
RequestBegins(op) ==
    /\ requests < MaxRequests
    /\ EnterShared(Client)
    /\ requests' = requests + 1
    /\ req' = [op |-> op, left |-> Stores, blobLeft |-> TRUE]
    /\ clean' = [m \in Makers |-> FALSE]
    /\ UNCHANGED <<memVars, idFile, mk, fileVars, im, boots, made, before>>

\* A put writes the blob before any metadata, a delete removes it afterwards.
RequestBlob ==
    /\ req.blobLeft
    /\ \/ req.op = "put" /\ blob' = requests
       \/ req.op = "delete" /\ req.left = {} /\ blob' = Nothing
    /\ req' = [req EXCEPT !.blobLeft = FALSE]
    /\ UNCHANGED <<inside, mem, idFile, requests, mk, fileVars, im, boots, made, clean, before>>

RequestStore(s) ==
    /\ s \in req.left /\ (req.op = "put" => ~req.blobLeft)
    /\ mem' = [mem EXCEPT ![s] = IF req.op = "put" THEN requests ELSE Nothing]
    /\ req' = [req EXCEPT !.left = @ \ {s}]
    /\ UNCHANGED <<inside, blob, idFile, requests, mk, fileVars, im, boots, made, clean, before>>

RequestEnds ==
    /\ req.left = {} /\ ~req.blobLeft
    /\ Leave(Client)
    /\ req' = NoRequest
    /\ UNCHANGED <<memVars, idFile, requests, mk, fileVars, im, boots, made, clean, before>>

-----------------------------------------------------------------------------
(* Export and SnapshotCreate *)

\* Mutant of MakerBegins: the barrier is not taken.
MakerBeginsUnlocked(m, kind) ==
    /\ mk[m].step = "idle" /\ Cardinality(made) < MaxArchives
    /\ inside' = inside \cup {m}
    /\ mk' = [mk EXCEPT ![m].step = kind]
    /\ clean' = [clean EXCEPT ![m] = Client \notin inside]
    /\ UNCHANGED <<memVars, idFile, clientVars, fileVars, im, boots, made, before>>

\* ReadBegin returns.
MakerBegins(m, kind) ==
    /\ mk[m].step = "idle" /\ Cardinality(made) < MaxArchives
    /\ EnterShared(m)
    /\ mk' = [mk EXCEPT ![m].step = kind]
    /\ clean' = [clean EXCEPT ![m] = Client \notin inside]
    /\ UNCHANGED <<memVars, idFile, clientVars, fileVars, im, boots, made, before>>

\* The stores are read one by one, in the order of a Go map.
MakerReads(m, s) ==
    /\ mk[m].step \in {"export", "create"} /\ s \notin mk[m].got
    /\ mk' = [mk EXCEPT ![m].got = @ \cup {s}, ![m].stores[s] = mem[s]]
    /\ UNCHANGED <<inside, memVars, idFile, clientVars, fileVars, im, boots, made, clean, before>>

\* Export writes the response; SnapshotCreate opens the tarball, truncating the
\* one that is there.  Another create may have it open.
MakerWrites(m) ==
    /\ mk[m].step \in {"export", "create"} /\ mk[m].got = Stores
    /\ mk' = [mk EXCEPT ![m].step = "blobs"]
    /\ IF mk[m].step = "create"
       THEN /\ tar' = Torn
            /\ opens' = opens \cup {m} /\ mixed' = (opens # {})
       ELSE UNCHANGED fileVars
    /\ UNCHANGED <<inside, memVars, idFile, clientVars, im, boots, made, clean, before>>

\* blobStore.CreateSnapshot
MakerReadsBlobs(m) ==
    /\ mk[m].step = "blobs"
    /\ mk' = [mk EXCEPT ![m].step = "close", ![m].blob = blob]
    /\ UNCHANGED <<inside, memVars, idFile, clientVars, fileVars, im, boots, made, clean, before>>

Archive(m) == [stores |-> mk[m].stores, blob |-> mk[m].blob]

\* What is in the file after this create's last write.  Errors of Close are
\* ignored, and another create may have written to it.
FileAfter(whole) == {Torn} \cup whole \cup (IF mixed THEN {tar} ELSE {})

MakerCloses(m, whole) ==
    /\ Leave(m)
    /\ mk' = [mk EXCEPT ![m] = IdleMaker]
    /\ IF m \in opens THEN tar' \in FileAfter(whole) ELSE UNCHANGED tar
    /\ opens' = opens \ {m}
    /\ clean' = [clean EXCEPT ![m] = FALSE]
    /\ UNCHANGED <<memVars, idFile, clientVars, mixed, im, boots, before>>

MakerEnds(m) ==
    /\ mk[m].step = "close"
    /\ made' = made \cup {Archive(m)}
    /\ MakerCloses(m, {Archive(m)})

\* Mutant of MakerFails: the tarball is left open.
MakerFailsOpen(m) ==
    /\ mk[m].step # "idle"
    /\ Leave(m)
    /\ mk' = [mk EXCEPT ![m] = IdleMaker]
    /\ clean' = [clean EXCEPT ![m] = FALSE]
    /\ UNCHANGED <<memVars, idFile, clientVars, fileVars, im, boots, made, before>>

\* A store cannot be read, the file not be opened or written: what was written
\* so far stays where it is.
MakerFails(m) ==
    /\ mk[m].step # "idle"
    /\ UNCHANGED made
    /\ MakerCloses(m, {})

\* SnapshotDelete takes no lock; creates go on writing to the removed file.
SnapshotDelete ==
    /\ tar # NoFile
    /\ tar' = NoFile /\ opens' = {} /\ mixed' = FALSE
    /\ UNCHANGED <<inside, memVars, idFile, clientVars, mk, im, boots, made, clean, before>>

-----------------------------------------------------------------------------
(* Import, SnapshotRevert and Reset *)

\* parseTarball: the archives a body is taken for.
Parsed(f) == IF f \in {NoFile, Torn} THEN {} ELSE {f}

\* The body is uploaded, or read by SnapshotRevert without a lock.  It has passed
\* the checks on version, cloud and key; a new instance id is refused if there is
\* key material.  The id is written before the barrier is waited for.
ImportChecked(a, b, reset, new) ==
    /\ im[a].step = "idle"
    /\ new => b.stores[KeyStore] = Nothing
    /\ idFile' = IF new THEN "new" ELSE "own"
    /\ im' = [im EXCEPT ![a] = [step |-> "locking", body |-> b, reset |-> reset, left |-> Stores]]
    /\ UNCHANGED <<inside, memVars, clientVars, mk, fileVars, boots, made, clean, before>>

SnapshotRevert(a, reset) == \E b \in Parsed(tar) : ImportChecked(a, b, reset, FALSE)

Import(a, reset, new) == \E f \in made \cup {Torn} : \E b \in Parsed(f) : ImportChecked(a, b, reset, new)

\* Reset's handler has nothing to check.
ResetCalled(a) ==
    /\ im[a].step = "idle"
    /\ im' = [im EXCEPT ![a].step = "resetting", ![a].reset = TRUE]
    /\ UNCHANGED <<inside, memVars, idFile, clientVars, mk, fileVars, boots, made, clean, before>>

\* WriteBegin returns the lock ...
ImportLocked(a) ==
    /\ im[a].step \in {"locking", "resetting"}
    /\ EnterExclusive(a)
    /\ before' = [before EXCEPT ![a] = [stores |-> mem, blob |-> blob]]
    /\ im' = [im EXCEPT ![a].step =
                IF im[a].step = "resetting" \/ im[a].reset THEN "wiping" ELSE "blobs",
              ![a].left = IF im[a].step = "resetting" THEN {} ELSE Stores]
    /\ UNCHANGED <<memVars, idFile, clientVars, mk, fileVars, boots, made, clean>>

\* ... or the context's error: 503.
ImportCancelled(a) ==
    /\ im[a].step \in {"locking", "resetting"}
    /\ im' = [im EXCEPT ![a] = IdleImporter]
    /\ UNCHANGED <<inside, memVars, idFile, clientVars, mk, fileVars, boots, made, clean, before>>

\* The handler returns and its deferred release runs.
ImportReturns(a) ==
    /\ Leave(a)
    /\ im' = [im EXCEPT ![a] = IdleImporter]
    /\ before' = [before EXCEPT ![a] = IdleImporter.body]
    /\ UNCHANGED <<idFile, clientVars, mk, fileVars, boots, made, clean>>

WipeAll == mem' = Empty /\ blob' = Nothing

\* Every Resetter is called, the blob store among them: Reset, or reset_first.
ResetAll(a) ==
    /\ im[a].step = "wiping"
    /\ WipeAll
    /\ IF im[a].left = {}
       THEN ImportReturns(a)
       ELSE /\ im' = [im EXCEPT ![a].step = "blobs"]
            /\ UNCHANGED <<inside, idFile, clientVars, mk, fileVars, boots, made, clean, before>>

\* RestoreSnapshot writes the archive's blobs over the ones that are there.
RestoredBlob(a) == IF im[a].body.blob = Nothing THEN blob ELSE im[a].body.blob

RestoreBlobs(a) ==
    /\ im[a].step = "blobs"
    /\ blob' = RestoredBlob(a)
    /\ im' = [im EXCEPT ![a].step = IF im[a].reset THEN "restore" ELSE "guard"]
    /\ UNCHANGED <<inside, mem, idFile, clientVars, mk, fileVars, boots, made, clean, before>>

\* It fails half way: 500, and nothing is undone.
RestoreBlobsFails(a) ==
    /\ im[a].step = "blobs"
    /\ blob' \in {blob, RestoredBlob(a)}
    /\ UNCHANGED mem
    /\ ImportReturns(a)

\* The non-empty guard.
GuardPasses(a) ==
    /\ im[a].step = "guard" /\ mem = Empty
    /\ im' = [im EXCEPT ![a].step = "restore"]
    /\ UNCHANGED <<inside, memVars, idFile, clientVars, mk, fileVars, boots, made, clean, before>>

\* 409, or 500 when a store cannot tell whether it is empty.
GuardRefuses(a) ==
    /\ im[a].step = "guard"
    /\ UNCHANGED memVars
    /\ ImportReturns(a)

RestoreStore(a, s) ==
    /\ im[a].step = "restore" /\ s \in im[a].left
    /\ mem' = [mem EXCEPT ![s] = im[a].body.stores[s]]
    /\ im' = [im EXCEPT ![a].left = @ \ {s}]
    /\ UNCHANGED <<inside, blob, idFile, clientVars, mk, fileVars, boots, made, clean, before>>

\* Mutant of RestoreStoreFails: no rollback.
RestoreStoreFailsKept(a) ==
    /\ im[a].step = "restore" /\ im[a].left # {}
    /\ UNCHANGED memVars
    /\ ImportReturns(a)

\* A Restore fails, or the context ends: the deferred rollback wipes everything
\* before the lock is released.
RestoreStoreFails(a) ==
    /\ im[a].step = "restore" /\ im[a].left # {}
    /\ WipeAll
    /\ ImportReturns(a)

ImportEnds(a) ==
    /\ im[a].step = "restore" /\ im[a].left = {}
    /\ UNCHANGED memVars
    /\ ImportReturns(a)

-----------------------------------------------------------------------------
\* The tarball was never synced.
PowerLoss ==
    /\ boots < MaxBoots /\ boots' = boots + 1
    /\ inside' = {} /\ WipeAll
    /\ req' = NoRequest
    /\ mk' = [m \in Makers |-> IdleMaker] /\ im' = [a \in Importers |-> IdleImporter]
    /\ tar' \in {NoFile, Torn, tar} /\ opens' = {} /\ mixed' = FALSE
    /\ clean' = [m \in Makers |-> FALSE]
    /\ before' = [a \in Importers |-> IdleImporter.body]
    /\ UNCHANGED <<idFile, requests, made>>

RequestNext ==
    \/ \E op \in {"put", "delete"} : RequestBegins(op)
    \/ RequestBlob \/ RequestEnds
    \/ \E s \in Stores : RequestStore(s)

MakerNext(m) ==
    \/ \E kind \in {"export", "create"} : MakerBegins(m, kind)
    \/ \E s \in Stores : MakerReads(m, s)
    \/ MakerWrites(m) \/ MakerReadsBlobs(m) \/ MakerEnds(m) \/ MakerFails(m)

ImporterNext(a) ==
    \/ \E reset \in BOOLEAN : SnapshotRevert(a, reset)
    \/ \E reset, new \in BOOLEAN : Import(a, reset, new)
    \/ ResetCalled(a) \/ ImportLocked(a) \/ ImportCancelled(a) \/ ResetAll(a)
    \/ RestoreBlobs(a) \/ RestoreBlobsFails(a) \/ GuardPasses(a) \/ GuardRefuses(a)
    \/ \E s \in Stores : RestoreStore(a, s)
    \/ RestoreStoreFails(a) \/ ImportEnds(a)

AdminNext ==
    \/ RequestNext \/ SnapshotDelete \/ PowerLoss
    \/ \E m \in Makers : MakerNext(m)
    \/ \E a \in Importers : ImporterNext(a)

AdminSpec == AdminInit /\ [][AdminNext]_vars

-----------------------------------------------------------------------------
(* Properties *)

Returns(a) == a \in inside /\ a \notin inside' /\ boots' = boots

\* An import leaves all of one archive or nothing of it.  When it ends well the
\* stores hold exactly what one maker captured to its end, and the blob is that
\* archive's; a tarball torn by a crash, by a failed or a simultaneous create, or
\* deleted meanwhile is never restored in part.  When it fails the stores are as
\* it found them, or empty if a reset was asked for.
AllOrNothing ==
    [][\A a \in Importers : Returns(a) =>
        IF im[a].step = "restore" /\ im[a].left = {}
        THEN /\ im[a].body \in made
             /\ mem' = im[a].body.stores /\ blob' = RestoredBlob(a)
        ELSE \/ mem' = before[a].stores
             \/ im[a].reset /\ mem' = Empty]_vars

\* An archive that no cloud request overlapped is the state of one moment,
\* whatever imports, resets and other archives are asked for meanwhile.
ArchiveExact ==
    \A m \in Makers : clean[m] =>
        /\ \A s \in mk[m].got : mk[m].stores[s] = mem[s]
        /\ mk[m].step = "close" => mk[m].blob = blob
=============================================================================
