------------------------- MODULE AdminImportProofs -------------------------
(***************************************************************************)
(* Proofs about AdminImport: type correctness, that an archive no request  *)
(* overlapped is the state of one moment, and that an import leaves all of *)
(* one archive or nothing of it.  The inductive invariant says who is in   *)
(* the lock, that an importer in it is alone, and how far each import has  *)
(* come with the stores.                                                   *)
(***************************************************************************)
EXTENDS AdminImport, TLAPS

Working == {"wiping", "blobs", "guard", "restore"}

\* The lock is held by exactly those that are at work.
Occupancy ==
    /\ \A m \in Makers : m \in inside <=> mk[m].step # "idle"
    /\ \A a \in Importers : a \in inside <=> im[a].step \in Working
    /\ req.left # {} \/ req.blobLeft => Client \in inside /\ requests \in 1..MaxRequests

\* An importer in the lock is alone.
Exclusion == \A a \in Importers : a \in inside => inside = {a}

\* A maker counts as undisturbed only while it works and no request does.
CleanOK == \A m \in Makers : clean[m] => Client \notin inside /\ mk[m].step # "idle"

\* A maker that has not begun has read nothing.
IdleGot == \A m \in Makers : mk[m].step = "idle" => mk[m].got = {}

\* A tarball that parses was completed by some maker.
FileOK == tar \in made \cup {NoFile, Torn}

\* How far an importer has come.
Progress(a) ==
    /\ im[a].step \in {"locking", "blobs", "guard", "restore"} => im[a].body \in made
    /\ im[a].step = "wiping" /\ im[a].left # {} => im[a].body \in made
    /\ im[a].step \in {"locking", "blobs", "guard"} => im[a].left = Stores
    /\ im[a].step = "wiping" => im[a].left \in {{}, Stores}
    /\ im[a].step \in {"resetting", "wiping"} => im[a].reset
    /\ im[a].step = "wiping" => mem = before[a].stores
    /\ im[a].step \in {"blobs", "guard"} =>
          mem = IF im[a].reset THEN Empty ELSE before[a].stores
    /\ im[a].step = "restore" =>
          /\ im[a].reset \/ before[a].stores = Empty
          /\ \A s \in Stores : mem[s] = IF s \in im[a].left THEN Nothing ELSE im[a].body.stores[s]
    /\ im[a].step \in {"guard", "restore"} =>
          im[a].body.blob = Nothing \/ blob = im[a].body.blob

ImportOK == \A a \in Importers : Progress(a)

AdminInv ==
    /\ AdminTypeOK /\ Occupancy /\ Exclusion /\ CleanOK /\ ArchiveExact
    /\ IdleGot /\ FileOK /\ ImportOK

-----------------------------------------------------------------------------
MakerStates == [step : {"idle", "export", "create", "blobs", "close"},
                got : SUBSET Stores, stores : Contents, blob : Values]
ImporterStates == [step : {"idle", "locking", "resetting", "wiping", "blobs", "guard", "restore"},
                   body : Archives, reset : BOOLEAN, left : SUBSET Stores]

\* What the assumptions say of who uses the lock.
LEMMA Users ==
    /\ Client \in Sharers /\ Makers \subseteq Sharers /\ Importers = Excluders
    /\ Client \notin Makers /\ Client \notin Importers /\ Makers \cap Importers = {}
    /\ Stores # {}
BY AdminImportAssumption

\* The constants of the model are of their types.
LEMMA Idle ==
    /\ Nothing \in Values /\ Empty \in Contents
    /\ IdleMaker \in MakerStates /\ IdleMaker.step = "idle"
    /\ IdleImporter \in ImporterStates /\ IdleImporter.step = "idle"
    /\ IdleImporter.body \in Archives
<1>1. Nothing \in Values /\ Empty \in Contents
  BY DEF Values, Contents, Empty
<1> HIDE DEF Values, Contents, Empty
<1> QED BY <1>1 DEF IdleMaker, IdleImporter, MakerStates, ImporterStates, Archives

\* A step that changes neither the stores nor the importers keeps ImportOK.
LEMMA ImportKept ==
    ASSUME ImportOK, UNCHANGED <<mem, blob, im, before>>, made \subseteq made'
    PROVE  ImportOK'
BY DEF ImportOK, Progress

\* So does any change of the stores while no importer is at work.
LEMMA ImportAway ==
    ASSUME ImportOK, UNCHANGED <<im, before>>, made \subseteq made',
           \A a \in Importers : im[a].step \notin Working
    PROVE  ImportOK'
BY DEF ImportOK, Progress, Working

\* While a sharer is in the lock no importer is at work.
LEMMA SharerInside ==
    ASSUME AdminInv, NEW p \in Sharers, p \in inside
    PROVE  \A a \in Importers : im[a].step \notin Working
<1>1. p \notin Importers
  BY AdminImportAssumption
<1> QED BY <1>1 DEF AdminInv, Occupancy, Exclusion

\* A cloud request keeps the invariant: it is in the lock while it writes, so no
\* importer is at work, and no maker counts as undisturbed.
LEMMA RequestStep ==
    ASSUME AdminInv, RequestNext
    PROVE  AdminInv'
<1> USE DEF AdminInv
<1>1. ASSUME NEW op \in {"put", "delete"}, RequestBegins(op)
      PROVE  AdminInv'
  <2>1. /\ inside' = inside \cup {Client} /\ inside \cap Importers = {}
        /\ requests < MaxRequests /\ requests' = requests + 1
        /\ req' = [op |-> op, left |-> Stores, blobLeft |-> TRUE]
        /\ clean' = [m \in Makers |-> FALSE]
        /\ UNCHANGED <<mem, blob, idFile, mk, tar, opens, mixed, im, boots, made, before>>
    BY <1>1, Users DEF RequestBegins, EnterShared, memVars, fileVars
  <2>2. requests' \in 1..MaxRequests
    BY <2>1, AdminImportAssumption DEF AdminTypeOK
  <2>3. AdminTypeOK'
    BY <2>1, <2>2, Users DEF AdminTypeOK
  <2>4. Occupancy' /\ Exclusion'
    BY <2>1, <2>2, Users DEF Occupancy, Exclusion
  <2>5. CleanOK' /\ ArchiveExact' /\ IdleGot' /\ FileOK'
    BY <2>1 DEF CleanOK, ArchiveExact, IdleGot, FileOK
  <2> QED BY <2>1, <2>3, <2>4, <2>5, ImportKept
<1>2. ASSUME RequestBlob \/ \E s \in Stores : RequestStore(s)
      PROVE  AdminInv'
  <2>1. Client \in inside /\ requests \in 1..MaxRequests
    BY <1>2 DEF RequestBlob, RequestStore, Occupancy
  <2>2. /\ UNCHANGED <<inside, idFile, requests, mk, tar, opens, mixed, im, boots, made, clean, before>>
    BY <1>2 DEF RequestBlob, RequestStore, fileVars
  <2>3. requests \in Values /\ Nothing \in Values
    BY <2>1 DEF Values
  <2>4. AdminTypeOK'
    <3>1. CASE RequestBlob
      BY <2>2, <2>3, <3>1 DEF RequestBlob, AdminTypeOK
    <3>2. ASSUME NEW s \in Stores, RequestStore(s) PROVE AdminTypeOK'
      <4>1. mem' \in Contents
        BY <2>3, <3>2 DEF RequestStore, AdminTypeOK, Contents
      <4> QED BY <2>2, <3>2, <4>1 DEF RequestStore, AdminTypeOK
    <3> QED BY <1>2, <3>1, <3>2
  <2>5. Occupancy' /\ Exclusion'
    BY <2>1, <2>2 DEF Occupancy, Exclusion
  <2>6. CleanOK' /\ ArchiveExact' /\ IdleGot' /\ FileOK'
    BY <2>1, <2>2 DEF CleanOK, ArchiveExact, IdleGot, FileOK
  <2>7. ImportOK'
    BY <2>1, <2>2, Users, SharerInside, ImportAway
  <2> QED BY <2>4, <2>5, <2>6, <2>7
<1>3. CASE RequestEnds
  <2>1. /\ inside' = inside \ {Client} /\ Client \in inside /\ req' = NoRequest
        /\ UNCHANGED <<mem, blob, idFile, requests, mk, tar, opens, mixed, im, boots, made, clean, before>>
    BY <1>3 DEF RequestEnds, Leave, memVars, fileVars
  <2>2. AdminTypeOK'
    BY <2>1 DEF AdminTypeOK, NoRequest
  <2>3. Occupancy' /\ Exclusion'
    BY <2>1, Users DEF Occupancy, Exclusion, NoRequest
  <2>4. CleanOK' /\ ArchiveExact' /\ IdleGot' /\ FileOK'
    BY <2>1 DEF CleanOK, ArchiveExact, IdleGot, FileOK
  <2> QED BY <2>1, <2>2, <2>3, <2>4, ImportKept
<1> QED BY <1>1, <1>2, <1>3 DEF RequestNext

-----------------------------------------------------------------------------
\* A maker at work keeps importers out, so what it reads cannot change under it
\* but by a request.
LEMMA MakerReadStep ==
    ASSUME AdminInv, NEW m \in Makers,
           \/ \E kind \in {"export", "create"} : MakerBegins(m, kind)
           \/ \E s \in Stores : MakerReads(m, s)
           \/ MakerWrites(m) \/ MakerReadsBlobs(m)
    PROVE  AdminInv'
<1> USE DEF AdminInv
<1>1. mk \in [Makers -> MakerStates]
  BY DEF AdminTypeOK, MakerStates
<1>2. ASSUME NEW kind \in {"export", "create"}, MakerBegins(m, kind)
      PROVE  AdminInv'
  <2>1. /\ mk[m].step = "idle"
        /\ inside' = inside \cup {m} /\ inside \cap Importers = {}
        /\ mk' = [mk EXCEPT ![m].step = kind]
        /\ clean' = [clean EXCEPT ![m] = Client \notin inside]
        /\ UNCHANGED <<mem, blob, idFile, requests, req, tar, opens, mixed, im, boots, made, before>>
    BY <1>2, Users DEF MakerBegins, EnterShared, memVars, fileVars, clientVars
  <2>2. mk' \in [Makers -> MakerStates]
    BY <1>1, <2>1 DEF MakerStates
  <2>3. /\ mk'[m].step = kind /\ mk'[m].got = mk[m].got /\ mk'[m].stores = mk[m].stores
        /\ \A n \in Makers \ {m} : mk'[n] = mk[n]
    BY <1>1, <2>1 DEF MakerStates
  <2>4. mk[m].got = {} 
    BY <2>1 DEF IdleGot
  <2>5. AdminTypeOK'
    BY <1>1, <2>1, <2>2, <2>3, Users DEF AdminTypeOK, MakerStates
  <2>6. Occupancy' /\ Exclusion' /\ FileOK'
    BY <2>1, <2>3, Users DEF Occupancy, Exclusion, FileOK
  <2>7. CleanOK' /\ ArchiveExact'
    BY <2>1, <2>3, <2>4, Users DEF CleanOK, ArchiveExact, AdminTypeOK
  <2>8. IdleGot'
    BY <2>1, <2>3 DEF IdleGot
  <2> QED BY <2>1, <2>5, <2>6, <2>7, <2>8, ImportKept
<1>3. ASSUME NEW s \in Stores, MakerReads(m, s)
      PROVE  AdminInv'
  <2>1. /\ mk[m].step \in {"export", "create"}
        /\ UNCHANGED <<inside, mem, blob, idFile, requests, req, tar, opens, mixed, im, boots,
                       made, clean, before>>
    BY <1>3 DEF MakerReads, memVars, fileVars, clientVars
  <2>8. mk' = [mk EXCEPT ![m].got = @ \cup {s}, ![m].stores[s] = mem[s]]
    BY <1>3 DEF MakerReads
  <2>2. mk[m].stores \in [Stores -> Values] /\ mem \in [Stores -> Values]
    BY <1>1 DEF MakerStates, AdminTypeOK, Contents
  <2>3. /\ mk'[m].step = mk[m].step /\ mk'[m].got = mk[m].got \cup {s} /\ mk'[m].blob = mk[m].blob
        /\ mk'[m].stores = [mk[m].stores EXCEPT ![s] = mem[s]]
        /\ \A n \in Makers \ {m} : mk'[n] = mk[n]
    BY <1>1, <2>8 DEF MakerStates
  <2>4. mk' \in [Makers -> MakerStates]
    <3>1. [mk[m].stores EXCEPT ![s] = mem[s]] \in Contents
      BY <2>2 DEF Contents
    <3> DEFINE v == [mk[m].stores EXCEPT ![s] = mem[s]]
               g == mk[m].got \cup {s}
    <3>2. g \in SUBSET Stores
      BY <1>1 DEF MakerStates
    <3>3. mk' = [mk EXCEPT ![m] = [mk[m] EXCEPT !.got = g, !.stores = v]]
      BY <1>1, <2>8 DEF MakerStates
    <3> HIDE DEF v, g
    <3>4. [mk[m] EXCEPT !.got = g, !.stores = v] \in MakerStates
      BY <1>1, <3>1, <3>2 DEF MakerStates, v
    <3> QED BY <1>1, <3>3, <3>4
  <2>5. AdminTypeOK'
    BY <1>1, <2>1, <2>3, <2>4 DEF AdminTypeOK, MakerStates
  <2>6. Occupancy' /\ Exclusion' /\ FileOK' /\ CleanOK' /\ IdleGot'
    BY <2>1, <2>3 DEF Occupancy, Exclusion, FileOK, CleanOK, IdleGot
  <2>7. ArchiveExact'
    <3>1. mk[m].got \subseteq Stores
      BY <1>1 DEF MakerStates
    <3>2. clean[m] => \A r \in mk'[m].got : mk'[m].stores[r] = mem'[r]
      BY <2>1, <2>2, <2>3, <3>1 DEF ArchiveExact
    <3>3. mk'[m].step # "close" /\ \A n \in Makers \ {m} : mk'[n] = mk[n]
      BY <2>1, <2>3
    <3> QED BY <2>1, <3>2, <3>3 DEF ArchiveExact
  <2> QED BY <2>1, <2>5, <2>6, <2>7, ImportKept
<1>4. CASE MakerWrites(m)
  <2>1. /\ mk[m].step \in {"export", "create"}
        /\ mk' = [mk EXCEPT ![m].step = "blobs"]
        /\ \/ tar' = Torn /\ opens' = opens \cup {m} /\ mixed' \in BOOLEAN
           \/ UNCHANGED <<tar, opens, mixed>>
        /\ UNCHANGED <<inside, mem, blob, idFile, requests, req, im, boots, made, clean, before>>
    BY <1>4 DEF MakerWrites, memVars, fileVars, clientVars
  <2>2. mk' \in [Makers -> MakerStates]
    BY <1>1, <2>1 DEF MakerStates
  <2>3. /\ mk'[m].step = "blobs" /\ mk'[m].got = mk[m].got /\ mk'[m].stores = mk[m].stores
        /\ \A n \in Makers \ {m} : mk'[n] = mk[n]
    BY <1>1, <2>1 DEF MakerStates
  <2>4. AdminTypeOK'
    BY <1>1, <2>1, <2>2, <2>3 DEF AdminTypeOK, MakerStates
  <2>5. Occupancy' /\ Exclusion' /\ FileOK' /\ CleanOK' /\ ArchiveExact' /\ IdleGot'
    BY <2>1, <2>3 DEF Occupancy, Exclusion, FileOK, CleanOK, ArchiveExact, IdleGot
  <2> QED BY <2>1, <2>4, <2>5, ImportKept
<1>5. CASE MakerReadsBlobs(m)
  <2>1. /\ mk[m].step = "blobs"
        /\ UNCHANGED <<inside, mem, blob, idFile, requests, req, tar, opens, mixed, im, boots,
                       made, clean, before>>
    BY <1>5 DEF MakerReadsBlobs, memVars, fileVars, clientVars
  <2>7. mk' = [mk EXCEPT ![m].step = "close", ![m].blob = blob]
    BY <1>5 DEF MakerReadsBlobs
  <2>2. mk' \in [Makers -> MakerStates]
    BY <1>1, <2>7 DEF MakerStates, AdminTypeOK
  <2>3. /\ mk'[m].step = "close" /\ mk'[m].got = mk[m].got /\ mk'[m].stores = mk[m].stores
        /\ mk'[m].blob = blob
        /\ \A n \in Makers \ {m} : mk'[n] = mk[n]
    BY <1>1, <2>7 DEF MakerStates
  <2>4. AdminTypeOK'
    BY <1>1, <2>1, <2>2, <2>3 DEF AdminTypeOK, MakerStates
  <2>5. Occupancy' /\ Exclusion' /\ FileOK' /\ CleanOK' /\ IdleGot'
    BY <2>1, <2>3 DEF Occupancy, Exclusion, FileOK, CleanOK, IdleGot
  <2>6. ArchiveExact'
    BY <2>1, <2>3 DEF ArchiveExact
  <2> QED BY <2>1, <2>4, <2>5, <2>6, ImportKept
<1> QED BY <1>2, <1>3, <1>4, <1>5

\* A maker that ends leaves in the file a complete archive, or one that does not
\* parse.
LEMMA MakerEndStep ==
    ASSUME AdminInv, NEW m \in Makers, MakerEnds(m) \/ MakerFails(m)
    PROVE  AdminInv'
<1> USE DEF AdminInv
<1>1. mk \in [Makers -> MakerStates]
  BY DEF AdminTypeOK, MakerStates
<1>2. Archive(m) \in Archives
  BY <1>1 DEF Archive, Archives, MakerStates
<1>3. /\ inside' = inside \ {m} /\ mk' = [mk EXCEPT ![m] = IdleMaker]
      /\ opens' = opens \ {m} /\ clean' = [clean EXCEPT ![m] = FALSE]
      /\ UNCHANGED <<mem, blob, idFile, requests, req, mixed, im, boots, before>>
  BY DEF MakerEnds, MakerFails, MakerCloses, Leave, memVars, clientVars
<1>4. /\ made \subseteq made' /\ made' \subseteq made \cup {Archive(m)}
      /\ tar' \in made' \cup {Torn, tar}
  BY DEF MakerEnds, MakerFails, MakerCloses, FileAfter
<1>5. AdminTypeOK'
  BY <1>1, <1>2, <1>3, <1>4, Idle DEF AdminTypeOK, MakerStates
<1>6. Occupancy' /\ Exclusion'
  BY <1>1, <1>3, Idle, Users DEF Occupancy, Exclusion
<1>7. FileOK'
  BY <1>4 DEF FileOK
<1>8. CleanOK' /\ ArchiveExact'
  BY <1>1, <1>3 DEF CleanOK, ArchiveExact, AdminTypeOK
<1>9. IdleGot'
  BY <1>1, <1>3 DEF IdleGot, IdleMaker
<1> QED BY <1>3, <1>4, <1>5, <1>6, <1>7, <1>8, <1>9, ImportKept

-----------------------------------------------------------------------------
\* SnapshotDelete touches nothing but the file.
LEMMA DeleteStep ==
    ASSUME AdminInv, SnapshotDelete
    PROVE  AdminInv'
<1> USE DEF AdminInv
<1>1. /\ tar' = NoFile /\ opens' = {} /\ mixed' = FALSE
      /\ UNCHANGED <<inside, mem, blob, idFile, requests, req, mk, im, boots, made, clean, before>>
  BY DEF SnapshotDelete, memVars, clientVars
<1>2. AdminTypeOK' /\ FileOK'
  BY <1>1 DEF AdminTypeOK, FileOK
<1>3. Occupancy' /\ Exclusion' /\ CleanOK' /\ ArchiveExact' /\ IdleGot'
  BY <1>1 DEF Occupancy, Exclusion, CleanOK, ArchiveExact, IdleGot
<1> QED BY <1>1, <1>2, <1>3, ImportKept

\* After a power loss nobody is in the lock.
LEMMA PowerLossStep ==
    ASSUME AdminInv, PowerLoss
    PROVE  AdminInv'
<1> USE DEF AdminInv
<1>1. /\ inside' = {} /\ mem' = Empty /\ blob' = Nothing /\ req' = NoRequest
      /\ mk' = [m \in Makers |-> IdleMaker] /\ im' = [a \in Importers |-> IdleImporter]
      /\ tar' \in {NoFile, Torn, tar} /\ opens' = {} /\ mixed' = FALSE
      /\ clean' = [m \in Makers |-> FALSE]
      /\ before' = [a \in Importers |-> IdleImporter.body]
      /\ UNCHANGED <<idFile, requests, made>>
  BY DEF PowerLoss, WipeAll
<1>2. boots' \in 1..MaxBoots
  BY AdminImportAssumption DEF PowerLoss, AdminTypeOK
<1>3. AdminTypeOK'
  BY <1>1, <1>2, Idle DEF AdminTypeOK, NoRequest, MakerStates, ImporterStates
<1>4. Occupancy' /\ Exclusion' /\ CleanOK' /\ FileOK'
  BY <1>1, Idle DEF Occupancy, Exclusion, CleanOK, FileOK, NoRequest, Working
<1>5. ArchiveExact' /\ IdleGot'
  BY <1>1 DEF ArchiveExact, IdleGot, IdleMaker
<1>6. ImportOK'
  BY <1>1, Idle DEF ImportOK, Progress
<1> QED BY <1>3, <1>4, <1>5, <1>6

-----------------------------------------------------------------------------
\* An importer at work is alone: no maker and no request is.
LEMMA Alone ==
    ASSUME AdminInv, NEW a \in Importers, im[a].step \in Working
    PROVE  /\ inside = {a}
           /\ \A b \in Importers \ {a} : im[b].step \notin Working
           /\ \A m \in Makers : mk[m].step = "idle" /\ ~clean[m]
           /\ req.left = {} /\ ~req.blobLeft
BY Users DEF AdminInv, Occupancy, Exclusion, CleanOK, AdminTypeOK

\* So its changes of the stores concern no other importer.
LEMMA OthersKept ==
    ASSUME AdminInv, NEW a \in Importers, im[a].step \in Working, Progress(a)',
           \A b \in Importers \ {a} : im'[b] = im[b] /\ before'[b] = before[b],
           made' = made
    PROVE  ImportOK'
<1>1. \A b \in Importers \ {a} : im[b].step \notin Working
  BY Alone
<1> QED BY <1>1 DEF AdminInv, ImportOK, Progress, Working

\* Before it has the lock an importer leaves the stores alone.
LEMMA ImportAskStep ==
    ASSUME AdminInv, NEW a \in Importers,
           \/ \E reset \in BOOLEAN : SnapshotRevert(a, reset)
           \/ \E reset, new \in BOOLEAN : Import(a, reset, new)
           \/ ResetCalled(a) \/ ImportCancelled(a)
    PROVE  AdminInv'
<1> USE DEF AdminInv
<1>0. im \in [Importers -> ImporterStates]
  BY DEF AdminTypeOK, ImporterStates
<1> DEFINE Asks ==
       \E v \in ImporterStates :
          /\ im' = [im EXCEPT ![a] = v]
          /\ v.step \notin Working
          /\ v.step \in {"idle", "resetting", "locking"}
          /\ v.step = "locking" => v.body \in made /\ v.left = Stores
          /\ v.step = "resetting" => v.reset
<1>1. Asks
  <2>1. ASSUME NEW b \in made, NEW reset \in BOOLEAN, NEW new \in BOOLEAN,
               ImportChecked(a, b, reset, new)
        PROVE  Asks
    <3> DEFINE v == [step |-> "locking", body |-> b, reset |-> reset, left |-> Stores]
    <3>1. v \in ImporterStates
      BY DEF AdminTypeOK, ImporterStates
    <3>2. im' = [im EXCEPT ![a] = v]
      BY <2>1 DEF ImportChecked
    <3>3. v.step = "locking" /\ v.body = b /\ v.left = Stores
      OBVIOUS
    <3> HIDE DEF v
    <3> QED BY <3>1, <3>2, <3>3 DEF Working
  <2>2. ASSUME NEW reset \in BOOLEAN, SnapshotRevert(a, reset)
        PROVE  Asks
    BY <2>1, <2>2 DEF SnapshotRevert, Parsed, FileOK
  <2>3. ASSUME NEW reset \in BOOLEAN, NEW new \in BOOLEAN, Import(a, reset, new)
        PROVE  Asks
    BY <2>1, <2>3 DEF Import, Parsed
  <2>4. CASE ResetCalled(a)
    <3> DEFINE v == [im[a] EXCEPT !.step = "resetting", !.reset = TRUE]
    <3>1. im' = [im EXCEPT ![a] = v]
      BY <1>0, <2>4 DEF ResetCalled
    <3>2. v \in ImporterStates /\ v.step = "resetting" /\ v.reset
      BY <1>0 DEF ImporterStates
    <3> HIDE DEF v
    <3> QED BY <3>1, <3>2 DEF Working
  <2>5. CASE ImportCancelled(a)
    BY <2>5, Idle DEF ImportCancelled, Working
  <2> QED BY <2>2, <2>3, <2>4, <2>5
<1>2. /\ UNCHANGED <<inside, mem, blob, requests, req, mk, tar, opens, mixed, boots,
                     made, clean, before>>
      /\ idFile' \in {"own", "new"} /\ im[a].step \in {"idle", "locking", "resetting"}
  BY DEF SnapshotRevert, Import, ImportChecked, ResetCalled, ImportCancelled, memVars,
         clientVars, fileVars, AdminTypeOK
<1>3. AdminTypeOK'
  BY <1>0, <1>1, <1>2 DEF AdminTypeOK, ImporterStates
<1>4. Occupancy' /\ Exclusion' /\ CleanOK' /\ ArchiveExact' /\ IdleGot' /\ FileOK'
  <2>1. \A b \in Importers : im'[b].step \in Working <=> im[b].step \in Working
    BY <1>0, <1>1, <1>2 DEF Working
  <2>2. Occupancy' /\ Exclusion'
    BY <1>2, <2>1 DEF Occupancy, Exclusion
  <2> QED BY <1>2, <2>2 DEF CleanOK, ArchiveExact, IdleGot, FileOK
<1>5. ImportOK'
  <2>1. Progress(a)'
    BY <1>0, <1>1, <1>2 DEF Progress
  <2>2. \A b \in Importers \ {a} : im'[b] = im[b]
    BY <1>0, <1>1
  <2>3. \A b \in Importers \ {a} : Progress(b)'
    BY <1>2, <2>2 DEF ImportOK, Progress
  <2> QED BY <2>1, <2>3 DEF ImportOK
<1> QED BY <1>3, <1>4, <1>5

\* WriteBegin returns.
LEMMA ImportLockedStep ==
    ASSUME AdminInv, NEW a \in Importers, ImportLocked(a)
    PROVE  AdminInv'
<1> USE DEF AdminInv
<1>0. im \in [Importers -> ImporterStates]
  BY DEF AdminTypeOK, ImporterStates
<1>1. /\ im[a].step \in {"locking", "resetting"} /\ inside = {} /\ inside' = {a}
      /\ before' = [before EXCEPT ![a] = [stores |-> mem, blob |-> blob]]
      /\ UNCHANGED <<mem, blob, idFile, requests, req, mk, tar, opens, mixed, boots, made, clean>>
  BY DEF ImportLocked, EnterExclusive, memVars, clientVars, fileVars
<1> DEFINE next == IF im[a].step = "resetting" \/ im[a].reset THEN "wiping" ELSE "blobs"
           left == IF im[a].step = "resetting" THEN {} ELSE Stores
           v == [im[a] EXCEPT !.step = next, !.left = left]
<1>2. im' = [im EXCEPT ![a] = v]
  BY <1>0 DEF ImportLocked
<1>3. /\ v \in ImporterStates /\ v.step = next /\ v.left = left
      /\ v.body = im[a].body /\ v.reset = im[a].reset
  BY <1>0 DEF ImporterStates
<1>4. im'[a] = v /\ \A b \in Importers \ {a} : im'[b] = im[b]
  BY <1>0, <1>2
<1>5. [stores |-> mem, blob |-> blob] \in Archives
  BY DEF Archives, AdminTypeOK
<1>6. /\ before'[a].stores = mem
      /\ \A b \in Importers \ {a} : before'[b] = before[b]
      /\ before' \in [Importers -> Archives]
  BY <1>1, <1>5 DEF AdminTypeOK
<1> HIDE DEF v
<1>7. AdminTypeOK'
  <2>1. inside' \subseteq Sharers \cup Excluders
    BY <1>1, Users
  <2>2. im' \in [Importers -> ImporterStates]
    BY <1>0, <1>2, <1>3
  <2> QED BY <1>1, <1>6, <2>1, <2>2 DEF AdminTypeOK, ImporterStates
<1>8. Occupancy' /\ Exclusion'
  <2>1. v.step \in Working /\ \A b \in Importers : im[b].step \notin Working
    BY <1>1, <1>3 DEF Working, Occupancy
  <2>2. \A m \in Makers : mk[m].step = "idle" /\ m # a
    BY <1>1, Users DEF Occupancy
  <2> QED BY <1>1, <1>4, <2>1, <2>2 DEF Occupancy, Exclusion
<1>9. CleanOK' /\ ArchiveExact' /\ IdleGot' /\ FileOK'
  <2>1. \A m \in Makers : mk[m].step = "idle"
    BY <1>1, Users DEF Occupancy
  <2> QED BY <1>1, <2>1 DEF CleanOK, ArchiveExact, IdleGot, FileOK
<1>10. ImportOK'
  <2>1. Progress(a)'
    BY <1>1, <1>3, <1>4, <1>6, Users DEF ImportOK, Progress
  <2>2. \A b \in Importers \ {a} : Progress(b)'
    BY <1>1, <1>4, <1>6 DEF ImportOK, Progress
  <2> QED BY <2>1, <2>2 DEF ImportOK
<1> QED BY <1>7, <1>8, <1>9, <1>10

\* An importer at work does one thing to the stores and goes on.
LEMMA WorkStep ==
    ASSUME AdminInv, NEW a \in Importers, im[a].step \in Working,
           NEW v \in ImporterStates, v.step \in Working, im' = [im EXCEPT ![a] = v],
           mem' \in Contents, blob' \in Values, Progress(a)',
           UNCHANGED <<inside, idFile, requests, req, mk, tar, opens, mixed, boots, made,
                       clean, before>>
    PROVE  AdminInv'
<1> USE DEF AdminInv
<1>1. im \in [Importers -> ImporterStates]
  BY DEF AdminTypeOK, ImporterStates
<1>2. im'[a] = v /\ \A b \in Importers \ {a} : im'[b] = im[b]
  BY <1>1
<1>3. AdminTypeOK'
  BY <1>1 DEF AdminTypeOK, ImporterStates
<1>4. Occupancy' /\ Exclusion' /\ IdleGot' /\ FileOK'
  BY <1>2 DEF Occupancy, Exclusion, IdleGot, FileOK
<1>5. CleanOK' /\ ArchiveExact'
  BY Alone DEF CleanOK, ArchiveExact
<1>6. ImportOK'
  BY <1>2, OthersKept
<1> QED BY <1>3, <1>4, <1>5, <1>6

\* An importer at work returns and leaves the lock.
LEMMA ReturnsStep ==
    ASSUME AdminInv, NEW a \in Importers, im[a].step \in Working, ImportReturns(a),
           mem' \in Contents, blob' \in Values
    PROVE  AdminInv'
<1> USE DEF AdminInv
<1>1. im \in [Importers -> ImporterStates]
  BY DEF AdminTypeOK, ImporterStates
<1>2. /\ inside = {a} /\ inside' = {}
      /\ im' = [im EXCEPT ![a] = IdleImporter]
      /\ before' = [before EXCEPT ![a] = IdleImporter.body]
      /\ UNCHANGED <<idFile, requests, req, mk, tar, opens, mixed, boots, made, clean>>
  BY Alone DEF ImportReturns, Leave, clientVars, fileVars
<1>3. /\ im'[a].step = "idle"
      /\ \A b \in Importers \ {a} : im'[b] = im[b] /\ before'[b] = before[b]
  BY <1>1, <1>2, Idle DEF AdminTypeOK
<1>4. AdminTypeOK'
  BY <1>1, <1>2, Idle DEF AdminTypeOK, ImporterStates
<1>5. Occupancy' /\ Exclusion'
  BY <1>2, <1>3, Alone DEF Occupancy, Exclusion, Working
<1>6. CleanOK' /\ ArchiveExact' /\ IdleGot' /\ FileOK'
  BY <1>2, Alone DEF CleanOK, ArchiveExact, IdleGot, FileOK
<1>7. Progress(a)'
  BY <1>3 DEF Progress
<1>8. ImportOK'
  BY <1>2, <1>3, <1>7, OthersKept
<1> QED BY <1>4, <1>5, <1>6, <1>8

\* The steps of an importer that has the lock.
LEMMA ImportWorkStep ==
    ASSUME AdminInv, NEW a \in Importers,
           \/ ResetAll(a) \/ RestoreBlobs(a) \/ RestoreBlobsFails(a)
           \/ GuardPasses(a) \/ GuardRefuses(a)
           \/ \E s \in Stores : RestoreStore(a, s)
           \/ RestoreStoreFails(a) \/ ImportEnds(a)
    PROVE  AdminInv'
<1>0. /\ im \in [Importers -> ImporterStates] /\ mem \in Contents /\ blob \in Values
      /\ im[a].body \in Archives /\ Progress(a)
  BY DEF AdminInv, AdminTypeOK, ImporterStates, ImportOK
<1>1. im[a].body.stores \in Contents /\ im[a].body.blob \in Values
  BY <1>0 DEF Archives
<1>2. RestoredBlob(a) \in Values
  BY <1>0, <1>1 DEF RestoredBlob
<1>3. CASE ResetAll(a)
  <2>1. im[a].step = "wiping" /\ mem' = Empty /\ blob' = Nothing
    BY <1>3 DEF ResetAll, WipeAll
  <2>2. CASE im[a].left = {}
    BY <1>3, <2>1, <2>2, Idle, ReturnsStep DEF ResetAll, Working
  <2>3. CASE im[a].left # {}
    <3> DEFINE v == [im[a] EXCEPT !.step = "blobs"]
    <3>1. /\ im' = [im EXCEPT ![a] = v]
          /\ UNCHANGED <<inside, idFile, requests, req, mk, tar, opens, mixed, boots, made,
                         clean, before>>
      BY <1>0, <1>3, <2>3 DEF ResetAll, clientVars, fileVars
    <3>2. /\ v \in ImporterStates /\ v.step = "blobs" /\ v.body = im[a].body
          /\ v.reset = im[a].reset /\ v.left = im[a].left
      BY <1>0 DEF ImporterStates
    <3> HIDE DEF v
    <3>3. im'[a] = v
      BY <1>0, <3>1
    <3>4. Progress(a)'
      BY <1>0, <2>1, <2>3, <3>1, <3>2, <3>3 DEF Progress
    <3> QED BY <2>1, <3>1, <3>2, <3>4, Idle, WorkStep DEF Working
  <2> QED BY <2>2, <2>3
<1>4. CASE RestoreBlobs(a)
  <2> DEFINE v == [im[a] EXCEPT !.step = IF im[a].reset THEN "restore" ELSE "guard"]
  <2>1. /\ im[a].step = "blobs" /\ blob' = RestoredBlob(a) /\ im' = [im EXCEPT ![a] = v]
        /\ UNCHANGED <<inside, mem, idFile, requests, req, mk, tar, opens, mixed, boots, made,
                       clean, before>>
    BY <1>0, <1>4 DEF RestoreBlobs, clientVars, fileVars
  <2>2. /\ v \in ImporterStates /\ v.step = IF im[a].reset THEN "restore" ELSE "guard"
        /\ v.body = im[a].body /\ v.reset = im[a].reset /\ v.left = im[a].left
    BY <1>0 DEF ImporterStates
  <2> HIDE DEF v
  <2>3. im'[a] = v
    BY <1>0, <2>1
  <2>4. Progress(a)'
    <3>1. im[a].body.blob = Nothing \/ blob' = im[a].body.blob
      BY <2>1 DEF RestoredBlob
    <3> QED BY <1>0, <2>1, <2>2, <2>3, <3>1 DEF Progress, Empty
  <2> QED BY <1>0, <1>2, <2>1, <2>2, <2>4, WorkStep DEF Working
<1>5. CASE RestoreBlobsFails(a)
  BY <1>0, <1>2, <1>5, ReturnsStep DEF RestoreBlobsFails, Working
<1>6. CASE GuardPasses(a)
  <2> DEFINE v == [im[a] EXCEPT !.step = "restore"]
  <2>1. /\ im[a].step = "guard" /\ mem = Empty /\ im' = [im EXCEPT ![a] = v]
        /\ UNCHANGED <<inside, mem, blob, idFile, requests, req, mk, tar, opens, mixed, boots,
                       made, clean, before>>
    BY <1>0, <1>6 DEF GuardPasses, memVars, clientVars, fileVars
  <2>2. /\ v \in ImporterStates /\ v.step = "restore"
        /\ v.body = im[a].body /\ v.reset = im[a].reset /\ v.left = im[a].left
    BY <1>0 DEF ImporterStates
  <2> HIDE DEF v
  <2>3. im'[a] = v
    BY <1>0, <2>1
  <2>4. Progress(a)'
    BY <1>0, <2>1, <2>2, <2>3 DEF Progress, Empty
  <2> QED BY <1>0, <2>1, <2>2, <2>4, WorkStep DEF Working
<1>7. CASE GuardRefuses(a)
  BY <1>0, <1>7, ReturnsStep DEF GuardRefuses, Working, memVars
<1>8. ASSUME NEW s \in Stores, RestoreStore(a, s)
      PROVE  AdminInv'
  <2> DEFINE rest == im[a].left \ {s}
             v == [im[a] EXCEPT !.left = rest]
  <2>1. /\ im[a].step = "restore" /\ mem' = [mem EXCEPT ![s] = im[a].body.stores[s]]
        /\ UNCHANGED <<inside, blob, idFile, requests, req, mk, tar, opens, mixed, boots,
                       made, clean, before>>
    BY <1>8 DEF RestoreStore, clientVars, fileVars
  <2>2. im' = [im EXCEPT ![a] = v]
    BY <1>0, <1>8 DEF RestoreStore
  <2>3. /\ v \in ImporterStates /\ v.step = "restore" /\ v.left = im[a].left \ {s}
        /\ v.body = im[a].body /\ v.reset = im[a].reset
    <3>1. rest \in SUBSET Stores
      BY <1>0 DEF ImporterStates
    <3> HIDE DEF rest
    <3>2. v.left = rest
      BY <1>0 DEF ImporterStates
    <3>3. v \in ImporterStates /\ v.step = "restore" /\ v.body = im[a].body /\ v.reset = im[a].reset
      BY <1>0, <2>1, <3>1 DEF ImporterStates
    <3> QED BY <3>2, <3>3 DEF rest
  <2> HIDE DEF v
  <2>4. im'[a] = v
    BY <1>0, <2>2
  <2>5. mem' \in Contents
    BY <1>0, <1>1, <2>1 DEF Contents
  <2>6. Progress(a)'
    <3>1. \A r \in Stores : mem'[r] = IF r \in v.left THEN Nothing ELSE im[a].body.stores[r]
      BY <1>0, <2>1, <2>3 DEF Progress, Contents
    <3> QED BY <1>0, <2>1, <2>3, <2>4, <3>1 DEF Progress
  <2> QED BY <1>0, <2>1, <2>2, <2>3, <2>5, <2>6, WorkStep DEF Working
<1>9. CASE RestoreStoreFails(a)
  BY <1>9, Idle, ReturnsStep DEF RestoreStoreFails, WipeAll, Working
<1>10. CASE ImportEnds(a)
  BY <1>0, <1>10, ReturnsStep DEF ImportEnds, Working, memVars
<1> QED BY <1>3, <1>4, <1>5, <1>6, <1>7, <1>8, <1>9, <1>10

-----------------------------------------------------------------------------
\* The invariant is inductive, for any number of makers, importers, stores,
\* requests and restarts.
THEOREM AdminInvariant == AdminSpec => []AdminInv
<1>1. AdminInit => AdminInv
  <2> SUFFICES ASSUME AdminInit PROVE AdminInv
    OBVIOUS
  <2>1. AdminTypeOK
    <3>1. 1 \in 1..MaxBoots /\ 0 \in 0..MaxRequests
      BY AdminImportAssumption
    <3>2. mk \in [Makers -> MakerStates] /\ im \in [Importers -> ImporterStates]
      BY Idle DEF AdminInit
    <3>3. /\ req \in [op : {"none", "put", "delete"}, left : SUBSET Stores, blobLeft : BOOLEAN]
          /\ before \in [Importers -> Archives] /\ clean \in [Makers -> BOOLEAN]
      BY Idle DEF AdminInit, NoRequest
    <3> QED BY <3>1, <3>2, <3>3, Idle
            DEF AdminInit, LockInit, AdminTypeOK, MakerStates, ImporterStates
  <2>2. Occupancy /\ Exclusion /\ CleanOK /\ FileOK
    BY Idle DEF AdminInit, LockInit, Occupancy, Exclusion, CleanOK, FileOK, NoRequest, Working
  <2>3. ArchiveExact /\ IdleGot
    BY DEF AdminInit, ArchiveExact, IdleGot, IdleMaker
  <2>4. ImportOK
    BY Idle DEF AdminInit, ImportOK, Progress
  <2> QED BY <2>1, <2>2, <2>3, <2>4 DEF AdminInv
<1>2. AdminInv /\ [AdminNext]_vars => AdminInv'
  <2> SUFFICES ASSUME AdminInv, [AdminNext]_vars PROVE AdminInv'
    OBVIOUS
  <2>1. CASE RequestNext
    BY <2>1, RequestStep
  <2>2. CASE SnapshotDelete \/ PowerLoss
    BY <2>2, DeleteStep, PowerLossStep
  <2>3. ASSUME NEW m \in Makers, MakerNext(m) PROVE AdminInv'
    BY <2>3, MakerReadStep, MakerEndStep DEF MakerNext
  <2>4. ASSUME NEW a \in Importers, ImporterNext(a) PROVE AdminInv'
    BY <2>4, ImportAskStep, ImportLockedStep, ImportWorkStep DEF ImporterNext
  <2>5. CASE UNCHANGED vars
    <3>1. /\ UNCHANGED <<inside, mem, blob, idFile, requests, req, mk, tar, opens, mixed, im,
                         boots, made, clean, before>>
      BY <2>5 DEF vars, memVars, clientVars, fileVars
    <3>2. AdminTypeOK'
      BY <3>1 DEF AdminInv, AdminTypeOK
    <3>3. Occupancy' /\ Exclusion' /\ CleanOK' /\ ArchiveExact' /\ IdleGot' /\ FileOK'
      BY <3>1 DEF AdminInv, Occupancy, Exclusion, CleanOK, ArchiveExact, IdleGot, FileOK
    <3> QED BY <3>1, <3>2, <3>3, ImportKept DEF AdminInv
  <2> QED BY <2>1, <2>2, <2>3, <2>4, <2>5 DEF AdminNext
<1> QED BY <1>1, <1>2, PTL DEF AdminSpec

\* Whatever is asked of the process and whenever power is lost, the state of the
\* stores, of the archive and of the calls under way is well formed, and the
\* tarball is open only for creates that are writing to it.
THEOREM AdminTypes == AdminSpec => []AdminTypeOK
BY AdminInvariant, PTL DEF AdminInv

\* What export and SnapshotCreate have read is what the stores hold, for as long
\* as no cloud request has overlapped them: the barrier keeps Import, Reset and
\* SnapshotRevert out until they return.
THEOREM ArchivesAreExact == AdminSpec => []ArchiveExact
BY AdminInvariant, PTL DEF AdminInv

\* The last step of an import leaves what AllOrNothing says.
LEMMA ReturnLeaves ==
    ASSUME AdminInv, AdminNext, NEW a \in Importers, Returns(a)
    PROVE  IF im[a].step = "restore" /\ im[a].left = {}
           THEN /\ im[a].body \in made
                /\ mem' = im[a].body.stores /\ blob' = RestoredBlob(a)
           ELSE \/ mem' = before[a].stores
                \/ im[a].reset /\ mem' = Empty
<1>1. a \in inside /\ a \notin inside' /\ boots' = boots
  BY DEF Returns
<1>2. /\ im[a].step \in Working /\ inside = {a} /\ Progress(a) /\ mem \in Contents
      /\ im[a].body.stores \in Contents
  BY <1>1 DEF AdminInv, Occupancy, Exclusion, ImportOK, AdminTypeOK, Archives
<1>3. \/ ResetAll(a) \/ RestoreBlobsFails(a) \/ GuardRefuses(a)
      \/ RestoreStoreFails(a) \/ ImportEnds(a)
  <2>1. ~RequestNext /\ ~SnapshotDelete /\ ~PowerLoss
    <3>1. a # Client /\ Client \notin inside
      BY <1>2, Users
    <3>2. ~PowerLoss
      BY <1>1 DEF PowerLoss, AdminInv, AdminTypeOK
    <3> QED BY <1>1, <3>1, <3>2
            DEF RequestNext, RequestBegins, RequestBlob, RequestStore, RequestEnds, EnterShared,
                Leave, SnapshotDelete
  <2>2. \A m \in Makers : ~MakerNext(m)
    BY <1>1, <1>2, Users
    DEF MakerNext, MakerBegins, MakerReads, MakerWrites, MakerReadsBlobs, MakerEnds, MakerFails,
        MakerCloses, EnterShared, Leave
  <2>3. PICK b \in Importers : ImporterNext(b)
    BY <2>1, <2>2 DEF AdminNext
  <2>4. b = a
    BY <1>1, <1>2, <2>3
    DEF ImporterNext, SnapshotRevert, Import, ImportChecked, ResetCalled, ImportLocked,
        EnterExclusive, ImportCancelled, ResetAll, RestoreBlobs, RestoreBlobsFails, GuardPasses,
        GuardRefuses, RestoreStore, RestoreStoreFails, ImportEnds, ImportReturns, Leave
  <2> QED BY <1>1, <2>3, <2>4
          DEF ImporterNext, SnapshotRevert, Import, ImportChecked, ResetCalled, ImportLocked,
              EnterExclusive, ImportCancelled, RestoreBlobs, GuardPasses, RestoreStore
<1>4. CASE ResetAll(a)
  BY <1>2, <1>4 DEF ResetAll, WipeAll, Progress
<1>5. CASE RestoreBlobsFails(a)
  BY <1>2, <1>5 DEF RestoreBlobsFails, Progress
<1>6. CASE GuardRefuses(a)
  BY <1>2, <1>6 DEF GuardRefuses, memVars, Progress
<1>7. CASE RestoreStoreFails(a)
  BY <1>2, <1>7 DEF RestoreStoreFails, WipeAll, Progress
<1>8. CASE ImportEnds(a)
  <2>1. mem' = mem /\ blob' = blob /\ im[a].step = "restore" /\ im[a].left = {}
    BY <1>8 DEF ImportEnds, memVars
  <2>2. mem = im[a].body.stores
    BY <1>2, <2>1 DEF Progress, Contents
  <2> QED BY <1>2, <2>1, <2>2 DEF Progress, RestoredBlob
<1> QED BY <1>3, <1>4, <1>5, <1>6, <1>7, <1>8

\* Import, SnapshotRevert and Reset end with the stores as one completed archive
\* had them, as they found them, or empty if a reset was asked for; a torn, mixed
\* or deleted tarball is never restored in part.
THEOREM ImportsAllOrNothing == AdminSpec => AllOrNothing
<1>1. AdminInv /\ [AdminNext]_vars =>
        [\A a \in Importers : Returns(a) =>
            IF im[a].step = "restore" /\ im[a].left = {}
            THEN /\ im[a].body \in made
                 /\ mem' = im[a].body.stores /\ blob' = RestoredBlob(a)
            ELSE \/ mem' = before[a].stores
                 \/ im[a].reset /\ mem' = Empty]_vars
  BY ReturnLeaves
<1> QED BY <1>1, AdminInvariant, PTL DEF AdminSpec, AllOrNothing

=============================================================================
