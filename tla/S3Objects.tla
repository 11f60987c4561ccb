----------------------------- MODULE S3Objects -----------------------------
(***************************************************************************)
(* One key of one S3 bucket: PutObject, GetObject, DeleteObject,           *)
(* DeleteObjects and PutBucketVersioning                                   *)
(* (internal/aws/provider/object/{crud,versioning}.go) over the metadata   *)
(* store (internal/aws/store/s3/memory.go) and the blob store.             *)
(*                                                                         *)
(* Metadata and blobs are two stores and no lock spans both: every call    *)
(* into one of them is a step, and handlers interleave between the calls.  *)
(* A body stands for itself, its size and its ETag.                        *)
(***************************************************************************)
EXTENDS Integers, Sequences, SequencesExt

CONSTANTS
    Clients,
    Bodies,
    NoBody,         \* no such blob, no such object
    MaxPuts         \* bound: how many puts and delete markers there are

ASSUME S3Assumption ==
    /\ NoBody \notin Bodies
    /\ MaxPuts \in Nat \ {0}

VARIABLES
    status,     \* the versioning status of the bucket
    object,     \* the body the current-object metadata describes, or NoBody
    versions,   \* the version list, newest first
    blobs,      \* the blob store: blob key |-> body
    next,       \* the next version id
    op,         \* the handler each client waits for
    answer,     \* what the last GetObject of each client answered
    acked,      \* history: the versions PutObject answered, id |-> body
    removed     \* history: the versions a delete has named

stores == <<status, object, versions, blobs>>
history == <<acked, removed>>
vars == <<stores, next, op, answer, history>>

\* Version ids are drawn afresh; Null is "null", and "" of an unversioned put.
Null == 0
VersionIds == 1..MaxPuts

\* blobKeyForVersion: the null version is stored under the plain key.
Plain == Null
BlobKeys == {Plain} \cup VersionIds

\* Mutant of BlobKey: versions share the blob of the plain key.
BlobKeyPlain(v) == Plain

BlobKey(v) == IF v = Null THEN Plain ELSE v

Entries == [vid : BlobKeys, body : Bodies \cup {NoBody}, marker : BOOLEAN]

\* kind    the step the handler takes next
\* status  the versioning status it has read
\* vid     its version id, Null also for a request without one
\* body    the body to put, or the body of the metadata it has read
\* blob    the blob key it works on
Ops == [kind : {"idle", "putblob", "check", "publish", "point", "mark", "unlist",
                "unlisteach", "drop", "erase", "lookup", "lookupversion", "stream",
                "recheck"},
        status : {"", "Enabled", "Suspended"}, vid : BlobKeys,
        body : Bodies \cup {NoBody}, blob : BlobKeys]

Idle == [kind |-> "idle", status |-> "", vid |-> Null, body |-> NoBody, blob |-> Plain]
Answers == [code : {0, 200, 404, 500}, vid : BlobKeys,
            etag : Bodies \cup {NoBody}, body : Bodies \cup {NoBody}]
NoAnswer == [code |-> 0, vid |-> Null, etag |-> NoBody, body |-> NoBody]

\* The variables have their types, and no version id is drawn twice.
S3TypeOK ==
    /\ status \in {"", "Enabled", "Suspended"}
    /\ object \in Bodies \cup {NoBody}
    /\ versions \in Seq(Entries)
    /\ blobs \in [BlobKeys -> Bodies \cup {NoBody}]
    /\ next \in 1..MaxPuts + 1
    /\ op \in [Clients -> Ops]
    /\ answer \in [Clients -> Answers]
    /\ acked \in [VersionIds -> Bodies \cup {NoBody}]
    /\ removed \subseteq BlobKeys
    /\ \A i, j \in DOMAIN versions :
          versions[i].vid = versions[j].vid => i = j \/ versions[i].vid = Null

S3Init ==
    /\ status = "" /\ object = NoBody /\ versions = <<>>
    /\ blobs = [k \in BlobKeys |-> NoBody]
    /\ next = 1
    /\ op = [c \in Clients |-> Idle]
    /\ answer = [c \in Clients |-> NoAnswer]
    /\ acked = [v \in VersionIds |-> NoBody]
    /\ removed = {}

-----------------------------------------------------------------------------
(* The metadata store *)

\* The newest entry with one of these ids, if there is one.
NewestOf(ids) ==
    {versions[i] : i \in {j \in DOMAIN versions :
        /\ versions[j].vid \in ids
        /\ \A k \in 1..j - 1 : versions[k].vid \notin ids}}

PutObjectVersion(e) == versions' = <<e>> \o versions

\* Mutant of DeleteObjectVersion: the current version goes, not the named one.
DeleteObjectVersionNewest(v) ==
    versions' = IF versions = <<>> THEN versions ELSE Tail(versions)

DeleteObjectVersion(v) ==
    versions' = RemoveFirstMatch(versions, LAMBDA e : e.vid = v)

-----------------------------------------------------------------------------
(* The handlers *)

Begin(c, o) ==
    /\ op[c] = Idle
    /\ op' = [op EXCEPT ![c] = o]
    /\ answer' = [answer EXCEPT ![c] = NoAnswer]

Goto(c, kind) == op' = [op EXCEPT ![c].kind = kind]
Done(c) == op' = [op EXCEPT ![c] = Idle]

At(c, kind) == op[c].kind = kind

Versioned(c) == op[c].status # ""

\* Mutant of PutBegin: a version id is drawn twice.
PutBeginRepeats(c, b) ==
    /\ next <= MaxPuts
    /\ LET v == IF status = "Enabled" THEN next ELSE Null
       IN Begin(c, [kind |-> "putblob", status |-> status, vid |-> v, body |-> b,
                    blob |-> BlobKey(v)])
    /\ UNCHANGED <<stores, next, history>>

\* PutObject reads the versioning status and fixes version id and blob key.
PutBegin(c, b) ==
    /\ next <= MaxPuts
    /\ LET v == IF status = "Enabled" THEN next ELSE Null
       IN Begin(c, [kind |-> "putblob", status |-> status, vid |-> v, body |-> b,
                    blob |-> BlobKey(v)])
    /\ next' = next + 1
    /\ UNCHANGED <<stores, history>>

PutBlob(c) ==
    /\ At(c, "putblob")
    /\ blobs' = [blobs EXCEPT ![op[c].blob] = op[c].body]
    /\ Goto(c, "check")
    /\ UNCHANGED <<status, object, versions, next, answer, history>>

\* BadDigest: the blob just written is deleted again.
PutBadDigest(c) ==
    /\ At(c, "check")
    /\ blobs' = [blobs EXCEPT ![op[c].blob] = NoBody]
    /\ Done(c)
    /\ UNCHANGED <<status, object, versions, next, answer, history>>

\* A tag, encryption or lock header is refused; the blob stays behind.
PutInvalid(c) ==
    /\ At(c, "check")
    /\ Done(c)
    /\ UNCHANGED <<stores, next, answer, history>>

PutValid(c) ==
    /\ At(c, "check")
    /\ Goto(c, IF Versioned(c) THEN "publish" ELSE "point")
    /\ UNCHANGED <<stores, next, answer, history>>

\* PutObjectVersion, in an enabled or suspended bucket.
PutVersion(c) ==
    /\ At(c, "publish")
    /\ PutObjectVersion([vid |-> op[c].vid, body |-> op[c].body, marker |-> FALSE])
    /\ Goto(c, "point")
    /\ UNCHANGED <<status, object, blobs, next, answer, history>>

\* PutObjectMeta, and the answer.
PutMeta(c) ==
    /\ At(c, "point")
    /\ object' = op[c].body
    /\ acked' = IF op[c].vid = Null THEN acked ELSE [acked EXCEPT ![op[c].vid] = op[c].body]
    /\ Done(c)
    /\ UNCHANGED <<status, versions, blobs, next, answer, removed>>

\* Mutant of DeleteObjectBegin: the blob is deleted before the metadata.
DeleteObjectBlobFirst(c, v) ==
    /\ status = "Enabled"
    /\ Begin(c, [Idle EXCEPT !.kind = "unlist", !.vid = v, !.blob = BlobKey(v)])
    /\ blobs' = [blobs EXCEPT ![BlobKey(v)] = NoBody]
    /\ UNCHANGED <<status, object, versions, next, history>>

\* DeleteObject with a version id, versioning enabled.
DeleteObjectBegin(c, v) ==
    /\ status = "Enabled"
    /\ Begin(c, [Idle EXCEPT !.kind = "unlist", !.vid = v, !.blob = BlobKey(v)])
    /\ UNCHANGED <<stores, next, history>>

\* A version id that is not listed is no error, and its blob is deleted.
Unlist(c) ==
    /\ At(c, "unlist")
    /\ DeleteObjectVersion(op[c].vid)
    /\ removed' = removed \cup {op[c].vid}
    /\ Goto(c, "drop")
    /\ UNCHANGED <<status, object, blobs, next, answer, acked>>

\* DeleteObjects with a version id, versioning enabled or suspended; the
\* version is looked up first.
DeleteObjectsBegin(c, v) ==
    /\ status # ""
    /\ \E m \in NewestOf({v}) :
          Begin(c, [Idle EXCEPT !.kind = "unlisteach", !.vid = v, !.body = m.body])
    /\ UNCHANGED <<stores, next, history>>

\* The plain blob goes with any version that is still listed and no marker.
UnlistEach(c) ==
    /\ At(c, "unlisteach")
    /\ DeleteObjectVersion(op[c].vid)
    /\ removed' = removed \cup {op[c].vid}
    /\ IF NewestOf({op[c].vid}) # {} /\ op[c].body # NoBody THEN Goto(c, "drop") ELSE Done(c)
    /\ UNCHANGED <<status, object, blobs, next, answer, acked>>

\* Without a version id: a delete marker.
MarkBegin(c) ==
    /\ status # "" /\ next <= MaxPuts
    /\ Begin(c, [Idle EXCEPT !.kind = "mark", !.vid = next])
    /\ next' = next + 1
    /\ UNCHANGED <<stores, history>>

Mark(c) ==
    /\ At(c, "mark")
    /\ PutObjectVersion([vid |-> op[c].vid, body |-> NoBody, marker |-> TRUE])
    /\ Done(c)
    /\ UNCHANGED <<status, object, blobs, next, answer, history>>

\* DeleteObject unless versioning is enabled: metadata first, then the blob.
EraseBegin(c) ==
    /\ status # "Enabled"
    /\ Begin(c, [Idle EXCEPT !.kind = "erase"])
    /\ UNCHANGED <<stores, next, history>>

Erase(c) ==
    /\ At(c, "erase")
    /\ object' = NoBody
    /\ Goto(c, "drop")
    /\ UNCHANGED <<status, versions, blobs, next, answer, history>>

DropBlob(c) ==
    /\ At(c, "drop")
    /\ blobs' = [blobs EXCEPT ![op[c].blob] = NoBody]
    /\ Done(c)
    /\ UNCHANGED <<status, object, versions, next, answer, history>>

\* GetObject reads the versioning status ...
GetBegin(c, kind, v) ==
    /\ Begin(c, [Idle EXCEPT !.kind = kind, !.status = status, !.vid = v])
    /\ UNCHANGED <<stores, next, history>>

Reply(c, code, b) ==
    /\ answer' = [answer EXCEPT ![c] = [code |-> code, vid |-> op[c].vid,
                                        etag |-> op[c].body, body |-> b]]
    /\ Done(c)

\* ... then the metadata: of the object, of the newest version, or of the
\* version asked for ...
Found(c) ==
    IF ~Versioned(c) THEN {[vid |-> Null, body |-> object]}
    ELSE NewestOf(IF At(c, "lookup") THEN BlobKeys ELSE {op[c].vid})

Lookup(c) ==
    /\ At(c, "lookup") \/ At(c, "lookupversion")
    /\ \E m \in Found(c) :
          /\ m.body # NoBody
          /\ op' = [op EXCEPT ![c].kind = "stream", ![c].vid = m.vid,
                              ![c].body = m.body, ![c].blob = BlobKey(m.vid)]
    /\ UNCHANGED <<stores, next, answer, history>>

\* Nothing there, or a delete marker; 404 stands for the 405 of a marker too.
LookupFails(c) ==
    /\ At(c, "lookup") \/ At(c, "lookupversion")
    /\ \A m \in Found(c) : m.body = NoBody
    /\ Reply(c, 404, NoBody)
    /\ UNCHANGED <<stores, next, history>>

\* ... then the blob, ...
Stream(c) ==
    /\ At(c, "stream")
    /\ LET b == blobs[op[c].blob]
       IN IF b # NoBody THEN Reply(c, 200, b)
                        ELSE Goto(c, "recheck") /\ UNCHANGED answer
    /\ UNCHANGED <<stores, next, history>>

\* ... and if it is missing the object's metadata again.
Recheck(c) ==
    /\ At(c, "recheck")
    /\ Reply(c, IF object = NoBody THEN 404 ELSE 500, NoBody)
    /\ UNCHANGED <<stores, next, history>>

PutBucketVersioning(s) ==
    /\ s \in {"Enabled", "Suspended"} \ {status}
    /\ status' = s
    /\ UNCHANGED <<object, versions, blobs, next, op, answer, history>>

-----------------------------------------------------------------------------

Listed == {versions[i].vid : i \in DOMAIN versions}

Put(c) == \/ \E b \in Bodies : PutBegin(c, b)
          \/ PutBlob(c) \/ PutBadDigest(c) \/ PutInvalid(c) \/ PutValid(c)
          \/ PutVersion(c) \/ PutMeta(c)

Delete(c) == \/ \E v \in Listed \cup {Null} : DeleteObjectBegin(c, v) \/ DeleteObjectsBegin(c, v)
             \/ MarkBegin(c) \/ EraseBegin(c)
             \/ Unlist(c) \/ UnlistEach(c) \/ Mark(c) \/ Erase(c) \/ DropBlob(c)

Get(c) == \/ GetBegin(c, "lookup", Null)
          \/ \E v \in Listed \cup {Null} : GetBegin(c, "lookupversion", v)
          \/ Lookup(c) \/ LookupFails(c) \/ Stream(c) \/ Recheck(c)

S3Next == \/ \E c \in Clients : Put(c) \/ Delete(c) \/ Get(c)
          \/ \E s \in {"Enabled", "Suspended"} : PutBucketVersioning(s)

S3Spec == S3Init /\ [][S3Next]_vars

-----------------------------------------------------------------------------
(* Properties *)

\* A version with an id of its own is readable as long as it is listed: its
\* blob is there, with its body, whatever puts, deletes and refused puts run
\* beside it.  PutObject writes the blob first, DeleteObject unlists first.
ListedVersionReadable ==
    \A i \in DOMAIN versions :
        versions[i].vid # Null /\ ~versions[i].marker
        => blobs[versions[i].vid] = versions[i].body

\* A version PutObject has answered stays listed, with its body, until a delete
\* names it: no later put, delete marker or change of the versioning status
\* removes it.
AnsweredVersionKept ==
    \A v \in VersionIds : acked[v] # NoBody /\ v \notin removed
        => \E i \in DOMAIN versions : versions[i].vid = v /\ versions[i].body = acked[v]

\* GetObject of such a version, asked for or the newest, never mixes the
\* metadata of one put with the bytes of another.
VersionReadExact ==
    \A c \in Clients : answer[c].code = 200 /\ answer[c].vid # Null
        => answer[c].body = answer[c].etag

\* DeleteObject on its order, metadata before blob: "no caller ever sees metadata
\* present + blob absent (torn state)".  GetObject answers 500 when it does.
NoTornState == \A c \in Clients : answer[c].code # 500
=============================================================================
