-------------------------- MODULE S3ObjectsProofs --------------------------
(***************************************************************************)
(* Proofs that the versions of an S3 object are safe for any number of     *)
(* clients, bodies and puts, although no lock spans the metadata and the   *)
(* blob store.  The inductive invariant S3Inv says whom a version id       *)
(* belongs to at each moment:                                              *)
(*                                                                         *)
(*   OpsOK      every id in use was drawn before, and the blob key of a    *)
(*              handler is that of its version or the plain one;           *)
(*   PrivateOK  until the version is published, its id is known to the one *)
(*              handler that drew it: it is not listed, and nobody looks   *)
(*              it up or deletes it;                                       *)
(*   BlobOK     the blob of a version is that of its put from the write on *)
(*              until the version is out of the list;                      *)
(*   AckOK      what PutObject has answered, or is about to, is listed or  *)
(*              was deleted by name.                                       *)
(***************************************************************************)
EXTENDS S3Objects, SequenceTheorems, WellFoundedInduction, TLAPS

Rows == {versions[i] : i \in DOMAIN versions}

\* c puts the version with this id, or has drawn it for a delete marker, and
\* has not published it.
Private(c) ==
    op[c].kind \in {"putblob", "check", "publish", "mark"} /\ op[c].vid # Null

RowsUnique ==
    \A i, j \in DOMAIN versions : versions[i].vid = versions[j].vid => i = j \/ versions[i].vid = Null

OpOK(c) ==
    /\ op[c].vid < next
    /\ op[c].blob = Plain \/ op[c].blob = op[c].vid
    /\ op[c].kind \in {"putblob", "check", "stream"} => op[c].blob = op[c].vid
    /\ op[c].kind = "erase" => op[c].blob = Plain
    /\ op[c].kind \in {"putblob", "check"} /\ op[c].vid # Null => Versioned(c)

OpsOK ==
    /\ \A c \in Clients : OpOK(c)
    /\ \A e \in Rows : e.vid < next /\ (e.marker => e.body = NoBody)

PrivateOK ==
    \A c \in Clients : Private(c) =>
        /\ \A e \in Rows : e.vid # op[c].vid
        /\ \A d \in Clients \ {c} : op[d].vid # op[c].vid

BlobOf(c) ==
    op[c].vid # Null =>
        /\ op[c].kind \in {"check", "publish"} => blobs[op[c].vid] = op[c].body
        /\ op[c].kind = "stream" => blobs[op[c].vid] \in {NoBody, op[c].body}
        /\ op[c].kind = "drop" /\ op[c].blob # Plain => \A e \in Rows : e.vid # op[c].vid

BlobOK ==
    /\ \A e \in Rows : e.vid # Null /\ ~e.marker => blobs[e.vid] = e.body
    /\ \A c \in Clients : BlobOf(c)

PointOf(c) ==
    op[c].kind = "point" /\ op[c].vid # Null /\ op[c].vid \notin removed
        => \E e \in Rows : e.vid = op[c].vid /\ e.body = op[c].body

AckOK ==
    /\ \A v \in VersionIds : acked[v] # NoBody /\ v \notin removed
          => \E e \in Rows : e.vid = v /\ e.body = acked[v]
    /\ \A c \in Clients : PointOf(c)

S3Inv == S3TypeOK /\ OpsOK /\ PrivateOK /\ BlobOK /\ AckOK /\ VersionReadExact

-----------------------------------------------------------------------------
(* The version list *)

LEMMA SmallestOf ==
    ASSUME NEW T \in SUBSET Nat, T # {}
    PROVE  \E x \in T : \A y \in T : x <= y
<1>1. PICK x \in T : \A y \in T : <<y, x>> \notin OpToRel(<, Nat)
  BY WFMin, NatLessThanWellFounded
<1>2. ASSUME NEW y \in T PROVE x <= y
  <2>1. ~(y < x)
    BY <1>1 DEF OpToRel
  <2> QED BY <2>1
<1> QED BY <1>2

LEMMA RemoveAtFacts ==
    ASSUME NEW S, NEW s \in Seq(S), NEW k \in 1..Len(s)
    PROVE  /\ RemoveAt(s, k) \in Seq(S) /\ Len(RemoveAt(s, k)) = Len(s) - 1
           /\ \A i \in 1..Len(s) - 1 : RemoveAt(s, k)[i] = IF i < k THEN s[i] ELSE s[i + 1]
<1> DEFINE a == SubSeq(s, 1, k - 1)
           b == SubSeq(s, k + 1, Len(s))
<1>1. a \in Seq(S) /\ Len(a) = k - 1 /\ \A i \in 1..k - 1 : a[i] = s[i]
  OBVIOUS
<1>2. b \in Seq(S) /\ Len(b) = Len(s) - k /\ \A i \in 1..Len(s) - k : b[i] = s[i + k]
  OBVIOUS
<1>3. RemoveAt(s, k) = a \o b
  BY DEF RemoveAt
<1> HIDE DEF a, b
<1>4. k \in Nat /\ Len(s) \in Nat /\ k <= Len(s)
  OBVIOUS
<1>5. /\ a \o b \in Seq(S) /\ Len(a \o b) = Len(a) + Len(b)
      /\ \A i \in 1..Len(a) + Len(b) : (a \o b)[i] = IF i <= Len(a) THEN a[i] ELSE b[i - Len(a)]
  BY <1>1, <1>2, ConcatProperties
<1>6. ASSUME NEW i \in 1..Len(s) - 1 PROVE (a \o b)[i] = IF i < k THEN s[i] ELSE s[i + 1]
  <2>1. i \in Nat /\ (a \o b)[i] = IF i <= k - 1 THEN a[i] ELSE b[i - (k - 1)]
    BY <1>1, <1>2, <1>4, <1>5
  <2>2. CASE i < k
    BY <1>1, <1>4, <2>1, <2>2
  <2>3. CASE ~(i < k)
    <3>1. i - (k - 1) \in 1..Len(s) - k /\ (i - (k - 1)) + k = i + 1
      BY <1>4, <2>1, <2>3
    <3>2. (a \o b)[i] = b[i - (k - 1)]
      BY <1>4, <2>1, <2>3
    <3> QED BY <1>2, <2>3, <3>1, <3>2
  <2> QED BY <2>2, <2>3
<1> QED BY <1>1, <1>2, <1>3, <1>4, <1>5, <1>6

\* DeleteObjectVersion takes out one entry with this id, if there is one.
LEMMA RemoveFirstMatchFacts ==
    ASSUME NEW s \in Seq(Entries), NEW v
    PROVE  \/ /\ \A i \in 1..Len(s) : s[i].vid # v
              /\ RemoveFirstMatch(s, LAMBDA e : e.vid = v) = s
           \/ \E k \in 1..Len(s) : /\ s[k].vid = v
                                   /\ RemoveFirstMatch(s, LAMBDA e : e.vid = v) = RemoveAt(s, k)
<1> DEFINE I == {i \in 1..Len(s) : s[i].vid = v}
<1>1. CASE I = {}
  BY <1>1 DEF RemoveFirstMatch
<1>2. CASE I # {}
  <2>1. Min(I) \in I
    <3>1. I \subseteq Nat
      OBVIOUS
    <3>2. \E x \in I : \A y \in I : x <= y
      BY <1>2, <3>1, SmallestOf
    <3> HIDE DEF I
    <3> QED BY <3>2 DEF Min
  <2>2. RemoveFirstMatch(s, LAMBDA e : e.vid = v) = RemoveAt(s, Min(I))
    BY <1>2 DEF RemoveFirstMatch, SelectInSeq
  <2> QED BY <2>1, <2>2
<1> QED BY <1>1, <1>2

LEMMA Ids ==
    /\ Null = 0 /\ Plain = 0 /\ BlobKeys = 0..MaxPuts /\ VersionIds = 1..MaxPuts
    /\ MaxPuts \in Nat /\ MaxPuts > 0 /\ \A v : BlobKey(v) = v
BY S3Assumption DEF Null, Plain, BlobKeys, VersionIds, BlobKey

LEMMA ListFacts ==
    ASSUME S3TypeOK
    PROVE  /\ versions \in Seq(Entries) /\ RowsUnique
           /\ Len(versions) \in Nat /\ DOMAIN versions = 1..Len(versions)
<1>1. versions \in Seq(Entries)
  BY DEF S3TypeOK
<1>2. RowsUnique
  BY DEF S3TypeOK, RowsUnique
<1> QED BY <1>1, <1>2

LEMMA RowFacts ==
    ASSUME S3TypeOK
    PROVE  /\ RowsUnique
           /\ \A e \in Rows : e \in Entries
           /\ \A e \in Rows : e.vid \in BlobKeys /\ e.body \in Bodies \cup {NoBody} /\ e.marker \in BOOLEAN
<1>1. \A i \in DOMAIN versions : versions[i] \in Entries
  BY ListFacts
<1> QED BY <1>1, ListFacts DEF Rows, Entries

\* PutObjectVersion puts one entry in front.
LEMMA PutRow ==
    ASSUME S3TypeOK, NEW e \in Entries, PutObjectVersion(e),
           e.vid = Null \/ \A r \in Rows : r.vid # e.vid
    PROVE  versions' \in Seq(Entries) /\ RowsUnique' /\ Rows' = Rows \cup {e}
<1>1. versions \in Seq(Entries) /\ <<e>> \in Seq(Entries) /\ Len(<<e>>) = 1 /\ <<e>>[1] = e
  BY ListFacts
<1>2. /\ versions' \in Seq(Entries) /\ Len(versions') = 1 + Len(versions)
      /\ \A i \in 1..1 + Len(versions) : versions'[i] = IF i <= 1 THEN <<e>>[i] ELSE versions[i - 1]
  BY <1>1, ConcatProperties DEF PutObjectVersion
<1>3. Len(versions) \in Nat /\ DOMAIN versions = 1..Len(versions) /\ DOMAIN versions' = 1..1 + Len(versions)
  BY <1>1, <1>2
<1>4. versions'[1] = e /\ \A i \in 2..1 + Len(versions) : i - 1 \in DOMAIN versions /\ versions'[i] = versions[i - 1]
  BY <1>1, <1>2, <1>3
<1>5. \A i \in DOMAIN versions : i + 1 \in DOMAIN versions' /\ versions'[i + 1] = versions[i]
  BY <1>3, <1>4
<1>6. Rows' = Rows \cup {e}
  <2>1. ASSUME NEW r \in Rows' PROVE r \in Rows \cup {e}
    <3>1. PICK i \in DOMAIN versions' : r = versions'[i]
      BY DEF Rows
    <3>2. i = 1 \/ i \in 2..1 + Len(versions)
      BY <1>3
    <3> QED BY <1>4, <3>1, <3>2 DEF Rows
  <2>2. ASSUME NEW r \in Rows PROVE r \in Rows'
    <3>1. PICK i \in DOMAIN versions : r = versions[i]
      BY DEF Rows
    <3> QED BY <1>5, <3>1 DEF Rows
  <2>3. e \in Rows'
    <3>1. 1 \in DOMAIN versions'
      BY <1>3
    <3> QED BY <1>4, <3>1 DEF Rows
  <2> QED BY <2>1, <2>2, <2>3
<1>7. RowsUnique'
  <2> SUFFICES ASSUME NEW i \in DOMAIN versions', NEW j \in DOMAIN versions',
                      versions'[i].vid = versions'[j].vid, versions'[i].vid # Null
               PROVE  i = j
    BY DEF RowsUnique
  <2>1. i \in Nat /\ j \in Nat /\ (i = 1 \/ i \in 2..1 + Len(versions)) /\ (j = 1 \/ j \in 2..1 + Len(versions))
    BY <1>3
  <2>2. CASE i = 1 /\ j # 1
    BY <1>4, <2>1, <2>2 DEF Rows
  <2>3. CASE i # 1 /\ j = 1
    BY <1>4, <2>1, <2>3 DEF Rows
  <2>4. CASE i # 1 /\ j # 1
    <3>1. i - 1 = j - 1
      BY <1>4, <2>1, <2>4, ListFacts DEF RowsUnique
    <3> QED BY <2>1, <3>1
  <2> QED BY <2>2, <2>3, <2>4
<1> QED BY <1>2, <1>6, <1>7

\* DeleteObjectVersion leaves every other version in place.
LEMMA DeleteRow ==
    ASSUME S3TypeOK, NEW v, DeleteObjectVersion(v)
    PROVE  /\ versions' \in Seq(Entries) /\ RowsUnique' /\ Rows' \subseteq Rows
           /\ \A e \in Rows : e.vid # v => e \in Rows'
           /\ v # Null => \A e \in Rows' : e.vid # v
<1>1. versions \in Seq(Entries) /\ DOMAIN versions = 1..Len(versions) /\ Len(versions) \in Nat
  BY ListFacts
<1>2. CASE versions' = versions /\ \A i \in 1..Len(versions) : versions[i].vid # v
  BY <1>1, <1>2, ListFacts DEF Rows, RowsUnique
<1>3. ASSUME NEW k \in 1..Len(versions), versions[k].vid = v, versions' = RemoveAt(versions, k)
      PROVE  /\ versions' \in Seq(Entries) /\ RowsUnique' /\ Rows' \subseteq Rows
             /\ \A e \in Rows : e.vid # v => e \in Rows'
             /\ v # Null => \A e \in Rows' : e.vid # v
  <2>1. /\ versions' \in Seq(Entries) /\ Len(versions') = Len(versions) - 1
        /\ \A i \in 1..Len(versions) - 1 : versions'[i] = IF i < k THEN versions[i] ELSE versions[i + 1]
    BY <1>1, <1>3, RemoveAtFacts
  <2>2. k \in Nat /\ DOMAIN versions' = 1..Len(versions) - 1
    BY <1>1, <2>1
  <2> DEFINE from(i) == IF i < k THEN i ELSE i + 1
  <2>3. \A i \in DOMAIN versions' : from(i) \in DOMAIN versions /\ from(i) # k /\ versions'[i] = versions[from(i)]
    BY <1>1, <2>1, <2>2
  <2>4. \A i, j \in DOMAIN versions' : from(i) = from(j) => i = j
    BY <1>1, <2>2
  <2>5. \A j \in DOMAIN versions \ {k} : \E i \in DOMAIN versions' : from(i) = j
    <3> SUFFICES ASSUME NEW j \in DOMAIN versions \ {k} PROVE \E i \in DOMAIN versions' : from(i) = j
      OBVIOUS
    <3>1. CASE j < k
      BY <1>1, <2>2, <3>1
    <3>2. CASE ~(j < k)
      <4>1. j - 1 \in DOMAIN versions' /\ from(j - 1) = j
        BY <1>1, <2>2, <3>2
      <4> QED BY <4>1
    <3> QED BY <3>1, <3>2
  <2> HIDE DEF from
  <2>6. Rows' \subseteq Rows
    BY <2>3 DEF Rows
  <2>7. \A e \in Rows : e.vid # v => e \in Rows'
    <3> SUFFICES ASSUME NEW j \in DOMAIN versions, versions[j].vid # v PROVE versions[j] \in Rows'
      BY DEF Rows
    <3>1. PICK i \in DOMAIN versions' : from(i) = j
      BY <1>3, <2>5
    <3> QED BY <2>3, <3>1 DEF Rows
  <2>8. v # Null => \A e \in Rows' : e.vid # v
    BY <1>1, <1>3, <2>3, ListFacts DEF Rows, RowsUnique
  <2>9. RowsUnique'
    BY <2>3, <2>4, ListFacts DEF RowsUnique
  <2> QED BY <2>1, <2>6, <2>7, <2>8, <2>9
<1> QED BY <1>1, <1>2, <1>3, RemoveFirstMatchFacts DEF DeleteObjectVersion

-----------------------------------------------------------------------------
(* The handlers *)

Kinds == {"idle", "putblob", "check", "publish", "point", "mark", "unlist", "unlisteach", "drop",
          "erase", "lookup", "lookupversion", "stream", "recheck"}

Statuses == {"", "Enabled", "Suspended"}

LEMMA VarFacts ==
    ASSUME S3TypeOK
    PROVE  /\ status \in Statuses /\ object \in Bodies \cup {NoBody}
           /\ blobs \in [BlobKeys -> Bodies \cup {NoBody}] /\ next \in 1..MaxPuts + 1
           /\ op \in [Clients -> Ops] /\ answer \in [Clients -> Answers]
           /\ acked \in [VersionIds -> Bodies \cup {NoBody}] /\ removed \subseteq BlobKeys
BY Zenon DEF S3TypeOK, Statuses

LEMMA OpRecord ==
    ASSUME NEW k \in Kinds, NEW s \in Statuses, NEW v \in BlobKeys, NEW b \in Bodies \cup {NoBody},
           NEW x \in BlobKeys
    PROVE  [kind |-> k, status |-> s, vid |-> v, body |-> b, blob |-> x] \in Ops
BY DEF Ops, Kinds, Statuses

LEMMA OpFields ==
    ASSUME NEW o \in Ops
    PROVE  /\ o.kind \in Kinds /\ o.status \in Statuses /\ o.vid \in BlobKeys
           /\ o.body \in Bodies \cup {NoBody} /\ o.blob \in BlobKeys
BY DEF Ops, Kinds, Statuses

LEMMA IdleFacts ==
    /\ Idle \in Ops /\ Idle.kind = "idle" /\ Idle.vid = Null /\ Idle.blob = Plain /\ Idle.status = ""
    /\ Idle.body = NoBody
BY Ids DEF Idle, Ops

\* A handler moves on, and the others stay where they are.
LEMMA GotoFacts ==
    ASSUME op \in [Clients -> Ops], NEW c \in Clients, NEW kind \in Kinds, Goto(c, kind)
    PROVE  /\ op' \in [Clients -> Ops] /\ \A d \in Clients \ {c} : op'[d] = op[d]
           /\ op'[c].kind = kind /\ op'[c].status = op[c].status /\ op'[c].vid = op[c].vid
           /\ op'[c].body = op[c].body /\ op'[c].blob = op[c].blob
<1>1. op[c] \in Ops /\ op'[c] = [op[c] EXCEPT !.kind = kind] /\ \A d \in Clients \ {c} : op'[d] = op[d]
  BY DEF Goto
<1>2. op'[c] \in Ops
  BY <1>1 DEF Ops, Kinds
<1>3. op' \in [Clients -> Ops]
  BY <1>1, <1>2 DEF Goto
<1>4. /\ op'[c].kind = kind /\ op'[c].status = op[c].status /\ op'[c].vid = op[c].vid
      /\ op'[c].body = op[c].body /\ op'[c].blob = op[c].blob
  BY <1>1 DEF Ops
<1> QED BY <1>1, <1>3, <1>4

LEMMA DoneFacts ==
    ASSUME op \in [Clients -> Ops], NEW c \in Clients, Done(c)
    PROVE  op' \in [Clients -> Ops] /\ op'[c] = Idle /\ \A d \in Clients \ {c} : op'[d] = op[d]
BY IdleFacts DEF Done

LEMMA BeginFacts ==
    ASSUME S3TypeOK, VersionReadExact, NEW c \in Clients, NEW o \in Ops, Begin(c, o)
    PROVE  /\ op' \in [Clients -> Ops] /\ op'[c] = o /\ \A d \in Clients \ {c} : op'[d] = op[d]
           /\ op[c] = Idle /\ answer' \in [Clients -> Answers] /\ VersionReadExact'
<1>1. NoAnswer \in Answers /\ NoAnswer.code = 0
  BY Ids DEF NoAnswer, Answers
<1>2. answer' \in [Clients -> Answers] /\ VersionReadExact'
  BY <1>1, VarFacts DEF Begin, VersionReadExact
<1> QED BY <1>2, VarFacts DEF Begin

LEMMA ReplyFacts ==
    ASSUME S3TypeOK, VersionReadExact, NEW c \in Clients, NEW code \in {404, 500, 200},
           NEW b \in Bodies \cup {NoBody}, Reply(c, code, b),
           code = 200 /\ op[c].vid # Null => b = op[c].body
    PROVE  /\ op' \in [Clients -> Ops] /\ op'[c] = Idle /\ \A d \in Clients \ {c} : op'[d] = op[d]
           /\ answer' \in [Clients -> Answers] /\ VersionReadExact'
<1> DEFINE a == [code |-> code, vid |-> op[c].vid, etag |-> op[c].body, body |-> b]
<1>1. op[c].vid \in BlobKeys /\ op[c].body \in Bodies \cup {NoBody}
  BY VarFacts, OpFields
<1>2. a \in Answers /\ a.code = code /\ a.vid = op[c].vid /\ a.etag = op[c].body /\ a.body = b
  BY <1>1 DEF Answers
<1>3. answer' = [answer EXCEPT ![c] = a]
  BY DEF Reply
<1> HIDE DEF a
<1>4. answer' \in [Clients -> Answers] /\ VersionReadExact'
  BY <1>2, <1>3, VarFacts DEF VersionReadExact
<1> QED BY <1>4, VarFacts, DoneFacts DEF Reply

\* What a handler that leaves list and history alone has to show: an id comes
\* to it from the list or is fresh, and a private id was its own.
LEMMA HandlerStep ==
    ASSUME S3Inv, NEW c \in Clients,
           op' \in [Clients -> Ops], \A d \in Clients \ {c} : op'[d] = op[d],
           UNCHANGED <<versions, removed>>,
           \/ acked' = acked
           \/ At(c, "point") /\ op[c].vid # Null /\ acked' = [acked EXCEPT ![op[c].vid] = op[c].body],
           blobs' \in [BlobKeys -> Bodies \cup {NoBody}], BlobOK',
           next' \in {next, next + 1}, next' \in 1..MaxPuts + 1,
           status' \in Statuses, object' \in Bodies \cup {NoBody},
           answer' \in [Clients -> Answers], VersionReadExact',
           OpOK(c)', PointOf(c)',
           Private(c)' => op'[c].vid = next \/ (Private(c) /\ op'[c].vid = op[c].vid),
           \/ op'[c].vid \in {Null, op[c].vid, next}
           \/ \E e \in Rows : e.vid = op'[c].vid
    PROVE  S3Inv'
<1>1. Rows' = Rows
  BY DEF Rows
<1>2. S3TypeOK'
  <2>1. versions' \in Seq(Entries) /\ RowsUnique'
    BY ListFacts DEF S3Inv, RowsUnique
  <2>2. /\ acked' \in [VersionIds -> Bodies \cup {NoBody}] /\ removed' \subseteq BlobKeys
    <3>1. op[c].vid \in BlobKeys /\ op[c].body \in Bodies \cup {NoBody}
      BY VarFacts, OpFields DEF S3Inv
    <3> QED BY <3>1, VarFacts, Ids DEF S3Inv
  <2> QED BY <2>1, <2>2, Zenon DEF S3TypeOK, RowsUnique, Statuses
<1>3. next \in Nat /\ (\A d \in Clients : op[d].vid < next) /\ \A e \in Rows : e.vid < next
  BY VarFacts, Ids DEF S3Inv, OpsOK, OpOK
<1>3a. (\A d \in Clients : op[d].vid \in Nat) /\ \A e \in Rows : e.vid \in Nat
  BY VarFacts, RowFacts, OpFields, Ids DEF S3Inv
<1>4. OpsOK'
  <2>1. ASSUME NEW d \in Clients PROVE OpOK(d)'
    <3>1. CASE d = c
      BY <3>1
    <3>2. CASE d # c
      <4>1. op'[d] = op[d]
        BY <3>2
      <4>2. op[d].vid < next'
        BY <1>3, <1>3a
      <4> QED BY <4>1, <4>2 DEF S3Inv, OpsOK, OpOK, Versioned
    <3> QED BY <3>1, <3>2
  <2>2. \A e \in Rows : e.vid < next'
    BY <1>3, <1>3a
  <2> QED BY <1>1, <2>1, <2>2 DEF S3Inv, OpsOK
<1>5. PrivateOK'
  <2> SUFFICES ASSUME NEW d \in Clients, Private(d)'
               PROVE  /\ \A e \in Rows : e.vid # op'[d].vid
                      /\ \A f \in Clients \ {d} : op'[f].vid # op'[d].vid
    BY <1>1 DEF PrivateOK
  <2>1. CASE d = c /\ op'[c].vid = next
    BY <1>3, <1>3a, <2>1
  <2>2. CASE d = c /\ Private(c) /\ op'[c].vid = op[c].vid
    BY <2>2 DEF S3Inv, PrivateOK
  <2>3. CASE d # c
    <3>1. op'[d] = op[d] /\ Private(d) /\ op[d].vid # Null
      BY <2>3 DEF Private
    <3>2. op'[c].vid # op[d].vid
      BY <1>3, <1>3a, <2>3, <3>1 DEF S3Inv, PrivateOK
    <3> QED BY <3>1, <3>2 DEF S3Inv, PrivateOK
  <2> QED BY <2>1, <2>2, <2>3
<1>6. AckOK'
  <2>1. ASSUME NEW d \in Clients \ {c} PROVE PointOf(d)'
    BY <1>1 DEF S3Inv, AckOK, PointOf
  <2>2. ASSUME NEW v \in VersionIds, acked'[v] # NoBody, v \notin removed
        PROVE  \E e \in Rows : e.vid = v /\ e.body = acked'[v]
    <3>1. CASE acked'[v] = acked[v]
      BY <2>2, <3>1 DEF S3Inv, AckOK
    <3>2. CASE acked'[v] # acked[v]
      <4>1. At(c, "point") /\ op[c].vid # Null /\ v = op[c].vid /\ acked'[v] = op[c].body
        BY <3>2, VarFacts DEF S3Inv
      <4> QED BY <2>2, <4>1 DEF S3Inv, AckOK, PointOf, At
    <3> QED BY <3>1, <3>2
  <2> QED BY <1>1, <2>1, <2>2 DEF AckOK
<1> QED BY <1>2, <1>4, <1>5, <1>6 DEF S3Inv

LEMMA BlobFrame ==
    ASSUME S3Inv, NEW c \in Clients, \A d \in Clients \ {c} : op'[d] = op[d],
           UNCHANGED <<versions, blobs>>, BlobOf(c)'
    PROVE  BlobOK' /\ blobs' \in [BlobKeys -> Bodies \cup {NoBody}]
<1>1. Rows' = Rows
  BY DEF Rows
<1>2. ASSUME NEW d \in Clients \ {c} PROVE BlobOf(d)'
  BY <1>1 DEF S3Inv, BlobOK, BlobOf
<1> QED BY <1>1, <1>2, VarFacts DEF S3Inv, BlobOK

\* A handler without a version, and not one that puts.
LEMMA PlainHandler ==
    ASSUME next' \in 1..MaxPuts + 1, NEW c \in Clients, op'[c].vid = Null, op'[c].blob = Plain
    PROVE  OpOK(c)' /\ BlobOf(c)' /\ PointOf(c)' /\ ~Private(c)'
BY Ids DEF OpOK, BlobOf, PointOf, Private

\* A handler returns, with the stores as they were.
LEMMA ReturnStep ==
    ASSUME S3Inv, NEW c \in Clients, op' \in [Clients -> Ops], op'[c] = Idle,
           \A d \in Clients \ {c} : op'[d] = op[d],
           UNCHANGED <<stores, next, acked, removed>>,
           answer' \in [Clients -> Answers], VersionReadExact'
    PROVE  S3Inv'
<1>1. op'[c].vid = Null /\ op'[c].blob = Plain
  BY IdleFacts
<1>2. UNCHANGED <<status, object, versions, blobs>>
  BY DEF stores
<1>3. next' \in 1..MaxPuts + 1 /\ status' \in Statuses /\ object' \in Bodies \cup {NoBody}
  BY <1>2, VarFacts DEF S3Inv
<1>4. OpOK(c)' /\ BlobOf(c)' /\ PointOf(c)' /\ ~Private(c)'
  BY <1>1, <1>3, PlainHandler
<1>5. BlobOK' /\ blobs' \in [BlobKeys -> Bodies \cup {NoBody}]
  BY <1>2, <1>4, BlobFrame
<1> QED BY <1>1, <1>2, <1>3, <1>4, <1>5, HandlerStep

\* A handler writes or drops a blob nobody reads yet or any more.
LEMMA BlobStep ==
    ASSUME S3Inv, NEW c \in Clients, NEW b \in Bodies \cup {NoBody},
           blobs' = [blobs EXCEPT ![op[c].blob] = b],
           op' \in [Clients -> Ops], \A d \in Clients \ {c} : op'[d] = op[d],
           UNCHANGED <<status, object, versions, next, answer, acked, removed>>,
           op[c].blob # Null =>
               /\ \A e \in Rows : e.vid # op[c].blob
               /\ \A d \in Clients \ {c} : op[d].vid = op[c].blob
                     => b = NoBody /\ op[d].kind \notin {"check", "publish"},
           op'[c].vid \in {Null, op[c].vid},
           Private(c)' => Private(c) /\ op'[c].vid = op[c].vid,
           OpOK(c)', BlobOf(c)', PointOf(c)'
    PROVE  S3Inv'
<1>1. Rows' = Rows
  BY DEF Rows
<1>2. blobs \in [BlobKeys -> Bodies \cup {NoBody}] /\ op[c].blob \in BlobKeys
  BY VarFacts, OpFields DEF S3Inv
<1>3. /\ blobs' \in [BlobKeys -> Bodies \cup {NoBody}]
      /\ \A k \in BlobKeys : blobs'[k] = IF k = op[c].blob THEN b ELSE blobs[k]
  BY <1>2
<1>4. ASSUME NEW e \in Rows, e.vid # Null, ~e.marker PROVE blobs'[e.vid] = e.body
  <2>1. e.vid \in BlobKeys /\ e.vid # op[c].blob
    BY <1>4, RowFacts DEF S3Inv
  <2> QED BY <1>3, <1>4, <2>1 DEF S3Inv, BlobOK
<1>5. ASSUME NEW d \in Clients \ {c} PROVE BlobOf(d)'
  <2>1. op[d].vid \in BlobKeys /\ BlobOf(d) /\ op'[d] = op[d]
    BY VarFacts, OpFields DEF S3Inv, BlobOK
  <2>2. CASE op[d].vid = op[c].blob
    BY <1>1, <1>3, <2>1, <2>2 DEF BlobOf
  <2>3. CASE op[d].vid # op[c].blob
    BY <1>1, <1>3, <2>1, <2>3 DEF BlobOf
  <2> QED BY <2>2, <2>3
<1>6. BlobOK'
  BY <1>1, <1>4, <1>5 DEF BlobOK
<1>7. /\ next' \in 1..MaxPuts + 1 /\ status' \in Statuses /\ object' \in Bodies \cup {NoBody}
      /\ answer' \in [Clients -> Answers] /\ VersionReadExact'
  BY VarFacts DEF S3Inv, VersionReadExact
<1> QED BY <1>3, <1>6, <1>7, HandlerStep

\* The type invariant after a step on the version list.
LEMMA ListTypes ==
    ASSUME S3Inv, versions' \in Seq(Entries), RowsUnique', op' \in [Clients -> Ops],
           UNCHANGED <<status, object, blobs, next, answer, acked>>, removed' \subseteq BlobKeys
    PROVE  S3TypeOK' /\ VersionReadExact'
<1>1. /\ status' \in Statuses /\ object' \in Bodies \cup {NoBody}
      /\ blobs' \in [BlobKeys -> Bodies \cup {NoBody}] /\ next' \in 1..MaxPuts + 1
      /\ answer' \in [Clients -> Answers] /\ acked' \in [VersionIds -> Bodies \cup {NoBody}]
  BY VarFacts DEF S3Inv
<1>2. S3TypeOK'
  BY <1>1, Zenon DEF S3TypeOK, RowsUnique, Statuses
<1> QED BY <1>2 DEF S3Inv, VersionReadExact

\* A handler publishes the version it has drawn, or one more null version.
LEMMA PublishStep ==
    ASSUME S3Inv, NEW c \in Clients, NEW e \in Entries, PutObjectVersion(e), e.vid = op[c].vid,
           Private(c) \/ op[c].vid = Null,
           e.marker => e.body = NoBody,
           e.vid # Null /\ ~e.marker => blobs[e.vid] = e.body,
           op' \in [Clients -> Ops], \A d \in Clients \ {c} : op'[d] = op[d],
           UNCHANGED <<status, object, blobs, next, answer, acked, removed>>,
           op'[c].kind \in {"point", "idle"}, op'[c].vid \in {Null, op[c].vid},
           op'[c].blob \in {Plain, op'[c].vid},
           op'[c].kind = "point" => op'[c].vid = e.vid /\ op'[c].body = e.body
    PROVE  S3Inv'
<1>1. e.vid = Null \/ \A r \in Rows : r.vid # e.vid
  BY DEF S3Inv, PrivateOK
<1>2. versions' \in Seq(Entries) /\ RowsUnique' /\ Rows' = Rows \cup {e}
  BY <1>1, PutRow DEF S3Inv
<1>3. S3TypeOK' /\ VersionReadExact'
  BY <1>2, ListTypes, VarFacts DEF S3Inv
<1>4. next \in Nat /\ 0 < next /\ e.vid < next
  BY VarFacts, Ids DEF S3Inv, OpsOK, OpOK
<1>5. OpsOK'
  <2>1. ASSUME NEW d \in Clients PROVE OpOK(d)'
    <3>1. CASE d = c
      BY <1>4, <3>1, Ids DEF OpOK
    <3>2. CASE d # c
      BY <3>2 DEF S3Inv, OpsOK, OpOK, Versioned
    <3> QED BY <3>1, <3>2
  <2> QED BY <1>2, <1>4, <2>1 DEF S3Inv, OpsOK
<1>6. ASSUME NEW d \in Clients \ {c}, op[d].vid = op[c].vid, op[d].vid # Null PROVE FALSE
  BY <1>6 DEF S3Inv, PrivateOK
<1>7. PrivateOK'
  <2> SUFFICES ASSUME NEW d \in Clients, Private(d)'
               PROVE  /\ \A r \in Rows' : r.vid # op'[d].vid
                      /\ \A f \in Clients \ {d} : op'[f].vid # op'[d].vid
    BY DEF PrivateOK
  <2>1. d # c /\ op'[d] = op[d] /\ Private(d) /\ op[d].vid # Null
    BY DEF Private
  <2>2. op[d].vid # op[c].vid /\ op'[c].vid # op[d].vid
    BY <1>6, <2>1
  <2> QED BY <1>2, <2>1, <2>2 DEF S3Inv, PrivateOK
<1>8. BlobOK'
  <2>1. BlobOf(c)'
    BY DEF BlobOf
  <2>2. ASSUME NEW d \in Clients \ {c} PROVE BlobOf(d)'
    <3>1. op'[d] = op[d] /\ BlobOf(d)
      BY DEF S3Inv, BlobOK
    <3> QED BY <1>2, <1>6, <3>1 DEF BlobOf
  <2> QED BY <1>2, <2>1, <2>2 DEF S3Inv, BlobOK
<1>9. AckOK'
  <2>1. PointOf(c)'
    BY <1>2 DEF PointOf
  <2>2. ASSUME NEW d \in Clients \ {c} PROVE PointOf(d)'
    BY <1>2 DEF S3Inv, AckOK, PointOf
  <2> QED BY <1>2, <2>1, <2>2 DEF S3Inv, AckOK
<1> QED BY <1>3, <1>5, <1>7, <1>8, <1>9 DEF S3Inv

\* A handler takes the version it names out of the list.
LEMMA UnlistStep ==
    ASSUME S3Inv, NEW c \in Clients, DeleteObjectVersion(op[c].vid),
           removed' = removed \cup {op[c].vid},
           op' \in [Clients -> Ops], \A d \in Clients \ {c} : op'[d] = op[d],
           UNCHANGED <<status, object, blobs, next, answer, acked>>,
           op'[c].kind \in {"drop", "idle"}, op'[c].vid \in {Null, op[c].vid},
           op'[c].blob \in {Plain, op'[c].vid}
    PROVE  S3Inv'
<1>1. /\ versions' \in Seq(Entries) /\ RowsUnique' /\ Rows' \subseteq Rows
      /\ \A e \in Rows : e.vid # op[c].vid => e \in Rows'
      /\ op[c].vid # Null => \A e \in Rows' : e.vid # op[c].vid
  BY DeleteRow DEF S3Inv
<1>2. op[c].vid \in BlobKeys /\ removed' \subseteq BlobKeys
  BY VarFacts, OpFields DEF S3Inv
<1>3. S3TypeOK' /\ VersionReadExact'
  BY <1>1, <1>2, ListTypes
<1>4. next \in Nat /\ 0 < next /\ op[c].vid < next
  BY VarFacts, Ids DEF S3Inv, OpsOK, OpOK
<1>5. OpsOK'
  <2>1. ASSUME NEW d \in Clients PROVE OpOK(d)'
    <3>1. CASE d = c
      BY <1>4, <3>1, Ids DEF OpOK
    <3>2. CASE d # c
      BY <3>2 DEF S3Inv, OpsOK, OpOK, Versioned
    <3> QED BY <3>1, <3>2
  <2> QED BY <1>1, <2>1 DEF S3Inv, OpsOK
<1>6. PrivateOK'
  <2> SUFFICES ASSUME NEW d \in Clients, Private(d)'
               PROVE  /\ \A r \in Rows' : r.vid # op'[d].vid
                      /\ \A f \in Clients \ {d} : op'[f].vid # op'[d].vid
    BY DEF PrivateOK
  <2>1. d # c /\ op'[d] = op[d] /\ Private(d) /\ op[d].vid # Null
    BY DEF Private
  <2>2. op'[c].vid # op[d].vid
    BY <2>1 DEF S3Inv, PrivateOK
  <2> QED BY <1>1, <2>1, <2>2 DEF S3Inv, PrivateOK
<1>7. BlobOK'
  <2>1. BlobOf(c)'
    BY <1>1 DEF BlobOf
  <2>2. ASSUME NEW d \in Clients \ {c} PROVE BlobOf(d)'
    BY <1>1 DEF S3Inv, BlobOK, BlobOf
  <2> QED BY <1>1, <2>1, <2>2 DEF S3Inv, BlobOK
<1>8. AckOK'
  <2>1. PointOf(c)'
    BY DEF PointOf
  <2>2. ASSUME NEW d \in Clients \ {c} PROVE PointOf(d)'
    BY <1>1 DEF S3Inv, AckOK, PointOf
  <2>3. ASSUME NEW v \in VersionIds, acked'[v] # NoBody, v \notin removed'
        PROVE  \E e \in Rows' : e.vid = v /\ e.body = acked'[v]
    BY <1>1, <2>3 DEF S3Inv, AckOK
  <2> QED BY <2>1, <2>2, <2>3 DEF AckOK
<1> QED BY <1>3, <1>5, <1>6, <1>7, <1>8 DEF S3Inv

\* A request arrives, with a fresh id or with that of a listed version.
LEMMA BeginStep ==
    ASSUME S3Inv, NEW c \in Clients, NEW o \in Ops, Begin(c, o), UNCHANGED <<stores, history>>,
           next' \in {next, next + 1}, next' \in 1..MaxPuts + 1,
           o.kind \in {"putblob", "mark", "unlist", "unlisteach", "erase", "lookup", "lookupversion"},
           o.vid < next', o.blob \in {Plain, o.vid},
           o.kind = "erase" => o.blob = Plain,
           o.kind = "putblob" => o.blob = o.vid /\ (o.vid # Null => o.status # ""),
           o.kind \in {"putblob", "mark"} => o.vid \in {Null, next},
           o.vid \in {Null, next} \/ \E e \in Rows : e.vid = o.vid
    PROVE  S3Inv'
<1>1. /\ op' \in [Clients -> Ops] /\ op'[c] = o /\ \A d \in Clients \ {c} : op'[d] = op[d]
      /\ answer' \in [Clients -> Answers] /\ VersionReadExact'
  BY BeginFacts DEF S3Inv
<1>2. UNCHANGED <<status, object, versions, blobs, acked, removed>>
  BY DEF stores, history
<1>3. status' \in Statuses /\ object' \in Bodies \cup {NoBody}
  BY <1>2, VarFacts DEF S3Inv
<1>4. OpOK(c)' /\ BlobOf(c)' /\ PointOf(c)'
  BY <1>1 DEF OpOK, BlobOf, PointOf, Versioned
<1>5. BlobOK' /\ blobs' \in [BlobKeys -> Bodies \cup {NoBody}]
  BY <1>1, <1>2, <1>4, BlobFrame
<1>6. Private(c)' => op'[c].vid = next
  BY <1>1 DEF Private
<1> QED BY <1>1, <1>2, <1>3, <1>4, <1>5, <1>6, HandlerStep

LEMMA PutBeginStep ==
    ASSUME S3Inv, NEW c \in Clients, NEW b \in Bodies, PutBegin(c, b)
    PROVE  S3Inv'
<1> DEFINE v == IF status = "Enabled" THEN next ELSE Null
           o == [kind |-> "putblob", status |-> status, vid |-> v, body |-> b, blob |-> BlobKey(v)]
<1>1. next \in 1..MaxPuts /\ next' = next + 1 /\ Begin(c, o) /\ UNCHANGED <<stores, history>>
  BY VarFacts, Ids DEF S3Inv, PutBegin
<1>2. v \in BlobKeys /\ BlobKey(v) = v /\ v \in {Null, next} /\ v < next' /\ (v # Null => status = "Enabled")
  BY <1>1, Ids
<1> HIDE DEF v
<1>3. o \in Ops
  BY <1>2, VarFacts, OpRecord DEF S3Inv, Kinds
<1>4. /\ o.kind = "putblob" /\ o.vid = v /\ o.blob = v /\ o.status = status
  BY <1>2
<1> HIDE DEF o
<1>5. next' \in 1..MaxPuts + 1
  BY <1>1, Ids
<1> QED BY <1>1, <1>2, <1>3, <1>4, <1>5, BeginStep

LEMMA DeleteBeginStep ==
    ASSUME S3Inv, NEW c \in Clients, NEW v \in Listed \cup {Null},
           DeleteObjectBegin(c, v) \/ DeleteObjectsBegin(c, v) \/ GetBegin(c, "lookup", Null)
           \/ GetBegin(c, "lookupversion", v)
    PROVE  S3Inv'
<1>1. v = Null \/ \E e \in Rows : e.vid = v
  BY DEF Listed, Rows
<1>2. next \in 1..MaxPuts + 1 /\ v \in BlobKeys /\ v < next /\ Null \in BlobKeys /\ Null < next
  BY <1>1, VarFacts, RowFacts, Ids DEF S3Inv, OpsOK
<1>3. UNCHANGED <<stores, history, next>>
  BY DEF DeleteObjectBegin, DeleteObjectsBegin, GetBegin
<1>4. PICK o \in Ops :
        /\ Begin(c, o) /\ o.kind \in {"unlist", "unlisteach", "lookup", "lookupversion"}
        /\ o.vid \in {Null, v} /\ o.blob \in {Plain, o.vid}
  <2>1. CASE DeleteObjectBegin(c, v)
    <3>1. PICK o : o = [Idle EXCEPT !.kind = "unlist", !.vid = v, !.blob = BlobKey(v)] /\ Begin(c, o)
      BY <2>1, Zenon DEF DeleteObjectBegin
    <3>2. o \in Ops /\ o.kind = "unlist" /\ o.vid = v /\ o.blob = v
      BY <1>2, <3>1, IdleFacts, Ids DEF Ops
    <3> QED BY <3>1, <3>2
  <2>2. CASE DeleteObjectsBegin(c, v)
    <3>1. PICK m \in NewestOf({v}) :
            Begin(c, [Idle EXCEPT !.kind = "unlisteach", !.vid = v, !.body = m.body])
      BY <2>2, Zenon DEF DeleteObjectsBegin
    <3> DEFINE o == [Idle EXCEPT !.kind = "unlisteach", !.vid = v, !.body = m.body]
    <3>2. m.body \in Bodies \cup {NoBody}
      BY RowFacts DEF NewestOf, Rows, S3Inv
    <3>3. o \in Ops /\ o.kind = "unlisteach" /\ o.vid = v /\ o.blob = Plain
      BY <1>2, <3>2, IdleFacts DEF Ops
    <3>4. Begin(c, o)
      BY <3>1
    <3> HIDE DEF o
    <3> QED BY <3>3, <3>4
  <2>3. ASSUME NEW k \in {"lookup", "lookupversion"}, NEW u \in {Null, v}, GetBegin(c, k, u)
        PROVE  \E o \in Ops :
                 /\ Begin(c, o) /\ o.kind \in {"unlist", "unlisteach", "lookup", "lookupversion"}
                 /\ o.vid \in {Null, v} /\ o.blob \in {Plain, o.vid}
    <3>1. PICK o : o = [Idle EXCEPT !.kind = k, !.status = status, !.vid = u] /\ Begin(c, o)
      BY <2>3, Zenon DEF GetBegin
    <3>2. o \in Ops /\ o.kind = k /\ o.vid = u /\ o.blob = Plain
      <4>1. status \in Statuses /\ u \in BlobKeys /\ k \in Kinds
        BY <1>2, VarFacts DEF S3Inv, Kinds
      <4> QED BY <3>1, <4>1, IdleFacts DEF Ops, Statuses, Kinds
    <3> QED BY <3>1, <3>2
  <2> QED BY <2>1, <2>2, <2>3
<1> QED BY <1>1, <1>2, <1>3, <1>4, BeginStep

LEMMA MarkBeginStep ==
    ASSUME S3Inv, NEW c \in Clients, MarkBegin(c) \/ EraseBegin(c)
    PROVE  S3Inv'
<1>1. CASE MarkBegin(c)
  <2>1. next <= MaxPuts /\ next' = next + 1 /\ UNCHANGED <<stores, history>>
    BY <1>1 DEF MarkBegin
  <2>2. next \in BlobKeys /\ next' \in 1..MaxPuts + 1 /\ next < next'
    BY <2>1, VarFacts, Ids DEF S3Inv
  <2>3. PICK o : o = [Idle EXCEPT !.kind = "mark", !.vid = next] /\ Begin(c, o)
    BY <1>1, Zenon DEF MarkBegin
  <2>4. o \in Ops /\ o.kind = "mark" /\ o.vid = next /\ o.blob = Plain
    BY <2>2, <2>3, IdleFacts DEF Ops
  <2> QED BY <2>1, <2>2, <2>3, <2>4, BeginStep
<1>2. CASE EraseBegin(c)
  <2>1. next' = next /\ UNCHANGED <<stores, history>>
    BY <1>2 DEF EraseBegin
  <2>2. next' \in 1..MaxPuts + 1 /\ Null < next'
    BY <2>1, VarFacts, Ids DEF S3Inv
  <2>3. PICK o : o = [Idle EXCEPT !.kind = "erase"] /\ Begin(c, o)
    BY <1>2, Zenon DEF EraseBegin
  <2>4. o \in Ops /\ o.kind = "erase" /\ o.vid = Null /\ o.blob = Plain
    BY <2>3, IdleFacts DEF Ops
  <2> QED BY <2>1, <2>2, <2>3, <2>4, BeginStep
<1> QED BY <1>1, <1>2

\* PutObject, from the blob to the answer.
LEMMA PutSteps ==
    ASSUME S3Inv, NEW c \in Clients,
           PutBlob(c) \/ PutBadDigest(c) \/ PutInvalid(c) \/ PutValid(c) \/ PutVersion(c) \/ PutMeta(c)
    PROVE  S3Inv'
<1>0. /\ S3TypeOK /\ VersionReadExact /\ op \in [Clients -> Ops] /\ OpOK(c) /\ BlobOf(c)
      /\ op[c].vid \in BlobKeys /\ op[c].blob \in BlobKeys /\ op[c].body \in Bodies \cup {NoBody}
      /\ blobs \in [BlobKeys -> Bodies \cup {NoBody}]
  BY VarFacts, OpFields DEF S3Inv, OpsOK, BlobOK
<1>1. Private(c) => /\ \A e \in Rows : e.vid # op[c].vid
                    /\ \A d \in Clients \ {c} : op[d].vid # op[c].vid
  BY DEF S3Inv, PrivateOK
<1>2. CASE PutBlob(c)
  <2>1. /\ op[c].kind = "putblob" /\ op[c].blob = op[c].vid /\ Goto(c, "check")
        /\ blobs' = [blobs EXCEPT ![op[c].blob] = op[c].body]
        /\ UNCHANGED <<status, object, versions, next, answer, acked, removed>>
    BY <1>0, <1>2 DEF PutBlob, At, OpOK, history
  <2>2. /\ op' \in [Clients -> Ops] /\ \A d \in Clients \ {c} : op'[d] = op[d]
        /\ op'[c].kind = "check" /\ op'[c].status = op[c].status /\ op'[c].vid = op[c].vid
        /\ op'[c].body = op[c].body /\ op'[c].blob = op[c].blob
    BY <1>0, <2>1, GotoFacts DEF Kinds
  <2>3. blobs'[op[c].vid] = op[c].body
    BY <1>0, <2>1
  <2>4. OpOK(c)' /\ BlobOf(c)' /\ PointOf(c)'
    BY <1>0, <2>1, <2>2, <2>3 DEF OpOK, BlobOf, PointOf, Versioned
  <2>5. op[c].blob # Null => Private(c)
    BY <2>1 DEF Private
  <2>6. Private(c)' => Private(c)
    BY <2>1, <2>2 DEF Private
  <2> QED BY <1>0, <1>1, <2>1, <2>2, <2>4, <2>5, <2>6, BlobStep
<1>3. CASE PutBadDigest(c)
  <2>1. /\ op[c].kind = "check" /\ op[c].blob = op[c].vid /\ Done(c)
        /\ blobs' = [blobs EXCEPT ![op[c].blob] = NoBody]
        /\ UNCHANGED <<status, object, versions, next, answer, acked, removed>>
    BY <1>0, <1>3 DEF PutBadDigest, At, OpOK, history
  <2>2. /\ op' \in [Clients -> Ops] /\ \A d \in Clients \ {c} : op'[d] = op[d]
        /\ op'[c].vid = Null /\ op'[c].blob = Plain
    BY <1>0, <2>1, DoneFacts, IdleFacts
  <2>3. next' \in 1..MaxPuts + 1
    BY <1>0, <2>1, VarFacts
  <2>4. OpOK(c)' /\ BlobOf(c)' /\ PointOf(c)' /\ ~Private(c)'
    BY <2>2, <2>3, PlainHandler
  <2>5. op[c].blob # Null => Private(c)
    BY <2>1 DEF Private
  <2> QED BY <1>1, <2>1, <2>2, <2>4, <2>5, BlobStep
<1>4. CASE PutInvalid(c)
  <2>1. Done(c) /\ UNCHANGED <<stores, next, answer, acked, removed>>
    BY <1>4 DEF PutInvalid, history
  <2>2. answer' \in [Clients -> Answers] /\ VersionReadExact'
    BY <1>0, <2>1, VarFacts DEF VersionReadExact
  <2> QED BY <1>0, <2>1, <2>2, DoneFacts, ReturnStep
<1>5. CASE PutValid(c)
  <2> DEFINE kind == IF Versioned(c) THEN "publish" ELSE "point"
  <2>1. /\ op[c].kind = "check" /\ Goto(c, kind) /\ kind \in Kinds
        /\ UNCHANGED <<status, object, versions, blobs, next, answer, acked, removed>>
    BY <1>5 DEF PutValid, At, stores, history, Kinds
  <2>2. /\ op' \in [Clients -> Ops] /\ \A d \in Clients \ {c} : op'[d] = op[d]
        /\ op'[c].kind = kind /\ op'[c].status = op[c].status /\ op'[c].vid = op[c].vid
        /\ op'[c].body = op[c].body /\ op'[c].blob = op[c].blob
    BY <1>0, <2>1, GotoFacts
  <2>3. kind \in {"publish", "point"} /\ (op[c].vid # Null => kind = "publish")
    BY <1>0, <2>1 DEF OpOK
  <2> HIDE DEF kind
  <2>4. OpOK(c)' /\ BlobOf(c)' /\ PointOf(c)'
    BY <1>0, <2>1, <2>2, <2>3 DEF OpOK, BlobOf, PointOf
  <2>5. Private(c)' => Private(c)
    BY <2>1, <2>2 DEF Private
  <2>6. BlobOK' /\ blobs' \in [BlobKeys -> Bodies \cup {NoBody}]
    BY <2>1, <2>2, <2>4, BlobFrame
  <2>7. /\ next' \in 1..MaxPuts + 1 /\ status' \in Statuses /\ object' \in Bodies \cup {NoBody}
        /\ answer' \in [Clients -> Answers] /\ VersionReadExact'
    BY <1>0, <2>1, VarFacts DEF VersionReadExact
  <2> QED BY <2>1, <2>2, <2>4, <2>5, <2>6, <2>7, HandlerStep
<1>6. CASE PutVersion(c)
  <2>1. PICK e : e = [vid |-> op[c].vid, body |-> op[c].body, marker |-> FALSE] /\ PutObjectVersion(e)
    BY <1>6, Zenon DEF PutVersion
  <2>2. e \in Entries /\ e.vid = op[c].vid /\ e.body = op[c].body /\ ~e.marker
    BY <1>0, <2>1 DEF Entries
  <2>3. op[c].kind = "publish" /\ Goto(c, "point")
        /\ UNCHANGED <<status, object, blobs, next, answer, acked, removed>>
    BY <1>6 DEF PutVersion, At, history
  <2>4. /\ op' \in [Clients -> Ops] /\ \A d \in Clients \ {c} : op'[d] = op[d]
        /\ op'[c].kind = "point" /\ op'[c].vid = op[c].vid
        /\ op'[c].body = op[c].body /\ op'[c].blob = op[c].blob
    BY <1>0, <2>3, GotoFacts DEF Kinds
  <2>5. Private(c) \/ op[c].vid = Null
    BY <2>3 DEF Private
  <2>6. e.vid # Null => blobs[e.vid] = e.body
    BY <1>0, <2>2, <2>3 DEF BlobOf
  <2>7. op'[c].blob \in {Plain, op'[c].vid}
    BY <1>0, <2>4 DEF OpOK
  <2> QED BY <2>1, <2>2, <2>3, <2>4, <2>5, <2>6, <2>7, PublishStep
<1>7. CASE PutMeta(c)
  <2>1. /\ At(c, "point") /\ object' = op[c].body /\ Done(c)
        /\ acked' = IF op[c].vid = Null THEN acked ELSE [acked EXCEPT ![op[c].vid] = op[c].body]
        /\ UNCHANGED <<status, versions, blobs, next, answer, removed>>
    BY <1>7 DEF PutMeta
  <2>2. /\ op' \in [Clients -> Ops] /\ \A d \in Clients \ {c} : op'[d] = op[d]
        /\ op'[c].vid = Null /\ op'[c].blob = Plain
    BY <1>0, <2>1, DoneFacts, IdleFacts
  <2>3. /\ next' \in 1..MaxPuts + 1 /\ status' \in Statuses /\ object' \in Bodies \cup {NoBody}
        /\ answer' \in [Clients -> Answers] /\ VersionReadExact'
    BY <1>0, <2>1, VarFacts DEF VersionReadExact
  <2>4. OpOK(c)' /\ BlobOf(c)' /\ PointOf(c)' /\ ~Private(c)'
    BY <2>2, <2>3, PlainHandler
  <2>5. BlobOK' /\ blobs' \in [BlobKeys -> Bodies \cup {NoBody}]
    BY <2>1, <2>2, <2>4, BlobFrame
  <2> QED BY <2>1, <2>2, <2>3, <2>4, <2>5, HandlerStep
<1> QED BY <1>2, <1>3, <1>4, <1>5, <1>6, <1>7

\* DeleteObject and DeleteObjects, from the list to the blob.
LEMMA DeleteSteps ==
    ASSUME S3Inv, NEW c \in Clients,
           Unlist(c) \/ UnlistEach(c) \/ Mark(c) \/ Erase(c) \/ DropBlob(c)
    PROVE  S3Inv'
<1>0. /\ S3TypeOK /\ VersionReadExact /\ op \in [Clients -> Ops] /\ OpOK(c) /\ BlobOf(c)
      /\ op[c].vid \in BlobKeys /\ op[c].blob \in BlobKeys /\ op[c].body \in Bodies \cup {NoBody}
  BY VarFacts, OpFields DEF S3Inv, OpsOK, BlobOK
<1>1. CASE Unlist(c) \/ UnlistEach(c)
  <2>1. /\ DeleteObjectVersion(op[c].vid) /\ removed' = removed \cup {op[c].vid}
        /\ UNCHANGED <<status, object, blobs, next, answer, acked>>
        /\ Goto(c, "drop") \/ Done(c)
    BY <1>1 DEF Unlist, UnlistEach
  <2>2. /\ op' \in [Clients -> Ops] /\ \A d \in Clients \ {c} : op'[d] = op[d]
        /\ op'[c].kind \in {"drop", "idle"} /\ op'[c].vid \in {Null, op[c].vid}
        /\ op'[c].blob \in {Plain, op'[c].vid}
    <3>1. CASE Goto(c, "drop")
      BY <1>0, <3>1, GotoFacts DEF Kinds, OpOK
    <3>2. CASE Done(c)
      BY <1>0, <3>2, DoneFacts, IdleFacts
    <3> QED BY <2>1, <3>1, <3>2
  <2> QED BY <2>1, <2>2, UnlistStep
<1>2. CASE Mark(c)
  <2>1. PICK e : e = [vid |-> op[c].vid, body |-> NoBody, marker |-> TRUE] /\ PutObjectVersion(e)
    BY <1>2, Zenon DEF Mark
  <2>2. e \in Entries /\ e.vid = op[c].vid /\ e.body = NoBody /\ e.marker
    BY <1>0, <2>1 DEF Entries
  <2>3. op[c].kind = "mark" /\ Done(c) /\ UNCHANGED <<status, object, blobs, next, answer, acked, removed>>
    BY <1>2 DEF Mark, At, history
  <2>4. /\ op' \in [Clients -> Ops] /\ \A d \in Clients \ {c} : op'[d] = op[d]
        /\ op'[c].kind = "idle" /\ op'[c].vid = Null /\ op'[c].blob = Plain
    BY <1>0, <2>3, DoneFacts, IdleFacts
  <2>5. Private(c) \/ op[c].vid = Null
    BY <2>3 DEF Private
  <2> QED BY <2>1, <2>2, <2>3, <2>4, <2>5, PublishStep
<1>3. CASE Erase(c)
  <2>1. /\ op[c].kind = "erase" /\ object' = NoBody /\ Goto(c, "drop")
        /\ UNCHANGED <<status, versions, blobs, next, answer, acked, removed>>
    BY <1>3 DEF Erase, At, history
  <2>2. /\ op' \in [Clients -> Ops] /\ \A d \in Clients \ {c} : op'[d] = op[d]
        /\ op'[c].kind = "drop" /\ op'[c].vid = op[c].vid /\ op'[c].blob = Plain
    BY <1>0, <2>1, GotoFacts DEF Kinds, OpOK
  <2>3. OpOK(c)' /\ BlobOf(c)' /\ PointOf(c)' /\ ~Private(c)'
    BY <1>0, <2>1, <2>2 DEF OpOK, BlobOf, PointOf, Private
  <2>4. BlobOK' /\ blobs' \in [BlobKeys -> Bodies \cup {NoBody}]
    BY <2>1, <2>2, <2>3, BlobFrame
  <2>5. /\ next' \in 1..MaxPuts + 1 /\ status' \in Statuses /\ object' \in Bodies \cup {NoBody}
        /\ answer' \in [Clients -> Answers] /\ VersionReadExact'
    BY <1>0, <2>1, VarFacts DEF VersionReadExact
  <2> QED BY <2>1, <2>2, <2>3, <2>4, <2>5, HandlerStep
<1>4. CASE DropBlob(c)
  <2>1. /\ op[c].kind = "drop" /\ Done(c) /\ blobs' = [blobs EXCEPT ![op[c].blob] = NoBody]
        /\ UNCHANGED <<status, object, versions, next, answer, acked, removed>>
    BY <1>4 DEF DropBlob, At, history
  <2>2. /\ op' \in [Clients -> Ops] /\ \A d \in Clients \ {c} : op'[d] = op[d]
        /\ op'[c].vid = Null /\ op'[c].blob = Plain
    BY <1>0, <2>1, DoneFacts, IdleFacts
  <2>3. next' \in 1..MaxPuts + 1
    BY <1>0, <2>1, VarFacts
  <2>4. OpOK(c)' /\ BlobOf(c)' /\ PointOf(c)' /\ ~Private(c)'
    BY <2>2, <2>3, PlainHandler
  <2>5. ASSUME op[c].blob # Null
        PROVE  /\ \A e \in Rows : e.vid # op[c].blob
               /\ \A d \in Clients \ {c} : op[d].vid = op[c].blob => op[d].kind \notin {"check", "publish"}
    <3>1. op[c].blob = op[c].vid
      BY <1>0, <2>5, Ids DEF OpOK
    <3>2. \A e \in Rows : e.vid # op[c].vid
      BY <1>0, <2>1, <2>5, <3>1, Ids DEF BlobOf
    <3> QED BY <2>5, <3>1, <3>2 DEF S3Inv, PrivateOK, Private
  <2> QED BY <2>1, <2>2, <2>4, <2>5, BlobStep
<1> QED BY <1>1, <1>2, <1>3, <1>4

\* GetObject, from the metadata to the answer.
LEMMA GetSteps ==
    ASSUME S3Inv, NEW c \in Clients, Lookup(c) \/ LookupFails(c) \/ Stream(c) \/ Recheck(c)
    PROVE  S3Inv'
<1>0. /\ S3TypeOK /\ VersionReadExact /\ op \in [Clients -> Ops] /\ OpOK(c) /\ BlobOf(c)
      /\ op[c].vid \in BlobKeys /\ op[c].blob \in BlobKeys /\ op[c].body \in Bodies \cup {NoBody}
      /\ blobs \in [BlobKeys -> Bodies \cup {NoBody}] /\ object \in Bodies \cup {NoBody}
      /\ next \in 1..MaxPuts + 1 /\ status \in Statuses /\ answer \in [Clients -> Answers]
  BY VarFacts, OpFields DEF S3Inv, OpsOK, BlobOK
<1>1. CASE Lookup(c)
  <2>1. UNCHANGED <<status, object, versions, blobs, next, answer, acked, removed>>
    BY <1>1 DEF Lookup, stores, history
  <2>2. PICK m \in Found(c) :
          /\ m.body # NoBody
          /\ op' = [op EXCEPT ![c].kind = "stream", ![c].vid = m.vid,
                              ![c].body = m.body, ![c].blob = BlobKey(m.vid)]
    BY <1>1 DEF Lookup
  <2>3. /\ m.vid \in BlobKeys /\ m.body \in Bodies \cup {NoBody} /\ m.vid < next
        /\ m.vid = Null \/ \E e \in Rows : e.vid = m.vid
        /\ m.vid # Null => blobs[m.vid] = m.body
    <3>1. CASE ~Versioned(c)
      BY <1>0, <2>2, <3>1, Ids DEF Found
    <3>2. CASE Versioned(c)
      <4>1. m \in Rows
        BY <2>2, <3>2 DEF Found, NewestOf, Rows
      <4>2. ~m.marker
        BY <2>2, <4>1 DEF S3Inv, OpsOK
      <4> QED BY <4>1, <4>2, RowFacts DEF S3Inv, OpsOK, BlobOK
    <3> QED BY <3>1, <3>2
  <2>4. /\ op'[c] \in Ops /\ op'[c].kind = "stream" /\ op'[c].vid = m.vid
        /\ op'[c].body = m.body /\ op'[c].blob = m.vid
    <3>1. op'[c] = [op[c] EXCEPT !.kind = "stream", !.vid = m.vid, !.body = m.body, !.blob = m.vid]
      BY <1>0, <2>2, <2>3, Ids
    <3>2. op[c] \in Ops
      BY <1>0
    <3> QED BY <2>3, <3>1, <3>2 DEF Ops
  <2>5. op' \in [Clients -> Ops] /\ \A d \in Clients \ {c} : op'[d] = op[d]
    BY <1>0, <2>2, <2>4
  <2>6. OpOK(c)' /\ BlobOf(c)' /\ PointOf(c)' /\ ~Private(c)'
    BY <2>1, <2>3, <2>4 DEF OpOK, BlobOf, PointOf, Private
  <2>7. BlobOK' /\ blobs' \in [BlobKeys -> Bodies \cup {NoBody}]
    BY <2>1, <2>5, <2>6, BlobFrame
  <2>8. VersionReadExact'
    BY <1>0, <2>1 DEF VersionReadExact
  <2> QED BY <1>0, <2>1, <2>3, <2>4, <2>5, <2>6, <2>7, <2>8, HandlerStep
<1>2. CASE LookupFails(c)
  <2>1. Reply(c, 404, NoBody) /\ UNCHANGED <<stores, next, acked, removed>>
    BY <1>2 DEF LookupFails, history
  <2> QED BY <1>0, <2>1, ReplyFacts, ReturnStep
<1>3. CASE Stream(c)
  <2>1. op[c].kind = "stream" /\ op[c].blob = op[c].vid /\ UNCHANGED <<stores, next, acked, removed>>
    BY <1>0, <1>3 DEF Stream, At, OpOK, history
  <2>2. CASE blobs[op[c].blob] # NoBody
    <3>1. Reply(c, 200, blobs[op[c].blob])
      BY <1>3, <2>2 DEF Stream
    <3>2. op[c].vid # Null => blobs[op[c].blob] = op[c].body
      BY <1>0, <2>1, <2>2 DEF BlobOf
    <3>3. blobs[op[c].blob] \in Bodies \cup {NoBody}
      BY <1>0
    <3> QED BY <1>0, <2>1, <3>1, <3>2, <3>3, ReplyFacts, ReturnStep
  <2>3. CASE blobs[op[c].blob] = NoBody
    <3>1. Goto(c, "recheck") /\ answer' = answer
      BY <1>3, <2>3 DEF Stream
    <3>2. /\ op' \in [Clients -> Ops] /\ \A d \in Clients \ {c} : op'[d] = op[d]
          /\ op'[c].kind = "recheck" /\ op'[c].vid = op[c].vid /\ op'[c].blob = op[c].blob
      BY <1>0, <3>1, GotoFacts DEF Kinds
    <3>3. UNCHANGED <<status, object, versions, blobs>>
      BY <2>1 DEF stores
    <3>4. OpOK(c)' /\ BlobOf(c)' /\ PointOf(c)' /\ ~Private(c)'
      BY <1>0, <2>1, <3>2 DEF OpOK, BlobOf, PointOf, Private
    <3>5. BlobOK' /\ blobs' \in [BlobKeys -> Bodies \cup {NoBody}]
      BY <3>2, <3>3, <3>4, BlobFrame
    <3>6. VersionReadExact'
      BY <1>0, <3>1 DEF VersionReadExact
    <3> QED BY <1>0, <2>1, <3>1, <3>2, <3>3, <3>4, <3>5, <3>6, HandlerStep
  <2> QED BY <2>2, <2>3
<1>4. CASE Recheck(c)
  <2> DEFINE code == IF object = NoBody THEN 404 ELSE 500
  <2>1. Reply(c, code, NoBody) /\ UNCHANGED <<stores, next, acked, removed>>
    BY <1>4 DEF Recheck, history
  <2>2. code \in {404, 500, 200} /\ code # 200
    OBVIOUS
  <2> HIDE DEF code
  <2> QED BY <1>0, <2>1, <2>2, ReplyFacts, ReturnStep
<1> QED BY <1>1, <1>2, <1>3, <1>4

LEMMA StatusStep ==
    ASSUME S3Inv, UNCHANGED <<object, versions, blobs, next, op, answer, history>>, status' \in Statuses
    PROVE  S3Inv'
<1>1. Rows' = Rows /\ UNCHANGED <<acked, removed>>
  BY DEF Rows, history
<1>2. S3TypeOK'
  <2>1. versions' \in Seq(Entries) /\ RowsUnique'
    BY ListFacts DEF S3Inv, RowsUnique
  <2>2. /\ object' \in Bodies \cup {NoBody} /\ blobs' \in [BlobKeys -> Bodies \cup {NoBody}]
        /\ next' \in 1..MaxPuts + 1 /\ op' \in [Clients -> Ops] /\ answer' \in [Clients -> Answers]
        /\ acked' \in [VersionIds -> Bodies \cup {NoBody}] /\ removed' \subseteq BlobKeys
    BY <1>1, VarFacts DEF S3Inv
  <2> QED BY <2>1, <2>2, Zenon DEF S3TypeOK, RowsUnique, Statuses
<1>3. OpsOK'
  BY <1>1 DEF S3Inv, OpsOK, OpOK, Versioned
<1>4. PrivateOK'
  BY <1>1 DEF S3Inv, PrivateOK, Private
<1>5. BlobOK'
  BY <1>1 DEF S3Inv, BlobOK, BlobOf
<1>6. AckOK'
  BY <1>1 DEF S3Inv, AckOK, PointOf
<1> QED BY <1>2, <1>3, <1>4, <1>5, <1>6 DEF S3Inv, VersionReadExact

LEMMA S3InitInv == S3Init => S3Inv
<1> SUFFICES ASSUME S3Init PROVE S3Inv
  OBVIOUS
<1>1. /\ status = "" /\ object = NoBody /\ next = 1 /\ removed = {}
      /\ blobs = [k \in BlobKeys |-> NoBody] /\ op = [c \in Clients |-> Idle]
      /\ answer = [c \in Clients |-> NoAnswer] /\ acked = [v \in VersionIds |-> NoBody]
  BY Zenon DEF S3Init
<1>2. versions \in Seq(Entries) /\ RowsUnique /\ Rows = {}
  <2>1. versions = <<>>
    BY Zenon DEF S3Init
  <2>2. versions \in Seq(Entries) /\ DOMAIN versions = {}
    BY <2>1
  <2> QED BY <2>2 DEF Rows, RowsUnique
<1>3. \A c \in Clients : op[c] = Idle /\ op[c].kind = "idle" /\ op[c].vid = Null /\ op[c].blob = Plain
  BY <1>1, IdleFacts
<1>4. NoAnswer \in Answers /\ NoAnswer.code = 0
  BY Ids DEF NoAnswer, Answers
<1>4a. answer \in [Clients -> Answers] /\ \A c \in Clients : answer[c].code = 0
  BY <1>1, <1>4
<1>5. /\ next \in 1..MaxPuts + 1 /\ 0 < next /\ op \in [Clients -> Ops]
      /\ blobs \in [BlobKeys -> Bodies \cup {NoBody}]
      /\ acked \in [VersionIds -> Bodies \cup {NoBody}] /\ removed \subseteq BlobKeys
      /\ object \in Bodies \cup {NoBody}
  <2>1. next \in 1..MaxPuts + 1 /\ 0 < next
    <3>1. next = 1
      BY <1>1
    <3> QED BY <3>1, Ids
  <2>2. op \in [Clients -> Ops]
    <3>1. Idle \in Ops
      BY IdleFacts
    <3> QED BY <1>1, <3>1, Zenon
  <2> QED BY <1>1, <2>1, <2>2
<1>6. S3TypeOK
  BY <1>1, <1>2, <1>4a, <1>5, Zenon DEF S3TypeOK, RowsUnique
<1>7. OpsOK
  BY <1>2, <1>3, <1>5, Ids DEF OpsOK, OpOK
<1>8. PrivateOK
  BY <1>3 DEF PrivateOK, Private
<1>9. BlobOK
  BY <1>2, <1>3 DEF BlobOK, BlobOf
<1>10. AckOK
  BY <1>1, <1>3 DEF AckOK, PointOf
<1>11. VersionReadExact
  BY <1>4a DEF VersionReadExact
<1> QED BY <1>6, <1>7, <1>8, <1>9, <1>10, <1>11 DEF S3Inv

-----------------------------------------------------------------------------

\* S3Inv is inductive, however the calls of the handlers interleave.
THEOREM S3Invariant == S3Spec => []S3Inv
<1>1. ASSUME S3Inv, S3Next PROVE S3Inv'
  <2>1. ASSUME NEW c \in Clients, Put(c) PROVE S3Inv'
    BY <1>1, <2>1, PutBeginStep, PutSteps DEF Put
  <2>2. ASSUME NEW c \in Clients, Delete(c) PROVE S3Inv'
    BY <1>1, <2>2, DeleteBeginStep, MarkBeginStep, DeleteSteps DEF Delete
  <2>3. ASSUME NEW c \in Clients, Get(c) PROVE S3Inv'
    BY <1>1, <2>3, DeleteBeginStep, GetSteps DEF Get
  <2>4. ASSUME NEW s \in {"Enabled", "Suspended"}, PutBucketVersioning(s) PROVE S3Inv'
    BY <1>1, <2>4, StatusStep DEF PutBucketVersioning, Statuses
  <2> QED BY <1>1, <2>1, <2>2, <2>3, <2>4 DEF S3Next
<1>2. ASSUME S3Inv, UNCHANGED vars PROVE S3Inv'
  <2>1. status \in Statuses
    BY <1>2, VarFacts DEF S3Inv
  <2> QED BY <1>2, <2>1, StatusStep DEF vars, stores, history
<1> QED BY <1>1, <1>2, S3InitInv, PTL DEF S3Spec

\* The variables have their types, and no version id is listed twice.
THEOREM S3Types == S3Spec => []S3TypeOK
<1>1. S3Inv => S3TypeOK
  BY DEF S3Inv
<1> QED BY <1>1, S3Invariant, PTL

\* A listed version has its blob, with its body: PutObject publishes after the
\* blob is written, DeleteObject drops the blob after the version is unlisted.
THEOREM ListedVersionsReadable == S3Spec => []ListedVersionReadable
<1>1. S3Inv => ListedVersionReadable
  BY DEF S3Inv, BlobOK, ListedVersionReadable, Rows
<1> QED BY <1>1, S3Invariant, PTL

\* A version PutObject has answered is listed until a delete names it.
THEOREM AnsweredVersionsKept == S3Spec => []AnsweredVersionKept
<1>1. S3Inv => AnsweredVersionKept
  BY DEF S3Inv, AckOK, AnsweredVersionKept, Rows
<1> QED BY <1>1, S3Invariant, PTL

\* GetObject of a version answers the bytes of the put whose metadata it read.
THEOREM VersionReadsExact == S3Spec => []VersionReadExact
<1>1. S3Inv => VersionReadExact
  BY DEF S3Inv
<1> QED BY <1>1, S3Invariant, PTL
=============================================================================
