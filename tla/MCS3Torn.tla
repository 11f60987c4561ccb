------------------------------ MODULE MCS3Torn ------------------------------
(***************************************************************************)
(* PutObject, DeleteObject and GetObject of one key in a bucket that was   *)
(* never versioned, when no put is refused.                                *)
(***************************************************************************)
EXTENDS S3Objects

PlainNext ==
    \E c \in Clients :
        \/ \E b \in Bodies : PutBegin(c, b)
        \/ PutBlob(c) \/ PutValid(c) \/ PutMeta(c)
        \/ EraseBegin(c) \/ Erase(c) \/ DropBlob(c)
        \/ GetBegin(c, "lookup", Null)
        \/ Lookup(c) \/ LookupFails(c) \/ Stream(c) \/ Recheck(c)

PlainSpec == S3Init /\ [][PlainNext]_vars
=============================================================================
