----------------------------- MODULE SharedLock -----------------------------
(***************************************************************************)
(* What the persistence barrier promises its callers: sharers (requests,   *)
(* saves, exports, named snapshots) may be inside together, an excluder    *)
(* (reset, import) is inside alone.  Barrier implements this module;       *)
(* AdminImport builds on it.                                               *)
(***************************************************************************)
CONSTANTS Sharers, Excluders

VARIABLE inside     \* who has the lock and has not released it

LockInit == inside = {}

EnterShared(p) ==
    /\ p \in Sharers \ inside
    /\ inside \cap Excluders = {}
    /\ inside' = inside \cup {p}

EnterExclusive(p) ==
    /\ p \in Excluders
    /\ inside = {}
    /\ inside' = {p}

Leave(p) ==
    /\ p \in inside
    /\ inside' = inside \ {p}

LockNext ==
    \/ \E p \in Sharers : EnterShared(p) \/ Leave(p)
    \/ \E p \in Excluders : EnterExclusive(p) \/ Leave(p)

LockSpec == LockInit /\ [][LockNext]_inside
=============================================================================
