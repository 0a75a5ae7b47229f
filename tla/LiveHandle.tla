----------------------------- MODULE LiveHandle -----------------------------
(***************************************************************************)
(* The publish point of one collection's liveness                          *)
(* (src/src/metadata/index.rs, LiveHandle): the commit thread changes the  *)
(* live bitmap under the metadata lock and bumps a version afterwards;     *)
(* queries resolve a version-labelled immutable snapshot, materialized at  *)
(* most once per version and cached.                                       *)
(*                                                                         *)
(* The bitmap is abstracted to how many records it reflects, and how many  *)
(* rows of the record being applied: `rows` # 0 is half a statement.       *)
(***************************************************************************)
EXTENDS Naturals

CONSTANTS
    Readers,   \* threads that call resolve
    Rows,      \* rows a statement retires and installs
    MaxRecords \* bound: records applied

CONSTANTS Free, Applier, NoSet  \* sentinels

ASSUME LiveHandleAssumption ==
    /\ Rows \in Nat \ {0} /\ MaxRecords \in Nat
    /\ Free \notin Readers /\ Applier \notin Readers /\ Free # Applier
    /\ NoSet \notin [version : Nat, records : Nat, rows : Nat]

VARIABLES
    records,   \* records the live bitmap reflects in full
    rows,      \* rows of the next record it reflects already
    version,   \* the counter readers compare with
    applier,   \* "idle" | "record" | "publish"
    metaLock,  \* holder of the metadata lock
    cacheLock, \* holder of the cache lock
    cached,    \* the newest materialized set
    pc,        \* per reader: "idle" | "look" | "lock" | "recheck" | "read" | "copy" | "fill"
    want,      \* the version the call started with
    label,     \* the version read beside the bitmap
    built,     \* the set being installed
    got        \* the set the last call returned

readerVars == <<pc, want, label, built, got>>
vars == <<records, rows, version, applier, metaLock, cacheLock, cached,
          pc, want, label, built, got>>

LiveSet == [version : Nat, records : Nat, rows : Nat]

Init ==
    /\ records = 0 /\ rows = 0 /\ version = 0 /\ applier = "idle"
    /\ metaLock = Free /\ cacheLock = Free /\ cached = NoSet
    /\ pc = [r \in Readers |-> "idle"]
    /\ want = [r \in Readers |-> 0]
    /\ label = [r \in Readers |-> 0]
    /\ built = [r \in Readers |-> NoSet]
    /\ got = [r \in Readers |-> NoSet]

(***************************************************************************)
(* The commit thread: all the rows of a record under one lock hold, then   *)
(* the bump, which takes no lock.                                          *)
(***************************************************************************)
LockMeta ==
    /\ applier = "idle" /\ metaLock = Free /\ records < MaxRecords
    /\ applier' = "record" /\ metaLock' = Applier
    /\ UNCHANGED <<records, rows, version, cacheLock, cached, readerVars>>

ChangeRow ==
    /\ applier = "record" /\ rows + 1 < Rows
    /\ rows' = rows + 1
    /\ UNCHANGED <<records, version, applier, metaLock, cacheLock, cached, readerVars>>

LastRow ==
    /\ applier = "record" /\ rows + 1 = Rows
    /\ records' = records + 1 /\ rows' = 0
    /\ applier' = "publish" /\ metaLock' = Free
    /\ UNCHANGED <<version, cacheLock, cached, readerVars>>

Bump ==
    /\ applier = "publish"
    /\ version' = version + 1 /\ applier' = "idle"
    /\ UNCHANGED <<records, rows, metaLock, cacheLock, cached, readerVars>>

(***************************************************************************)
(* LiveHandle::resolve.                                                    *)
(***************************************************************************)
Call(r) ==
    /\ pc[r] = "idle"
    /\ want' = [want EXCEPT ![r] = version]
    /\ pc' = [pc EXCEPT ![r] = "look"]
    /\ UNCHANGED <<records, rows, version, applier, metaLock, cacheLock, cached,
                   label, built, got>>

\* Variant: any cached set will do.
Look_AnyVersion(r) ==
    /\ pc[r] = "look" /\ cacheLock = Free
    /\ IF cached # NoSet
       THEN got' = [got EXCEPT ![r] = cached] /\ pc' = [pc EXCEPT ![r] = "idle"]
       ELSE got' = got /\ pc' = [pc EXCEPT ![r] = "lock"]
    /\ UNCHANGED <<records, rows, version, applier, metaLock, cacheLock, cached,
                   want, label, built>>

\* cached() takes the cache lock to clone the pointer, and releases it.
Look(r) ==
    /\ pc[r] = "look" /\ cacheLock = Free
    /\ IF cached # NoSet /\ cached.version = want[r]
       THEN got' = [got EXCEPT ![r] = cached] /\ pc' = [pc EXCEPT ![r] = "idle"]
       ELSE got' = got /\ pc' = [pc EXCEPT ![r] = "lock"]
    /\ UNCHANGED <<records, rows, version, applier, metaLock, cacheLock, cached,
                   want, label, built>>

\* Variant: the cache is not locked while a set is built.
LockCache_Unlocked(r) ==
    /\ pc[r] = "lock"
    /\ pc' = [pc EXCEPT ![r] = "recheck"]
    /\ UNCHANGED <<records, rows, version, applier, metaLock, cacheLock, cached, want,
                   label, built, got>>

LockCache(r) ==
    /\ pc[r] = "lock" /\ cacheLock = Free
    /\ cacheLock' = r
    /\ pc' = [pc EXCEPT ![r] = "recheck"]
    /\ UNCHANGED <<records, rows, version, applier, metaLock, cached, want, label,
                   built, got>>

\* Variant: a stale cache is waited for instead of refilled.
Recheck_Waits(r) ==
    /\ pc[r] = "recheck"
    /\ IF cached # NoSet /\ cached.version = version
       THEN /\ got' = [got EXCEPT ![r] = cached] /\ pc' = [pc EXCEPT ![r] = "idle"]
            /\ cacheLock' = Free
       ELSE /\ got' = got /\ cacheLock' = cacheLock
            /\ pc' = [pc EXCEPT ![r] = IF cached = NoSet THEN "read" ELSE @]
    /\ UNCHANGED <<records, rows, version, applier, metaLock, cached, want, label, built>>

\* A reader that was here first may have filled the cache.
Recheck(r) ==
    /\ pc[r] = "recheck"
    /\ IF cached # NoSet /\ cached.version = version
       THEN /\ got' = [got EXCEPT ![r] = cached] /\ pc' = [pc EXCEPT ![r] = "idle"]
            /\ cacheLock' = Free
       ELSE got' = got /\ pc' = [pc EXCEPT ![r] = "read"] /\ cacheLock' = cacheLock
    /\ UNCHANGED <<records, rows, version, applier, metaLock, cached, want, label, built>>

\* Variant: the bitmap is read without the metadata lock.
ReadVersion_Unlocked(r) ==
    /\ pc[r] = "read"
    /\ label' = [label EXCEPT ![r] = version]
    /\ pc' = [pc EXCEPT ![r] = "copy"]
    /\ UNCHANGED <<records, rows, version, applier, metaLock, cacheLock, cached, want,
                   built, got>>

ReadVersion(r) ==
    /\ pc[r] = "read" /\ metaLock = Free
    /\ metaLock' = r
    /\ label' = [label EXCEPT ![r] = version]
    /\ pc' = [pc EXCEPT ![r] = "copy"]
    /\ UNCHANGED <<records, rows, version, applier, cacheLock, cached, want, built, got>>

CopyLive(r) ==
    /\ pc[r] = "copy"
    /\ built' = [built EXCEPT ![r] = [version |-> label[r], records |-> records, rows |-> rows]]
    /\ metaLock' = Free
    /\ pc' = [pc EXCEPT ![r] = "fill"]
    /\ UNCHANGED <<records, rows, version, applier, cacheLock, cached, want, label, got>>

FillCache(r) ==
    /\ pc[r] = "fill"
    /\ cached' = built[r] /\ got' = [got EXCEPT ![r] = built[r]]
    /\ cacheLock' = Free
    /\ pc' = [pc EXCEPT ![r] = "idle"]
    /\ UNCHANGED <<records, rows, version, applier, metaLock, want, label, built>>

CommitThread == LockMeta \/ ChangeRow \/ LastRow \/ Bump
Resolve(r) ==
    \/ Call(r) \/ Look(r) \/ LockCache(r) \/ Recheck(r)
    \/ ReadVersion(r) \/ CopyLive(r) \/ FillCache(r)

Next == CommitThread \/ \E r \in Readers : Resolve(r)

Spec == Init /\ [][Next]_vars
FairSpec == Spec /\ WF_vars(CommitThread) /\ \A r \in Readers : WF_vars(Resolve(r))
-----------------------------------------------------------------------------
TypeOK ==
    /\ records \in Nat /\ rows \in Nat /\ version \in Nat
    /\ applier \in {"idle", "record", "publish"}
    /\ metaLock \in Readers \cup {Free, Applier} /\ cacheLock \in Readers \cup {Free}
    /\ cached \in LiveSet \cup {NoSet}
    /\ pc \in [Readers -> {"idle", "look", "lock", "recheck", "read", "copy", "fill"}]
    /\ want \in [Readers -> Nat] /\ label \in [Readers -> Nat]
    /\ built \in [Readers -> LiveSet \cup {NoSet}]
    /\ got \in [Readers -> LiveSet \cup {NoSet}]

\* A snapshot's version label may lag the state it holds and never leads it:
\* a label ahead would be served from the cache with nothing to invalidate it.
NeverLeads ==
    \A s \in {cached} \cup {got[r] : r \in Readers} :
        s # NoSet => s.version <= s.records

\* No snapshot holds half a statement.
WholeStatements ==
    \A s \in {cached} \cup {got[r] : r \in Readers} : s # NoSet => s.rows = 0

Returns(r) == pc[r] # "idle" /\ pc'[r] = "idle"

\* A call returns a set with every record published before the call began: a
\* caller whose write was acknowledged finds it in the next query.
Current == [][\A r \in Readers : Returns(r) => got'[r].records >= want[r]]_vars

\* The sets one reader gets never go back in time, on whichever path it gets
\* them.
Monotone ==
    [][\A r \in Readers : Returns(r) /\ got[r] # NoSet
            => got'[r].records >= got[r].records]_vars

\* At most one set is materialized per version.
OncePerVersion ==
    [][cached' # cached /\ cached # NoSet => cached'.version > cached.version]_vars

\* Whoever holds a lock gives it up: the two locks are always taken in one
\* order and the bump takes neither, so readers and the commit thread cannot
\* wait on each other.
LocksReleased ==
    /\ \A r \in Readers : cacheLock = r ~> cacheLock # r
    /\ metaLock # Free ~> metaLock = Free
=============================================================================
