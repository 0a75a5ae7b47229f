-------------------------- MODULE LiveHandle_proofs --------------------------
(***************************************************************************)
(* Theorems about LiveHandle, for any number of readers and of rows to a   *)
(* statement.                                                              *)
(*                                                                         *)
(* The argument: the counter is bumped after the change it counts, so it   *)
(* never exceeds the records in the bitmap; a reader that holds the        *)
(* metadata lock keeps the bitmap as it is, so what it copies is between   *)
(* its label and one record past it, and whole.  The cache lock orders the *)
(* labels: a set is built only for a version above the cached one.         *)
(***************************************************************************)
EXTENDS LiveHandle, TLAPS

Holding == {"recheck", "read", "copy", "fill"}

\* Where the commit thread is tells how far the counter lags.
ApplierInv ==
    /\ applier = "publish" => records = version + 1
    /\ applier # "publish" => records = version
    /\ applier = "record" <=> metaLock = Applier
    /\ applier # "record" => rows = 0

LockInv ==
    \A r \in Readers :
        /\ pc[r] = "copy" <=> metaLock = r
        /\ pc[r] \in Holding <=> cacheLock = r

\* A set is whole and holds its label's records, or one more.
Sound(s) ==
    /\ s \in LiveSet /\ s.rows = 0
    /\ s.version <= s.records /\ s.records <= s.version + 1

CacheInv == cached # NoSet => Sound(cached) /\ cached.version <= version

\* v is a version the cache does not hold yet.
Newer(v) == cached # NoSet => cached.version < v

ReaderInv ==
    \A r \in Readers :
        /\ pc[r] # "idle" => want[r] <= version
        /\ pc[r] = "read" => Newer(version)
        /\ pc[r] = "copy" =>
             /\ want[r] <= label[r] /\ label[r] <= version /\ Newer(label[r])
             /\ records <= label[r] + 1
        /\ pc[r] = "fill" =>
             /\ Sound(built[r]) /\ Newer(built[r].version)
             /\ want[r] <= built[r].version /\ built[r].version <= version

\* What a reader got is the cached set or an older one.
GotInv ==
    \A r \in Readers : got[r] # NoSet =>
        /\ Sound(got[r]) /\ cached # NoSet
        /\ got[r] = cached \/ got[r].version < cached.version

IInv == TypeOK /\ ApplierInv /\ LockInv /\ CacheInv /\ ReaderInv /\ GotInv

-----------------------------------------------------------------------------
LEMMA TypeStep == TypeOK /\ [Next]_vars => TypeOK'
<1> SUFFICES ASSUME TypeOK, [Next]_vars PROVE TypeOK'
    OBVIOUS
<1> USE LiveHandleAssumption DEF TypeOK
<1>1. CASE CommitThread
    BY <1>1 DEF CommitThread, LockMeta, ChangeRow, LastRow, Bump, readerVars
<1>2. ASSUME NEW r \in Readers, Resolve(r) PROVE TypeOK'
    <2>1. CASE Call(r) \/ Look(r) \/ LockCache(r) \/ Recheck(r)
        BY <2>1 DEF Call, Look, LockCache, Recheck
    <2>2. CASE ReadVersion(r)
        BY <2>2 DEF ReadVersion
    <2>3. CASE CopyLive(r)
        BY <2>3 DEF CopyLive, LiveSet
    <2>4. CASE FillCache(r)
        BY <2>4 DEF FillCache
    <2> QED BY <1>2, <2>1, <2>2, <2>3, <2>4 DEF Resolve
<1>3. CASE UNCHANGED vars
    BY <1>3 DEF vars
<1> QED BY <1>1, <1>2, <1>3 DEF Next

LEMMA InitIInv == Init => IInv
BY LiveHandleAssumption
   DEF Init, IInv, TypeOK, ApplierInv, LockInv, CacheInv, ReaderInv, GotInv, Holding

\* The commit thread: it changes the bitmap only with the metadata lock, so
\* no reader is between its label and its copy.
LEMMA CommitThreadStep == IInv /\ CommitThread => IInv'
<1> SUFFICES ASSUME IInv, CommitThread PROVE IInv'
    OBVIOUS
<1>1. TypeOK'
    BY TypeStep DEF IInv, Next
<1> USE LiveHandleAssumption DEF IInv, TypeOK, readerVars
<1>2. ApplierInv'
    BY DEF ApplierInv, CommitThread, LockMeta, ChangeRow, LastRow, Bump
<1>3. LockInv'
    BY DEF ApplierInv, LockInv, CommitThread, LockMeta, ChangeRow, LastRow, Bump
<1>4. CacheInv'
    BY DEF CacheInv, Sound, LiveSet, CommitThread, LockMeta, ChangeRow, LastRow, Bump
<1>5. ReaderInv'
    <2> SUFFICES ASSUME NEW r \in Readers
                 PROVE  /\ pc[r] # "idle" => want[r] <= version'
                        /\ pc[r] = "read" => Newer(version')
                        /\ pc[r] = "copy" =>
                             /\ want[r] <= label[r] /\ label[r] <= version' /\ Newer(label[r])
                             /\ records' <= label[r] + 1
                        /\ pc[r] = "fill" =>
                             /\ Sound(built[r]) /\ Newer(built[r].version)
                             /\ want[r] <= built[r].version /\ built[r].version <= version'
        BY DEF ReaderInv, Newer, Sound, CommitThread, LockMeta, ChangeRow, LastRow, Bump
    <2>1. version <= version' /\ version' \in Nat /\ version \in Nat
        BY DEF CommitThread, LockMeta, ChangeRow, LastRow, Bump
    <2>2. pc[r] = "copy" => records' = records
        BY DEF ApplierInv, LockInv, CommitThread, LockMeta, ChangeRow, LastRow, Bump
    <2>3. cached # NoSet => cached.version \in Nat
        BY DEF LiveSet
    <2>4. pc[r] = "fill" => built[r].version \in Nat
        BY DEF ReaderInv, Sound, LiveSet
    <2> QED BY <2>1, <2>2, <2>3, <2>4 DEF ReaderInv, Newer
<1>6. GotInv'
    BY DEF GotInv, Sound, CommitThread, LockMeta, ChangeRow, LastRow, Bump
<1> QED BY <1>1, <1>2, <1>3, <1>4, <1>5, <1>6 DEF IInv

\* The readers.
LEMMA ResolveStep == ASSUME NEW r \in Readers, IInv, Resolve(r) PROVE IInv'
<1>1. TypeOK'
    BY TypeStep DEF IInv, Next
<1> USE LiveHandleAssumption DEF IInv, TypeOK
<1>2. ApplierInv'
    BY DEF ApplierInv, LockInv, Resolve, Call, Look, LockCache, Recheck, ReadVersion,
           CopyLive, FillCache
<1>3. LockInv'
    BY DEF ApplierInv, LockInv, Holding, Resolve, Call, Look, LockCache, Recheck,
           ReadVersion, CopyLive, FillCache
<1>4. CASE Call(r) \/ Look(r) \/ LockCache(r) \/ Recheck(r)
    <2>1. CacheInv'
        BY <1>4 DEF CacheInv, Sound, Call, Look, LockCache, Recheck
    <2>2. ReaderInv'
        BY <1>4 DEF ReaderInv, CacheInv, Newer, Sound, LiveSet, Call, Look, LockCache, Recheck
    <2>3. GotInv'
        BY <1>4 DEF GotInv, CacheInv, Sound, Call, Look, LockCache, Recheck
    <2> QED BY <1>1, <1>2, <1>3, <2>1, <2>2, <2>3
<1>5. CASE ReadVersion(r)
    <2>1. CacheInv' /\ GotInv'
        BY <1>5 DEF CacheInv, GotInv, Sound, ReadVersion
    <2>2. ReaderInv'
        BY <1>5 DEF ReaderInv, ApplierInv, Newer, Sound, ReadVersion
    <2> QED BY <1>1, <1>2, <1>3, <2>1, <2>2
<1>6. CASE CopyLive(r)
    <2> DEFINE s == [version |-> label[r], records |-> records, rows |-> rows]
    <2>1. CacheInv' /\ GotInv'
        BY <1>6 DEF CacheInv, GotInv, Sound, CopyLive
    <2>2. pc[r] = "copy" /\ metaLock = r /\ built' = [built EXCEPT ![r] = s]
        BY <1>6 DEF CopyLive, LockInv
    <2>3. rows = 0 /\ version <= records
        BY <2>2 DEF ApplierInv
    <2>4. /\ want[r] <= label[r] /\ label[r] <= version /\ Newer(label[r])
          /\ records <= label[r] + 1
        BY <2>2 DEF ReaderInv
    <2>5. Sound(s) /\ s.version = label[r]
        BY <2>3, <2>4 DEF Sound, LiveSet
    <2> HIDE DEF s
    <2>6. ReaderInv'
        BY <1>6, <2>2, <2>4, <2>5 DEF ReaderInv, Newer, Sound, CopyLive
    <2> QED BY <1>1, <1>2, <1>3, <2>1, <2>6
<1>7. CASE FillCache(r)
    <2>1. /\ pc[r] = "fill" /\ cacheLock = r /\ cached' = built[r] /\ version' = version
          /\ Sound(built[r]) /\ Newer(built[r].version) /\ built[r].version <= version
        BY <1>7 DEF FillCache, LockInv, Holding, ReaderInv
    <2>2. CacheInv'
        BY <2>1 DEF CacheInv, Sound
    <2>3. \A q \in Readers \ {r} : pc[q] \notin Holding /\ pc'[q] = pc[q] /\ got'[q] = got[q]
        BY <1>7, <2>1 DEF LockInv, FillCache
    <2>4. ReaderInv'
        BY <1>7, <2>3 DEF ReaderInv, FillCache, Holding
    <2>5. built[r] # NoSet /\ got'[r] = built[r]
        BY <1>7, <2>1 DEF FillCache, Sound, LiveSet
    <2>6. GotInv'
        BY <2>1, <2>3, <2>5 DEF GotInv, Newer, Sound, LiveSet
    <2> QED BY <1>1, <1>2, <1>3, <2>2, <2>4, <2>6
<1> QED BY <1>4, <1>5, <1>6, <1>7 DEF Resolve

LEMMA IInvStep == IInv /\ [Next]_vars => IInv'
<1> SUFFICES ASSUME IInv, [Next]_vars PROVE IInv'
    OBVIOUS
<1>1. CASE UNCHANGED vars
    BY <1>1 DEF vars, IInv, TypeOK, ApplierInv, LockInv, CacheInv, ReaderInv, GotInv,
                Newer, Sound
<1> QED BY <1>1, CommitThreadStep, ResolveStep DEF Next

-----------------------------------------------------------------------------
\* The inductive invariant holds in every behaviour of the handle.
THEOREM Invariance == Spec => []IInv
BY InitIInv, IInvStep, PTL DEF Spec

\* Every variable keeps its type.
THEOREM TypeCorrect == Spec => []TypeOK
<1>1. IInv => TypeOK
    BY DEF IInv
<1> QED BY <1>1, Invariance, PTL

\* No snapshot's label is ahead of its contents.
THEOREM LabelsLag == Spec => []NeverLeads
<1>1. IInv => NeverLeads
    BY DEF IInv, CacheInv, GotInv, Sound, NeverLeads
<1> QED BY <1>1, Invariance, PTL

\* No snapshot shows half a statement.
THEOREM SnapshotsAreWhole == Spec => []WholeStatements
<1>1. IInv => WholeStatements
    BY DEF IInv, CacheInv, GotInv, Sound, WholeStatements
<1> QED BY <1>1, Invariance, PTL

\* A call sees whatever was published before it.
THEOREM ReadsAreCurrent == Spec => Current
<1>1. IInv /\ [Next]_vars => [\A r \in Readers : Returns(r) => got'[r].records >= want[r]]_vars
    <2> SUFFICES ASSUME IInv, Next, NEW r \in Readers, Returns(r)
                 PROVE  got'[r].records >= want[r]
        OBVIOUS
    <2> USE DEF IInv, TypeOK
    <2>1. Look(r) \/ Recheck(r) \/ FillCache(r)
        BY DEF Returns, Next, CommitThread, LockMeta, ChangeRow, LastRow, Bump, readerVars,
               Resolve, Call, Look, LockCache, Recheck, ReadVersion, CopyLive, FillCache
    <2>2. CASE Look(r) \/ Recheck(r)
        BY <2>2 DEF Returns, Look, Recheck, CacheInv, ReaderInv, Sound, LiveSet
    <2>3. CASE FillCache(r)
        BY <2>3 DEF FillCache, ReaderInv, Sound, LiveSet
    <2> QED BY <2>1, <2>2, <2>3
<1> QED BY <1>1, Invariance, PTL DEF Spec, Current

\* The sets a reader gets never go back.
THEOREM ReadsAreMonotone == Spec => Monotone
<1>1. IInv /\ [Next]_vars =>
         [\A r \in Readers : Returns(r) /\ got[r] # NoSet
             => got'[r].records >= got[r].records]_vars
    <2> SUFFICES ASSUME IInv, Next, NEW r \in Readers, Returns(r), got[r] # NoSet
                 PROVE  got'[r].records >= got[r].records
        OBVIOUS
    <2> USE DEF IInv, TypeOK
    <2>1. Look(r) \/ Recheck(r) \/ FillCache(r)
        BY DEF Returns, Next, CommitThread, LockMeta, ChangeRow, LastRow, Bump, readerVars,
               Resolve, Call, Look, LockCache, Recheck, ReadVersion, CopyLive, FillCache
    <2>2. Sound(got[r]) /\ cached # NoSet /\ (got[r] = cached \/ got[r].version < cached.version)
        BY DEF GotInv
    <2>3. CASE Look(r) \/ Recheck(r)
        <3>1. got'[r] = cached
            BY <2>3 DEF Returns, Look, Recheck
        <3> QED BY <2>2, <3>1 DEF CacheInv, Sound, LiveSet
    <2>4. CASE FillCache(r)
        <3>1. got'[r] = built[r] /\ Sound(built[r]) /\ cached.version < built[r].version
            BY <2>2, <2>4 DEF FillCache, ReaderInv, Newer
        <3> QED BY <2>2, <3>1 DEF Sound, LiveSet
    <2> QED BY <2>1, <2>3, <2>4
<1> QED BY <1>1, Invariance, PTL DEF Spec, Monotone

\* No version is materialized twice.
THEOREM BuiltOncePerVersion == Spec => OncePerVersion
<1>1. IInv /\ [Next]_vars =>
         [cached' # cached /\ cached # NoSet => cached'.version > cached.version]_vars
    <2> SUFFICES ASSUME IInv, Next, cached' # cached, cached # NoSet
                 PROVE  cached'.version > cached.version
        OBVIOUS
    <2> USE DEF IInv, TypeOK
    <2>1. PICK r \in Readers : FillCache(r)
        BY DEF Next, CommitThread, LockMeta, ChangeRow, LastRow, Bump, readerVars,
               Resolve, Call, Look, LockCache, Recheck, ReadVersion, CopyLive
    <2> QED BY <2>1 DEF FillCache, ReaderInv, Newer, Sound, CacheInv, LiveSet
<1> QED BY <1>1, Invariance, PTL DEF Spec, OncePerVersion
=============================================================================
