---------------------------- MODULE Stores_proofs ----------------------------
(***************************************************************************)
(* Theorems about Stores, for any finite set of collections, any keys and  *)
(* capacity, and a log of any length, with checkpoints that stop anywhere  *)
(* and crashes anywhere.                                                   *)
(*                                                                         *)
(* The argument: an ordinal is installed by at most one applied record and *)
(* retired only after it, so the rows alive after n records are those some *)
(* applied record up to n installs and none up to n retires (Alive), with  *)
(* no order to keep track of.  A store on disk holds what is alive at its  *)
(* own watermark.  While the log is replayed over a liveness that is newer *)
(* than the records, memory holds what is alive at the newer of the two    *)
(* points, and possibly rows that a record still to come retires; when the *)
(* replay has passed the newest watermark nothing is left of those.        *)
(***************************************************************************)
EXTENDS Stores, TLAPS, FiniteSetTheorems

Stored == [flat : [Ordinals -> Nat], count : Nat, live : SUBSET Ordinals,
           post : [Ordinals -> SUBSET Keys], tuple : [Ordinals -> Nat],
           flatLsn : Nat, metaLsn : Nat, tupleLsn : Nat]
Installs == UNION {[D -> Keys] : D \in SUBSET Ordinals}
Logged == [kind : {"insert", "delete", "update"}, coll : Collections, retire : SUBSET Ordinals,
           install : Installs, verdict : {"applied", "refused"}]

Running == pc \in {"idle", "apply", "checkpoint"}

\* A slot that is not empty names a record of the collection that fills it.
Filled(h, c, o, l) == l # 0 => l \in 1 .. Len(h) /\ h[l].coll = c /\ o \in Installed(h[l])
Placed(s, c) ==
    \A o \in Ordinals : Filled(hist, c, o, s.flat[o]) /\ Filled(hist, c, o, s.tuple[o])

Types ==
    /\ hist \in Seq(Logged) /\ base \in Nat
    /\ pc \in {"down", "replay", "idle", "apply", "checkpoint"}
    /\ applied \in Nat /\ step \in 0 .. 2 /\ pending \in Seq(Collections) /\ synced \in 0 .. 2
    /\ mem \in [Collections -> Stored] /\ disk \in [Collections -> Stored]
    /\ catalog \in Nat /\ floors \in [Collections -> Nat]
    /\ free \in [Collections -> SUBSET Ordinals] /\ seen \in [Collections -> SUBSET Ordinals]
    /\ truth \in [Collections -> SUBSET (Ordinals \X Nat)]
    /\ skewed \in SUBSET Collections

TypeOK == Types /\ \A c \in Collections : Placed(mem[c], c) /\ Placed(disk[c], c)

\* Where the commit thread may be, and how far.
ControlInv ==
    /\ pc # "apply" => step = 0
    /\ pc = "apply" => applied < Len(hist)
    /\ pc # "checkpoint" => pending = <<>> /\ synced = 0
    /\ pc = "checkpoint" => applied = Len(hist)
    /\ applied <= Len(hist) /\ catalog <= Len(hist) /\ base <= catalog
    /\ pc # "down" => base <= applied
    /\ Running => catalog <= applied

\* Watermarks: a store of a collection is synced before the next, and none
\* goes back.
Ordered(s, n) == s.tupleLsn <= s.metaLsn /\ s.metaLsn <= s.flatLsn /\ s.flatLsn <= n
LsnOf(c) ==
    /\ Ordered(disk[c], Len(hist)) /\ base <= disk[c].tupleLsn
    /\ pc # "down" =>
          /\ Ordered(mem[c], Len(hist))
          /\ disk[c].flatLsn <= mem[c].flatLsn /\ disk[c].metaLsn <= mem[c].metaLsn
          /\ disk[c].tupleLsn <= mem[c].tupleLsn /\ disk[c].count <= mem[c].count
          /\ \A l \in 1 .. applied : (hist[l].coll = c) => (l <= mem[c].tupleLsn)
    /\ Running => mem[c].flatLsn <= applied
    /\ pc = "replay" => floors[c] = disk[c].tupleLsn
LsnInv == \A c \in Collections : LsnOf(c)

\* What this checkpoint has synced of the collection it is at.
SyncInv ==
    pending # <<>> =>
        LET d == disk[Head(pending)]
            m == mem[Head(pending)]
        IN  /\ synced >= 1 => d.flat = m.flat /\ d.count = m.count /\ d.flatLsn = m.flatLsn
            /\ synced = 2 => d.live = m.live /\ d.post = m.post /\ d.metaLsn = m.metaLsn

\* Ordinals of this session: none is used twice, and none that was seen is
\* still to be written.
Waiting(c) == {l \in applied + 1 .. Len(hist) : hist[l].coll = c}
Fresh(c) ==
    /\ Running =>
          /\ mem[c].live \subseteq seen[c] /\ free[c] \cap seen[c] = {}
          /\ \A l \in Waiting(c) : Installed(hist[l]) \cap (free[c] \cup seen[c]) = {}
          /\ \A l, k \in Waiting(c) : k # l => Installed(hist[k]) \cap Installed(hist[l]) = {}
    /\ ~ Running => free[c] = {} /\ seen[c] = {}
SessionOf(c) ==
    /\ \A o \in disk[c].live : o < disk[c].count
    /\ pc # "down" => \A o \in mem[c].live : o < mem[c].count
    /\ Fresh(c)
SessionInv == \A c \in Collections : SessionOf(c)

\* How far the fan-out of the record at applied + 1 is.
StepInv ==
    step > 0 =>
        LET l == applied + 1
            r == hist[l]
        IN  /\ \A o \in Installed(r) : mem[r.coll].flat[o] = l /\ o < mem[r.coll].count
            /\ step = 2 => \A o \in Installed(r) : mem[r.coll].tuple[o] = l

Safe == TypeOK /\ ControlInv /\ LsnInv /\ SyncInv /\ SessionInv /\ StepInv


-----------------------------------------------------------------------------
(* Every non-empty set of naturals has a least element.                    *)
LEMMA LeastNatural ==
    ASSUME NEW T, T \subseteq Nat, T # {}
    PROVE  \E n \in T : \A m \in T : n <= m
<1>1. IsWellFoundedOn(OpToRel(<, Nat), Nat)
    BY NatLessThanWellFounded
<1>2. PICK n \in T : \A m \in T : ~(<<m, n>> \in OpToRel(<, Nat))
    BY <1>1, WFMin
<1>3. \A m \in T : ~(<<m, n>> \in {x \in Nat \X Nat : x[1] < x[2]})
    BY <1>2 DEF OpToRel
<1>4. \A m \in T : ~(m < n)
    BY <1>3
<1>5. \A m \in T : n <= m
    BY <1>4
<1> QED BY <1>5

LEMMA MinIsLeast ==
    ASSUME NEW T, T \subseteq Nat, T # {}
    PROVE  Min(T) \in T /\ \A m \in T : Min(T) <= m
BY LeastNatural DEF Min

LEMMA MaxIsGreatest ==
    ASSUME NEW T, T \subseteq Nat, T # {}, NEW b \in Nat, \A m \in T : m <= b
    PROVE  Max(T) \in T /\ \A m \in T : m <= Max(T)
<1> DEFINE B == {n \in Nat : \A m \in T : m <= n}
<1>1. B \subseteq Nat /\ b \in B
    OBVIOUS
<1>2. PICK n \in B : \A m \in B : n <= m
    BY <1>1, LeastNatural
<1>3. ASSUME n \notin T PROVE FALSE
    <2>1. PICK t \in T : TRUE
        OBVIOUS
    <2>2. n \in Nat /\ t \in Nat /\ t <= n /\ t # n
        BY <1>2, <1>3, <2>1
    <2>3. n - 1 \in Nat
        BY <2>2
    <2>4. \A m \in T : m <= n - 1
        BY <1>2, <1>3
    <2>5. n - 1 \in B
        BY <2>3, <2>4
    <2> QED BY <1>2, <2>2, <2>5
<1>4. n \in T /\ \A m \in T : n >= m
    BY <1>2, <1>3
<1>5. Max(T) \in T /\ \A m \in T : Max(T) >= m
    BY <1>4 DEF Max
<1> QED BY <1>5

Later(i, j) == IF i > j THEN i ELSE j

LEMMA MaxOfTwo ==
    ASSUME NEW i \in Nat, NEW j \in Nat
    PROVE  Max({i, j}) = Later(i, j)
<1>1. Max({i, j}) \in {i, j} /\ \A m \in {i, j} : m <= Max({i, j})
    BY MaxIsGreatest, Later(i, j) \in Nat DEF Later
<1> QED BY <1>1 DEF Later

LEMMA OrdinalsAreNaturals ==
    Ordinals \subseteq Nat /\ IsFiniteSet(Ordinals) /\ \A o \in Ordinals : o < Capacity
BY StoresAssumption, FS_Interval DEF Ordinals

LEMMA InstallsType ==
    ASSUME NEW i \in Installs
    PROVE  DOMAIN i \subseteq Ordinals /\ i \in [DOMAIN i -> Keys]
BY DEF Installs

(* Places number the elements of a finite set of naturals from 0 on.       *)
LEMMA Places ==
    ASSUME NEW S, S \subseteq Nat, IsFiniteSet(S),
           NEW i \in 0 .. Cardinality(S) - 1
    PROVE  \E x \in S : Cardinality({y \in S : y < x}) = i
<1> DEFINE n == Cardinality(S)
           U(o) == {y \in S : y < o}
           f == [o \in S |-> Cardinality(U(o)) + 1]
<1>1. n \in Nat
    BY FS_CardinalityType
<1>2. ASSUME NEW o \in S
      PROVE  /\ IsFiniteSet(U(o)) /\ Cardinality(U(o)) \in Nat /\ Cardinality(U(o)) + 1 \in 1 .. n
    <2>1. IsFiniteSet(U(o)) /\ Cardinality(U(o)) <= n /\ (Cardinality(U(o)) = n <=> U(o) = S)
        BY FS_Subset
    <2>2. Cardinality(U(o)) \in Nat
        BY <2>1, FS_CardinalityType
    <2>3. U(o) # S
        <3>1. o \in S /\ o \notin U(o)
            OBVIOUS
        <3> QED BY <3>1
    <2> HIDE DEF U, n
    <2> QED BY <1>1, <2>1, <2>2, <2>3
<1>3. ASSUME NEW o \in S, NEW p \in S, o < p
      PROVE  Cardinality(U(o)) < Cardinality(U(p))
    <2>1. U(o) \in SUBSET U(p) /\ U(o) # U(p)
        <3>1. o \in Nat /\ p \in Nat /\ \A x \in S : x \in Nat
            OBVIOUS
        <3>2. o \in U(p) /\ o \notin U(o)
            BY <1>3, <3>1
        <3>3. \A x \in U(o) : x \in U(p)
            BY <1>3, <3>1
        <3> QED BY <3>2, <3>3
    <2>2. IsFiniteSet(U(p)) /\ Cardinality(U(p)) \in Nat /\ Cardinality(U(o)) \in Nat
        BY <1>2
    <2> HIDE DEF U
    <2>3. Cardinality(U(o)) <= Cardinality(U(p)) /\ Cardinality(U(o)) # Cardinality(U(p))
        BY <2>1, <2>2, FS_Subset
    <2> QED BY <2>2, <2>3
<1>4. ASSUME NEW o \in S, NEW p \in S, Cardinality(U(o)) = Cardinality(U(p)) PROVE o = p
    <2>1. o \in Nat /\ p \in Nat /\ Cardinality(U(o)) \in Nat
        BY <1>2
    <2> HIDE DEF U
    <2>2. ~(o < p) /\ ~(p < o)
        BY <1>3, <1>4, <2>1
    <2> QED BY <2>1, <2>2
<1> HIDE DEF f, n, U
<1>5. f \in [S -> 1 .. n] /\ \A o \in S : f[o] = Cardinality(U(o)) + 1
    BY <1>2 DEF f
<1>6. f \in Injection(S, 1 .. n)
    BY <1>2, <1>4, <1>5 DEF Injection, IsInjective
<1>7. IsFiniteSet(1 .. n) /\ Cardinality(1 .. n) = n
    BY <1>1, FS_Interval
<1>8. f \in Surjection(S, 1 .. n)
    BY <1>6, <1>7, FS_Injection DEF n
<1>9. i + 1 \in 1 .. n
    BY <1>1 DEF n
<1>10. \E o \in S : f[o] = i + 1
    BY <1>8, <1>9 DEF Surjection
<1>11. PICK o \in S : Cardinality(U(o)) + 1 = i + 1
    BY <1>5, <1>10
<1>12. Cardinality(U(o)) = i
    BY <1>2, <1>11
<1> QED BY <1>12 DEF U

-----------------------------------------------------------------------------
(* What each store's operation does, field by field.                       *)
LEMMA StoredFields ==
    ASSUME NEW s \in Stored
    PROVE  /\ s.flat \in [Ordinals -> Nat] /\ s.count \in Nat /\ s.live \in SUBSET Ordinals
           /\ s.post \in [Ordinals -> SUBSET Keys] /\ s.tuple \in [Ordinals -> Nat]
           /\ s.flatLsn \in Nat /\ s.metaLsn \in Nat /\ s.tupleLsn \in Nat
BY DEF Stored

LEMMA LoggedFields ==
    ASSUME NEW r \in Logged
    PROVE  /\ r.kind \in {"insert", "delete", "update"} /\ r.coll \in Collections
           /\ r.retire \in SUBSET Ordinals /\ r.install \in Installs
           /\ Installed(r) \in SUBSET Ordinals /\ \A o \in Installed(r) : r.install[o] \in Keys
           /\ r.verdict \in {"applied", "refused"}
<1>1. r.install \in Installs
    BY DEF Logged
<1> QED BY <1>1, InstallsType DEF Logged, Installed

LEMMA WriteAtFields ==
    ASSUME NEW s \in Stored, NEW r \in Logged, NEW l \in Nat, NEW t, t = WriteAt(s, r, l)
    PROVE  /\ t \in Stored
           /\ \A o \in Ordinals : t.flat[o] = IF o \in Installed(r) THEN l ELSE s.flat[o]
           /\ s.count <= t.count /\ \A o \in Installed(r) : o < t.count
           /\ t.live = s.live /\ t.post = s.post /\ t.tuple = s.tuple
           /\ t.flatLsn = s.flatLsn /\ t.metaLsn = s.metaLsn /\ t.tupleLsn = s.tupleLsn
<1> DEFINE I == Installed(r)
           C == {s.count} \cup {o + 1 : o \in I}
           b == s.count + Capacity
<1>1. /\ I \in SUBSET Ordinals /\ \A o \in I : o \in Nat /\ o < Capacity
      /\ s.count \in Nat /\ Capacity \in Nat
    BY LoggedFields, OrdinalsAreNaturals, StoredFields, StoresAssumption
<1>2. C \subseteq Nat /\ C # {} /\ b \in Nat
    BY <1>1
<1>3. \A m \in C : m <= b
    <2>1. \A o \in I : o + 1 <= b
        BY <1>1
    <2> QED BY <1>1, <2>1
<1>4. Max(C) \in C /\ \A m \in C : m <= Max(C)
    BY <1>2, <1>3, MaxIsGreatest
<1> DEFINE f == [o \in Ordinals |-> IF o \in I THEN l ELSE s.flat[o]]
           n == Max(C)
<1>5. f \in [Ordinals -> Nat]
    BY StoredFields
<1>6. n \in Nat /\ s.count <= n /\ \A o \in I : o + 1 <= n
    BY <1>2, <1>4
<1>7. t = [s EXCEPT !.flat = f, !.count = n]
    BY DEF WriteAt
<1> HIDE DEF f, n
<1>8. /\ t \in Stored /\ t.flat = f /\ t.count = n
      /\ t.live = s.live /\ t.post = s.post /\ t.tuple = s.tuple
      /\ t.flatLsn = s.flatLsn /\ t.metaLsn = s.metaLsn /\ t.tupleLsn = s.tupleLsn
    BY <1>5, <1>6, <1>7 DEF Stored
<1>9. \A o \in I : o < n
    BY <1>1, <1>6
<1> QED BY <1>6, <1>8, <1>9 DEF f

LEMMA WriteRowFields ==
    ASSUME NEW s \in Stored, NEW r \in Logged, NEW l \in Nat, NEW t, t = WriteRow(s, r, l)
    PROVE  /\ t \in Stored
           /\ \A o \in Ordinals : t.tuple[o] = IF o \in Installed(r) THEN l ELSE s.tuple[o]
           /\ t.flat = s.flat /\ t.count = s.count /\ t.live = s.live /\ t.post = s.post
           /\ t.flatLsn = s.flatLsn /\ t.metaLsn = s.metaLsn /\ t.tupleLsn = s.tupleLsn
<1> DEFINE f == [o \in Ordinals |-> IF o \in Installed(r) THEN l ELSE s.tuple[o]]
<1>1. f \in [Ordinals -> Nat]
    BY StoredFields
<1>2. t = [s EXCEPT !.tuple = f]
    BY DEF WriteRow
<1> HIDE DEF f
<1>3. /\ t \in Stored /\ t.tuple = f
      /\ t.flat = s.flat /\ t.count = s.count /\ t.live = s.live /\ t.post = s.post
      /\ t.flatLsn = s.flatLsn /\ t.metaLsn = s.metaLsn /\ t.tupleLsn = s.tupleLsn
    BY <1>1, <1>2 DEF Stored
<1> QED BY <1>3 DEF f

(* The key postings with the keys of a record added.                       *)
Reposted(post, r) ==
    [o \in Ordinals |-> IF o \in Installed(r) THEN post[o] \cup {r.install[o]} ELSE post[o]]

LEMMA ApplyMutationFields ==
    ASSUME NEW s \in Stored, NEW r \in Logged, NEW t, t = ApplyMutation(s, r)
    PROVE  /\ t \in Stored
           /\ t.live = (s.live \cup Installed(r)) \ r.retire /\ t.post = Reposted(s.post, r)
           /\ t.flat = s.flat /\ t.count = s.count /\ t.tuple = s.tuple
           /\ t.flatLsn = s.flatLsn /\ t.metaLsn = s.metaLsn /\ t.tupleLsn = s.tupleLsn
<1> DEFINE f == Reposted(s.post, r)
           v == (s.live \cup Installed(r)) \ r.retire
<1>1. f \in [Ordinals -> SUBSET Keys] /\ v \in SUBSET Ordinals
    BY StoredFields, LoggedFields DEF Reposted
<1>2. t = [s EXCEPT !.live = v, !.post = f]
    BY DEF ApplyMutation, Reposted
<1> HIDE DEF f, v
<1>3. /\ t \in Stored /\ t.live = v /\ t.post = f
      /\ t.flat = s.flat /\ t.count = s.count /\ t.tuple = s.tuple
      /\ t.flatLsn = s.flatLsn /\ t.metaLsn = s.metaLsn /\ t.tupleLsn = s.tupleLsn
    BY <1>1, <1>2 DEF Stored
<1> QED BY <1>3 DEF f, v

LEMMA AdvanceFields ==
    ASSUME NEW s \in Stored, NEW l \in Nat, NEW t, t = Advance(s, l)
    PROVE  /\ t \in Stored
           /\ t.flat = s.flat /\ t.count = s.count /\ t.live = s.live /\ t.post = s.post
           /\ t.tuple = s.tuple
           /\ t.flatLsn = Later(s.flatLsn, l) /\ t.metaLsn = Later(s.metaLsn, l)
           /\ t.tupleLsn = Later(s.tupleLsn, l)
<1>1. s.flatLsn \in Nat /\ s.metaLsn \in Nat /\ s.tupleLsn \in Nat
    BY StoredFields
<1>2. \A i \in Nat : Max({i, l}) = Later(i, l) /\ Later(i, l) \in Nat
    BY MaxOfTwo DEF Later
<1> DEFINE f == Later(s.flatLsn, l)
           m == Later(s.metaLsn, l)
           u == Later(s.tupleLsn, l)
<1>3. t = [s EXCEPT !.flatLsn = f, !.metaLsn = m, !.tupleLsn = u]
    BY <1>1, <1>2 DEF Advance
<1>4. f \in Nat /\ m \in Nat /\ u \in Nat
    BY <1>1, <1>2
<1> HIDE DEF f, m, u
<1>5. /\ t \in Stored /\ t.flatLsn = f /\ t.metaLsn = m /\ t.tupleLsn = u
      /\ t.flat = s.flat /\ t.count = s.count /\ t.live = s.live /\ t.post = s.post
      /\ t.tuple = s.tuple
    BY <1>3, <1>4 DEF Stored
<1> QED BY <1>5 DEF f, m, u

LEMMA FanOutSteps ==
    /\ Len(FanOut) = 3
    /\ \A m, r, l : /\ Absorb(m, FanOut[1], r, l) = WriteAt(m, r, l)
                    /\ Absorb(m, FanOut[2], r, l) = WriteRow(m, r, l)
                    /\ Absorb(m, FanOut[3], r, l) = ApplyMutation(m, r)
BY DEF FanOut, Absorb

(* A whole fan-out: all of the record, or nothing but its number.          *)
LEMMA FoldFields ==
    ASSUME NEW s \in Stored, NEW r \in Logged, NEW l \in Nat, NEW t, t = Fold(s, r, l)
    PROVE  /\ t \in Stored /\ s.count <= t.count
           /\ t.flatLsn = Later(s.flatLsn, l) /\ t.metaLsn = Later(s.metaLsn, l)
           /\ t.tupleLsn = Later(s.tupleLsn, l)
           /\ Verdict(s, r) = "refused" =>
                 /\ t.flat = s.flat /\ t.count = s.count /\ t.live = s.live /\ t.post = s.post
                 /\ t.tuple = s.tuple
           /\ Verdict(s, r) = "applied" =>
                 /\ t.live = (s.live \cup Installed(r)) \ r.retire /\ t.post = Reposted(s.post, r)
                 /\ \A o \in Installed(r) : o < t.count
                 /\ \A o \in Ordinals :
                       /\ t.flat[o] = IF o \in Installed(r) THEN l ELSE s.flat[o]
                       /\ t.tuple[o] = IF o \in Installed(r) THEN l ELSE s.tuple[o]
<1>1. s.count \in Nat
    BY StoredFields
<1>2. CASE Verdict(s, r) = "refused"
    <2>1. t = Advance(s, l)
        BY <1>2 DEF Fold
    <2> QED BY <1>1, <1>2, <2>1, AdvanceFields
<1>3. CASE Verdict(s, r) # "refused"
    <2> DEFINE u == WriteAt(s, r, l)
               v == WriteRow(u, r, l)
    <2>0. PICK w : w = ApplyMutation(v, r)
        OBVIOUS
    <2>1. t = Advance(w, l)
        BY <1>3, <2>0, FanOutSteps DEF Fold
    <2>2. /\ u \in Stored
          /\ \A o \in Ordinals : u.flat[o] = IF o \in Installed(r) THEN l ELSE s.flat[o]
          /\ s.count <= u.count /\ \A o \in Installed(r) : o < u.count
          /\ u.live = s.live /\ u.post = s.post /\ u.tuple = s.tuple
          /\ u.flatLsn = s.flatLsn /\ u.metaLsn = s.metaLsn /\ u.tupleLsn = s.tupleLsn
        BY WriteAtFields
    <2> HIDE DEF u
    <2>3. /\ v \in Stored
          /\ \A o \in Ordinals : v.tuple[o] = IF o \in Installed(r) THEN l ELSE u.tuple[o]
          /\ v.flat = u.flat /\ v.count = u.count /\ v.live = u.live /\ v.post = u.post
          /\ v.flatLsn = u.flatLsn /\ v.metaLsn = u.metaLsn /\ v.tupleLsn = u.tupleLsn
        BY <2>2, WriteRowFields
    <2> HIDE DEF v
    <2>4. /\ w \in Stored
          /\ w.live = (v.live \cup Installed(r)) \ r.retire /\ w.post = Reposted(v.post, r)
          /\ w.flat = v.flat /\ w.count = v.count /\ w.tuple = v.tuple
          /\ w.flatLsn = v.flatLsn /\ w.metaLsn = v.metaLsn /\ w.tupleLsn = v.tupleLsn
        BY <2>0, <2>3, ApplyMutationFields
    <2>5. /\ t \in Stored
          /\ t.flat = w.flat /\ t.count = w.count /\ t.live = w.live /\ t.post = w.post
          /\ t.tuple = w.tuple
          /\ t.flatLsn = Later(w.flatLsn, l) /\ t.metaLsn = Later(w.metaLsn, l)
          /\ t.tupleLsn = Later(w.tupleLsn, l)
        BY <2>1, <2>4, AdvanceFields
    <2> QED BY <1>3, <2>2, <2>3, <2>4, <2>5
<1> QED BY <1>2, <1>3

LEMMA MakeDurableFields ==
    ASSUME NEW d \in Stored, NEW m \in Stored, NEW n \in 0 .. 2,
           NEW t, t = MakeDurable(d, SyncOrder[n + 1], m)
    PROVE  /\ t \in Stored
           /\ IF n = 0 THEN t.flat = m.flat /\ t.count = m.count /\ t.flatLsn = m.flatLsn
                       ELSE t.flat = d.flat /\ t.count = d.count /\ t.flatLsn = d.flatLsn
           /\ IF n = 1 THEN t.live = m.live /\ t.post = m.post /\ t.metaLsn = m.metaLsn
                       ELSE t.live = d.live /\ t.post = d.post /\ t.metaLsn = d.metaLsn
           /\ IF n = 2 THEN t.tuple = m.tuple /\ t.tupleLsn = m.tupleLsn
                       ELSE t.tuple = d.tuple /\ t.tupleLsn = d.tupleLsn
<1>1. CASE n = 0
    <2>1. PICK a, b, c : a = m.flat /\ b = m.count /\ c = m.flatLsn
        OBVIOUS
    <2>2. t = [d EXCEPT !.flat = a, !.count = b, !.flatLsn = c]
        BY <1>1, <2>1 DEF MakeDurable, SyncOrder
    <2>3. /\ t \in Stored /\ t.flat = a /\ t.count = b /\ t.flatLsn = c
          /\ t.live = d.live /\ t.post = d.post /\ t.metaLsn = d.metaLsn /\ t.tuple = d.tuple /\ t.tupleLsn = d.tupleLsn
        BY <2>1, <2>2, StoredFields DEF Stored
    <2> QED BY <1>1, <2>1, <2>3
<1>2. CASE n = 1
    <2>1. PICK a, b, c : a = m.live /\ b = m.post /\ c = m.metaLsn
        OBVIOUS
    <2>2. t = [d EXCEPT !.live = a, !.post = b, !.metaLsn = c]
        BY <1>2, <2>1 DEF MakeDurable, SyncOrder
    <2>3. /\ t \in Stored /\ t.live = a /\ t.post = b /\ t.metaLsn = c
          /\ t.flat = d.flat /\ t.count = d.count /\ t.flatLsn = d.flatLsn /\ t.tuple = d.tuple /\ t.tupleLsn = d.tupleLsn
        BY <2>1, <2>2, StoredFields DEF Stored
    <2> QED BY <1>2, <2>1, <2>3
<1>3. CASE n = 2
    <2>1. PICK a, b : a = m.tuple /\ b = m.tupleLsn
        OBVIOUS
    <2>2. t = [d EXCEPT !.tuple = a, !.tupleLsn = b]
        BY <1>3, <2>1 DEF MakeDurable, SyncOrder
    <2>3. /\ t \in Stored /\ t.tuple = a /\ t.tupleLsn = b
          /\ t.flat = d.flat /\ t.count = d.count /\ t.flatLsn = d.flatLsn /\ t.live = d.live /\ t.post = d.post /\ t.metaLsn = d.metaLsn
        BY <2>1, <2>2, StoredFields DEF Stored
    <2> QED BY <1>3, <2>1, <2>3
<1> QED BY <1>1, <1>2, <1>3

(* An update copies each of its rows once.                                 *)
LEMMA CopiesInstall ==
    ASSUME TypeOK, NEW c \in Collections, NEW R \in SUBSET Ordinals,
           NEW first \in Ordinals, \A o \in R : mem[c].tuple[o] # 0,
           first .. first + Cardinality(R) - 1 \subseteq Ordinals
    PROVE  /\ Copies(c, R, first) \in Installs
           /\ DOMAIN Copies(c, R, first) = first .. first + Cardinality(R) - 1
           /\ \E g \in [first .. first + Cardinality(R) - 1 -> R] :
                 /\ \A o, p \in first .. first + Cardinality(R) - 1 : g[o] = g[p] => o = p
                 /\ \A o \in first .. first + Cardinality(R) - 1 :
                       Copies(c, R, first)[o] = KeyAt(mem[c].tuple[g[o]], g[o])
<1> DEFINE n == Cardinality(R)
           D == first .. first + n - 1
           Below(x) == Cardinality({y \in R : y < x})
           g == [o \in D |-> CHOOSE x \in R : Below(x) = o - first]
           w == [o \in D |-> KeyAt(mem[c].tuple[g[o]], g[o])]
<1>1. R \subseteq Nat /\ IsFiniteSet(R) /\ first \in Nat
    BY OrdinalsAreNaturals, FS_Subset
<1>2. n \in Nat
    BY <1>1, FS_CardinalityType
<1>3. ASSUME NEW o \in D PROVE g[o] \in R /\ Below(g[o]) = o - first
    <2>1. o - first \in 0 .. n - 1
        BY <1>1, <1>2
    <2>2. \E x \in R : Below(x) = o - first
        BY <1>1, <2>1, Places
    <2> HIDE DEF Below
    <2> QED BY <2>2
<1>4. g \in [D -> R]
    BY <1>3
<1>5. ASSUME NEW o \in D, NEW p \in D, g[o] = g[p] PROVE o = p
    <2> HIDE DEF g, Below
    <2>1. o - first = p - first
        BY <1>3, <1>5
    <2> QED BY <1>1, <1>2, <2>1
<1>6. Copies(c, R, first) = w
    BY DEF Copies
<1>7. ASSUME NEW o \in D PROVE w[o] \in Keys
    <2> DEFINE x == g[o]
               l == mem[c].tuple[x]
    <2>1. x \in R /\ x \in Ordinals
        BY <1>3
    <2> HIDE DEF g
    <2>2. w[o] = KeyAt(l, x)
        OBVIOUS
    <2> HIDE DEF x, w
    <2>3. l \in 1 .. Len(hist) /\ x \in Installed(hist[l]) /\ hist[l] \in Logged
        BY <2>1 DEF TypeOK, Types, Placed, Filled
    <2> HIDE DEF l
    <2> QED BY <2>2, <2>3, LoggedFields DEF KeyAt
<1>8. D \in SUBSET Ordinals
    OBVIOUS
<1> HIDE DEF g, n
<1>9. w \in [D -> Keys] /\ DOMAIN w = D /\ \A o \in D : w[o] = KeyAt(mem[c].tuple[g[o]], g[o])
    BY <1>7
<1>10. w \in Installs
    BY <1>8, <1>9 DEF Installs
<1> HIDE DEF w, D
<1>11. \E h \in [D -> R] : /\ \A o, p \in D : h[o] = h[p] => o = p
                           /\ \A o \in D : w[o] = KeyAt(mem[c].tuple[h[o]], h[o])
    BY <1>4, <1>5, <1>9
<1> QED BY <1>6, <1>9, <1>10, <1>11 DEF D, n

(* What a statement adds to the log, and to the bookkeeping of the session.*)
Recorded(e) ==
    LET c == e.coll
    IN  /\ e \in Logged /\ pc = "idle" /\ hist' = Append(hist, e)
        /\ e.verdict = IF Refused(TrueLive(c), TruePosts(c), e) THEN "refused" ELSE "applied"
        /\ truth' = [truth EXCEPT ![c] =
                        IF e.verdict = "refused" THEN @
                        ELSE {p \in @ \cup (Installed(e) \X {Len(hist) + 1}) : p[1] \notin e.retire}]
        /\ free' = [free EXCEPT ![c] = @ \ Installed(e)]
        /\ e.retire \subseteq seen[c] /\ Installed(e) \subseteq free[c]
        /\ e.kind = "insert" => e.retire = {}
        /\ e.kind = "insert" => \A o, p \in Installed(e) : o = p
        /\ e.kind = "delete" => Installed(e) = {}
        /\ e.kind = "update" =>
              /\ e.retire # {} /\ \A o \in e.retire : mem[c].tuple[o] # 0
              /\ \E g \in [Installed(e) -> e.retire] :
                    /\ \A o, p \in Installed(e) : g[o] = g[p] => o = p
                    /\ \A o \in Installed(e) :
                          e.install[o] = KeyAt(mem[c].tuple[g[o]], g[o])
        /\ UNCHANGED <<base, pc, applied, step, pending, synced, mem, disk, catalog,
                       floors, seen, skewed>>

(* The record r, as Commit logs it. *)
Judged(r) ==
    [kind |-> r.kind, coll |-> r.coll, retire |-> r.retire, install |-> r.install,
     verdict |-> IF Refused(TrueLive(r.coll), TruePosts(r.coll), r) THEN "refused" ELSE "applied"]

(* How a record changes the log, the bookkeeping and nothing else.          *)
Logs(e) ==
    /\ e.verdict = IF Refused(TrueLive(e.coll), TruePosts(e.coll), e) THEN "refused" ELSE "applied"
    /\ pc = "idle" /\ hist' = Append(hist, e)
    /\ truth' = [truth EXCEPT ![e.coll] =
                    IF e.verdict = "refused" THEN @
                    ELSE {p \in @ \cup (Installed(e) \X {Len(hist) + 1}) : p[1] \notin e.retire}]
    /\ free' = [free EXCEPT ![e.coll] = @ \ Installed(e)]
    /\ UNCHANGED <<base, pc, applied, step, pending, synced, mem, disk, catalog,
                   floors, seen, skewed>>

LEMMA CommitRecords ==
    ASSUME NEW r, Commit(r), NEW e, e = Judged(r)
    PROVE  /\ e.kind = r.kind /\ e.coll = r.coll /\ e.retire = r.retire /\ e.install = r.install
           /\ e.verdict \in {"applied", "refused"}
           /\ Installed(e) = Installed(r)
           /\ Logs(e)
<1>1. /\ e.kind = r.kind /\ e.coll = r.coll /\ e.retire = r.retire /\ e.install = r.install
      /\ e.verdict = IF Refused(TrueLive(r.coll), TruePosts(r.coll), r) THEN "refused" ELSE "applied"
    BY DEF Judged
<1>2. Installed(e) = Installed(r)
    BY <1>1 DEF Installed
<1>3. \A live, post : Refused(live, post, e) <=> Refused(live, post, r)
    BY <1>1, <1>2 DEF Refused, DuplicateKey, IsStale
<1>4. /\ pc = "idle" /\ hist' = Append(hist, e)
      /\ UNCHANGED <<base, pc, applied, step, pending, synced, mem, disk, catalog,
                     floors, seen, skewed>>
      /\ free' = [free EXCEPT ![r.coll] = @ \ Installed(r)]
    BY DEF Commit, Judged
<1>5. truth' = [truth EXCEPT ![e.coll] =
                   IF e.verdict = "refused" THEN @
                   ELSE {p \in @ \cup (Installed(e) \X {Len(hist) + 1}) : p[1] \notin e.retire}]
    <2>1. CASE Refused(TrueLive(r.coll), TruePosts(r.coll), r)
        BY <1>1, <2>1 DEF Commit
    <2>2. CASE ~ Refused(TrueLive(r.coll), TruePosts(r.coll), r)
        BY <1>1, <1>2, <2>2 DEF Commit
    <2> QED BY <2>1, <2>2
<1>6. Logs(e)
    BY <1>1, <1>2, <1>3, <1>4, <1>5 DEF Logs
<1> QED BY <1>1, <1>2, <1>6

LEMMA StatementRecords ==
    ASSUME TypeOK, Statement
    PROVE  \E e : Recorded(e)
<1>1. /\ seen \in [Collections -> SUBSET Ordinals] /\ free \in [Collections -> SUBSET Ordinals]
    BY DEF TypeOK, Types
<1>2. ASSUME NEW c \in Collections, NEW o \in Ordinals, NEW k \in Keys, Insert(c, o, k)
      PROVE  \E e : Recorded(e)
    <2> DEFINE r == InsertRecord(c, o, k)
               i == [x \in {o} |-> k]
    <2>1. PICK e : e = Judged(r)
        OBVIOUS
    <2>2. /\ r.kind = "insert" /\ r.coll = c /\ r.retire = {} /\ r.install = i /\ Installed(r) = {o}
        BY DEF InsertRecord, Installed
    <2>3. i \in Installs
        <3>1. i \in [{o} -> Keys]
            OBVIOUS
        <3> QED BY <3>1 DEF Installs
    <2>4. o \in free[c] /\ Commit(r)
        BY <1>2 DEF Insert
    <2> HIDE DEF r, i
    <2>5. e \in Logged
        BY <2>1, <2>2, <2>3 DEF Judged, Logged
    <2>6. Installed(e) = {o}
        BY <2>1, <2>2, <2>4, CommitRecords
    <2>7. \A x, y \in Installed(e) : x = y
        BY <2>6
    <2> QED BY <2>1, <2>2, <2>4, <2>5, <2>6, <2>7, CommitRecords DEF Recorded, Logs
<1>3. ASSUME NEW c \in Collections, NEW R \in SUBSET Ordinals, Delete(c, R)
      PROVE  \E e : Recorded(e)
    <2> DEFINE r == DeleteRecord(c, R)
               i == [x \in {} |-> 0]
    <2>1. PICK e : e = Judged(r)
        OBVIOUS
    <2>2. /\ r.kind = "delete" /\ r.coll = c /\ r.retire = R /\ r.install = i /\ Installed(r) = {}
        BY DEF DeleteRecord, Installed
    <2>3. i \in Installs
        <3>1. i \in [{} -> Keys]
            OBVIOUS
        <3> QED BY <3>1 DEF Installs
    <2>4. R \subseteq seen[c] /\ Commit(r)
        BY <1>3 DEF Delete
    <2> HIDE DEF r, i
    <2>5. e \in Logged
        BY <2>1, <2>2, <2>3 DEF Judged, Logged
    <2> QED BY <2>1, <2>2, <2>4, <2>5, CommitRecords DEF Recorded, Logs
<1>4. ASSUME NEW c \in Collections, NEW R \in SUBSET Ordinals, NEW first \in Ordinals,
             Update(c, R, first)
      PROVE  \E e : Recorded(e)
    <2> DEFINE i == Copies(c, R, first)
               D == first .. first + Cardinality(R) - 1
    <2>0. PICK r : r = UpdateRecord(c, R, Copies(c, R, first))
        OBVIOUS
    <2>1. PICK e : e = Judged(r)
        OBVIOUS
    <2>2. /\ r.kind = "update" /\ r.coll = c /\ r.retire = R /\ r.install = i
          /\ Installed(r) = DOMAIN i
        BY <2>0 DEF UpdateRecord, Installed
    <2>3. /\ R # {} /\ R \subseteq seen[c] /\ \A o \in R : mem[c].tuple[o] # 0
          /\ D \subseteq free[c] /\ D \subseteq Ordinals /\ Commit(r)
        BY <1>1, <1>4, <2>0 DEF Update
    <2>4. /\ i \in Installs /\ DOMAIN i = D
          /\ \E g \in [D -> R] : /\ \A o, p \in D : g[o] = g[p] => o = p
                                 /\ \A o \in D : i[o] = KeyAt(mem[c].tuple[g[o]], g[o])
        BY <2>3, CopiesInstall
    <2> HIDE DEF i, D
    <2>5. e \in Logged
        BY <2>1, <2>2, <2>4 DEF Judged, Logged
    <2>8. /\ e.kind = r.kind /\ e.coll = r.coll /\ e.retire = r.retire /\ e.install = r.install
          /\ Installed(e) = Installed(r)
        BY <2>1, <2>3, CommitRecords
    <2>6. Installed(e) = D /\ e.retire = R /\ e.install = i /\ e.coll = c /\ e.kind = "update"
        BY <2>2, <2>4, <2>8
    <2>7. \E g \in [Installed(e) -> e.retire] :
             /\ \A o, p \in Installed(e) : g[o] = g[p] => o = p
             /\ \A o \in Installed(e) : e.install[o] = KeyAt(mem[c].tuple[g[o]], g[o])
        BY <2>4, <2>6
    <2>10. Commit(r)
        BY <2>3
    <2>9. Logs(e)
        BY ONLY <2>1, <2>10, CommitRecords
    <2> QED BY <2>3, <2>5, <2>6, <2>7, <2>9 DEF Recorded, Logs
<1> QED BY <1>2, <1>3, <1>4 DEF Statement

-----------------------------------------------------------------------------
(* The steps that change a store, as facts about its fields.               *)
LEMMA EmptyFields ==
    /\ EmptyStores \in Stored /\ EmptyStores.count = 0 /\ EmptyStores.live = {}
    /\ \A o \in Ordinals : /\ EmptyStores.flat[o] = 0 /\ EmptyStores.tuple[o] = 0
                           /\ EmptyStores.post[o] = {}
    /\ EmptyStores.flatLsn = 0 /\ EmptyStores.metaLsn = 0 /\ EmptyStores.tupleLsn = 0
<1>1. [o \in Ordinals |-> 0] \in [Ordinals -> Nat] /\ [o \in Ordinals |-> {}] \in [Ordinals -> SUBSET Keys]
    OBVIOUS
<1> QED BY <1>1 DEF EmptyStores, Stored

(* Record r at l reaches the next store: m before, n after.                *)
Reached(l, r, m, n) ==
    /\ pc = "apply" /\ l = applied + 1 /\ l \in 1 .. Len(hist) /\ r = hist[l] /\ r \in Logged
    /\ m = mem[r.coll] /\ m \in Stored /\ n \in Stored
    /\ mem' = [mem EXCEPT ![r.coll] = n]
    /\ seen' = [seen EXCEPT ![r.coll] = @ \cup n.live]
    /\ \A o \in Ordinals :
          /\ n.flat[o] = IF step = 0 /\ o \in Installed(r) THEN l ELSE m.flat[o]
          /\ n.tuple[o] = IF step = 1 /\ o \in Installed(r) THEN l ELSE m.tuple[o]
    /\ m.count <= n.count
    /\ IF step = 0 THEN \A o \in Installed(r) : o < n.count ELSE n.count = m.count
    /\ step = 0 => Verdict(m, r) = "applied"
    /\ step < 2 => /\ n.live = m.live /\ n.post = m.post
                   /\ n.flatLsn = m.flatLsn /\ n.metaLsn = m.metaLsn /\ n.tupleLsn = m.tupleLsn
                   /\ step' = step + 1 /\ UNCHANGED <<applied, pc>>
    /\ step = 2 => /\ n.live = (m.live \cup Installed(r)) \ r.retire
                   /\ n.post = Reposted(m.post, r)
                   /\ n.flatLsn = Later(m.flatLsn, l) /\ n.metaLsn = Later(m.metaLsn, l)
                   /\ n.tupleLsn = Later(m.tupleLsn, l)
                   /\ ApplyDone(l)
    /\ UNCHANGED <<hist, base, pending, synced, disk, catalog, floors, free, truth, skewed>>

LEMMA ReachReaches ==
    ASSUME TypeOK, ControlInv, Reach
    PROVE  \E l, r, m, n : Reached(l, r, m, n)
<1>1. PICK l, r, m, u : /\ l = applied + 1 /\ r = hist[l] /\ m = mem[r.coll]
                        /\ u = Absorb(m, FanOut[step + 1], r, l)
    OBVIOUS
<1>2. /\ pc = "apply" /\ l \in 1 .. Len(hist) /\ l \in Nat /\ step \in {0, 1, 2}
    BY <1>1 DEF Reach, TypeOK, Types, ControlInv
<1>3. r \in Logged /\ r.coll \in Collections /\ m \in Stored
    BY <1>1, <1>2, LoggedFields DEF TypeOK, Types
<1>4. PICK n : n = IF step = 2 THEN Advance(u, l) ELSE u
    OBVIOUS
<1>5. /\ mem' = [mem EXCEPT ![r.coll] = n]
      /\ step < 2 => step' = step + 1 /\ UNCHANGED <<applied, pc>>
      /\ step = 2 => ApplyDone(l)
      /\ seen' = [seen EXCEPT ![r.coll] = @ \cup u.live]
      /\ step = 0 => Verdict(m, r) = "applied"
      /\ UNCHANGED <<hist, base, pending, synced, disk, catalog, floors, free, truth, skewed>>
    <2>1. step + 1 = Len(FanOut) <=> step = 2
        BY <1>2, FanOutSteps
    <2> QED BY <1>1, <1>2, <1>4, <2>1 DEF Reach
<1>6. ASSUME step = 0 PROVE Reached(l, r, m, n)
    <2>1. n = WriteAt(m, r, l) /\ u = n
        BY <1>1, <1>4, <1>6, FanOutSteps
    <2>2. /\ n \in Stored
          /\ \A o \in Ordinals : n.flat[o] = IF o \in Installed(r) THEN l ELSE m.flat[o]
          /\ m.count <= n.count /\ \A o \in Installed(r) : o < n.count
          /\ n.live = m.live /\ n.post = m.post /\ n.tuple = m.tuple
          /\ n.flatLsn = m.flatLsn /\ n.metaLsn = m.metaLsn /\ n.tupleLsn = m.tupleLsn
        BY <1>2, <1>3, <2>1, WriteAtFields
    <2>3. \A o \in Ordinals :
             /\ n.flat[o] = IF step = 0 /\ o \in Installed(r) THEN l ELSE m.flat[o]
             /\ n.tuple[o] = IF step = 1 /\ o \in Installed(r) THEN l ELSE m.tuple[o]
        BY <1>6, <2>2
    <2>4. seen' = [seen EXCEPT ![r.coll] = @ \cup n.live]
        BY <1>5, <2>1
    <2>5. step < 2 /\ step # 2
        BY <1>6
    <2> QED BY <1>1, <1>2, <1>3, <1>5, <1>6, <2>2, <2>3, <2>4, <2>5 DEF Reached
<1>7. ASSUME step = 1 PROVE Reached(l, r, m, n)
    <2>1. n = WriteRow(m, r, l) /\ u = n
        BY <1>1, <1>4, <1>7, FanOutSteps
    <2>2. /\ n \in Stored
          /\ \A o \in Ordinals : n.tuple[o] = IF o \in Installed(r) THEN l ELSE m.tuple[o]
          /\ n.flat = m.flat /\ n.count = m.count /\ n.live = m.live /\ n.post = m.post
          /\ n.flatLsn = m.flatLsn /\ n.metaLsn = m.metaLsn /\ n.tupleLsn = m.tupleLsn
        BY <1>2, <1>3, <2>1, WriteRowFields
    <2>3. \A o \in Ordinals :
             /\ n.flat[o] = IF step = 0 /\ o \in Installed(r) THEN l ELSE m.flat[o]
             /\ n.tuple[o] = IF step = 1 /\ o \in Installed(r) THEN l ELSE m.tuple[o]
        BY <1>7, <2>2
    <2>4. seen' = [seen EXCEPT ![r.coll] = @ \cup n.live]
        BY <1>5, <2>1
    <2>5. step < 2 /\ step # 2 /\ step # 0
        BY <1>7
    <2>6. m.count <= n.count
        BY <1>3, <2>2, StoredFields
    <2> QED BY <1>1, <1>2, <1>3, <1>5, <2>2, <2>3, <2>4, <2>5, <2>6 DEF Reached
<1>8. ASSUME step = 2 PROVE Reached(l, r, m, n)
    <2>1. u = ApplyMutation(m, r) /\ n = Advance(u, l)
        BY <1>1, <1>4, <1>8, FanOutSteps
    <2>3. /\ u \in Stored /\ u.live = (m.live \cup Installed(r)) \ r.retire
          /\ u.post = Reposted(m.post, r)
          /\ u.flat = m.flat /\ u.count = m.count /\ u.tuple = m.tuple
          /\ u.flatLsn = m.flatLsn /\ u.metaLsn = m.metaLsn /\ u.tupleLsn = m.tupleLsn
        BY <1>3, <2>1, ApplyMutationFields
    <2>4. /\ n \in Stored
          /\ n.flat = u.flat /\ n.count = u.count /\ n.live = u.live /\ n.post = u.post
          /\ n.tuple = u.tuple
          /\ n.flatLsn = Later(u.flatLsn, l) /\ n.metaLsn = Later(u.metaLsn, l)
          /\ n.tupleLsn = Later(u.tupleLsn, l)
        BY <1>2, <2>1, <2>3, AdvanceFields
    <2>5. \A o \in Ordinals :
             /\ n.flat[o] = IF step = 0 /\ o \in Installed(r) THEN l ELSE m.flat[o]
             /\ n.tuple[o] = IF step = 1 /\ o \in Installed(r) THEN l ELSE m.tuple[o]
        BY <1>8, <2>3, <2>4
    <2>6. seen' = [seen EXCEPT ![r.coll] = @ \cup n.live]
        BY <1>5, <2>4
    <2>7. ~ (step < 2) /\ step # 0
        BY <1>8
    <2>8. m.count <= n.count /\ n.count = m.count
        BY <1>3, <2>3, <2>4, StoredFields
    <2> QED BY <1>1, <1>2, <1>3, <1>5, <1>8, <2>3, <2>4, <2>5, <2>6, <2>7, <2>8 DEF Reached
<1> QED BY <1>2, <1>6, <1>7, <1>8

(* Record r at l is refused: only the numbers move.                        *)
Skipped(l, r, m, n) ==
    /\ l \in 1 .. Len(hist) /\ r = hist[l] /\ r \in Logged
    /\ m = mem[r.coll] /\ m \in Stored /\ n \in Stored
    /\ mem' = [mem EXCEPT ![r.coll] = n]
    /\ n.flat = m.flat /\ n.count = m.count /\ n.live = m.live /\ n.post = m.post
    /\ n.tuple = m.tuple
    /\ n.flatLsn = Later(m.flatLsn, l) /\ n.metaLsn = Later(m.metaLsn, l)
    /\ n.tupleLsn = Later(m.tupleLsn, l)
    /\ Verdict(m, r) = "refused"

LEMMA RefuseSkips ==
    ASSUME TypeOK, ControlInv, Refuse
    PROVE  \E l, r, m, n :
              /\ Skipped(l, r, m, n) /\ pc = "apply" /\ step = 0 /\ l = applied + 1 /\ ApplyDone(l)
              /\ UNCHANGED <<hist, base, pending, synced, disk, catalog, floors, free, seen,
                             truth, skewed>>
<1>1. PICK l, r, m, n : /\ l = applied + 1 /\ r = hist[l] /\ m = mem[r.coll]
                        /\ n = Advance(m, l)
    OBVIOUS
<1>2. pc = "apply" /\ step = 0 /\ l \in 1 .. Len(hist) /\ l \in Nat
    BY <1>1 DEF Refuse, TypeOK, Types, ControlInv
<1>3. r \in Logged /\ r.coll \in Collections /\ m \in Stored
    BY <1>1, <1>2, LoggedFields DEF TypeOK, Types
<1>4. /\ mem' = [mem EXCEPT ![r.coll] = n] /\ Verdict(m, r) = "refused" /\ ApplyDone(l)
      /\ UNCHANGED <<hist, base, pending, synced, disk, catalog, floors, free, seen,
                     truth, skewed>>
    BY <1>1 DEF Refuse
<1>6. /\ n \in Stored
      /\ n.flat = m.flat /\ n.count = m.count /\ n.live = m.live /\ n.post = m.post
      /\ n.tuple = m.tuple
      /\ n.flatLsn = Later(m.flatLsn, l) /\ n.metaLsn = Later(m.metaLsn, l)
      /\ n.tupleLsn = Later(m.tupleLsn, l)
    BY <1>1, <1>2, <1>3, AdvanceFields
<1>5. Skipped(l, r, m, n)
    BY <1>1, <1>2, <1>3, <1>4, <1>6 DEF Skipped
<1> QED BY <1>1, <1>2, <1>4, <1>5

(* A replayed record that is not skipped for its floor: m before, n after. *)
Refolded(l, r, m, n) ==
    /\ l \in 1 .. Len(hist) /\ r = hist[l] /\ r \in Logged
    /\ m = mem[r.coll] /\ m \in Stored /\ n \in Stored
    /\ mem' = [mem EXCEPT ![r.coll] = n]
    /\ l > floors[r.coll]
    /\ n = Fold(m, r, l)

LEMMA ReplayFolds ==
    ASSUME TypeOK, ControlInv, Replay
    PROVE  \E l : /\ pc = "replay" /\ l = applied + 1 /\ l \in 1 .. Len(hist) /\ applied' = l
                  /\ \/ mem' = mem /\ hist[l].coll \in Collections /\ l <= floors[hist[l].coll]
                     \/ \E r, m, n : Refolded(l, r, m, n)
                  /\ UNCHANGED <<hist, base, pc, step, pending, synced, disk, catalog, floors,
                                 free, seen, truth, skewed>>
<1>1. pc = "replay" /\ base <= applied /\ applied \in Nat /\ base \in Nat
    BY DEF Replay, TypeOK, Types, ControlInv
<1>2. NextFrame = applied + 1
    BY <1>1, MaxOfTwo DEF NextFrame, Later
<1>3. PICK l, r, m, n : /\ l = applied + 1 /\ r = hist[l] /\ m = mem[r.coll]
                        /\ n = Fold(m, r, l)
    OBVIOUS
<1>4. /\ l \in 1 .. Len(hist) /\ l \in Nat /\ applied' = l
      /\ UNCHANGED <<hist, base, pc, step, pending, synced, disk, catalog, floors,
                     free, seen, truth, skewed>>
      /\ mem' = IF l <= floors[r.coll] THEN mem ELSE [mem EXCEPT ![r.coll] = n]
    BY <1>1, <1>2, <1>3 DEF Replay, TypeOK, Types
<1>5. r \in Logged /\ r.coll \in Collections /\ m \in Stored /\ floors[r.coll] \in Nat
    BY <1>3, <1>4, LoggedFields DEF TypeOK, Types
<1>6. n \in Stored
    BY <1>3, <1>4, <1>5, FoldFields
<1>7. CASE l <= floors[r.coll]
    BY <1>1, <1>3, <1>4, <1>5, <1>7
<1>8. CASE l > floors[r.coll]
    <2>1. Refolded(l, r, m, n)
        BY <1>3, <1>4, <1>5, <1>6, <1>8 DEF Refolded
    <2> QED BY <1>1, <1>3, <1>4, <2>1
<1> QED BY <1>4, <1>5, <1>7, <1>8

(* What a crash leaves of a collection's stores.                           *)
LEMMA CrashFields ==
    ASSUME TypeOK, Crash
    PROVE  /\ disk' \in [Collections -> Stored] /\ mem' = [c \in Collections |-> EmptyStores]
           /\ \A c \in Collections :
                 /\ \A o \in Ordinals : disk'[c].flat[o] \in {disk[c].flat[o], mem[c].flat[o]}
                 /\ disk'[c].count = disk[c].count /\ disk'[c].live = disk[c].live
                 /\ disk'[c].post = disk[c].post /\ disk'[c].tuple = disk[c].tuple
                 /\ disk'[c].flatLsn = disk[c].flatLsn /\ disk'[c].metaLsn = disk[c].metaLsn
                 /\ disk'[c].tupleLsn = disk[c].tupleLsn
<1> DEFINE Mixed(S, c) == [o \in Ordinals |-> IF o \in S[c] THEN mem[c].flat[o] ELSE disk[c].flat[o]]
<1>1. PICK S \in [Collections -> SUBSET Ordinals] :
          disk' = [c \in Collections |-> [disk[c] EXCEPT !.flat = Mixed(S, c)]]
    BY DEF Crash
<1>2. ASSUME NEW c \in Collections
      PROVE  /\ disk'[c] \in Stored /\ disk'[c].flat = Mixed(S, c)
             /\ disk'[c].count = disk[c].count /\ disk'[c].live = disk[c].live
             /\ disk'[c].post = disk[c].post /\ disk'[c].tuple = disk[c].tuple
             /\ disk'[c].flatLsn = disk[c].flatLsn /\ disk'[c].metaLsn = disk[c].metaLsn
             /\ disk'[c].tupleLsn = disk[c].tupleLsn
    <2>1. PICK f, d : f = Mixed(S, c) /\ d = disk[c]
        OBVIOUS
    <2>2. d \in Stored /\ mem[c] \in Stored
        BY <2>1 DEF TypeOK, Types
    <2>3. f \in [Ordinals -> Nat]
        BY <2>1, <2>2, StoredFields
    <2>4. disk'[c] = [d EXCEPT !.flat = f]
        BY <1>1, <2>1
    <2> QED BY <2>1, <2>2, <2>3, <2>4 DEF Stored
<1>3. \A c \in Collections : \A o \in Ordinals : Mixed(S, c)[o] \in {disk[c].flat[o], mem[c].flat[o]}
    OBVIOUS
<1> HIDE DEF Mixed
<1>4. mem' = [c \in Collections |-> EmptyStores]
    BY DEF Crash
<1>5. disk' \in [Collections -> Stored]
    BY <1>1, <1>2
<1> QED BY <1>2, <1>3, <1>4, <1>5

(* Watermarks are naturals, each the lowest of its kind.                   *)
LEMMA WatermarkIsLeast ==
    ASSUME NEW s \in Stored
    PROVE  /\ Watermark(s) \in Nat /\ Watermark(s) \in {s.flatLsn, s.metaLsn, s.tupleLsn}
           /\ Watermark(s) <= s.flatLsn /\ Watermark(s) <= s.metaLsn /\ Watermark(s) <= s.tupleLsn
<1> DEFINE T == {s.flatLsn, s.metaLsn, s.tupleLsn}
<1>1. T \subseteq Nat /\ T # {}
    BY StoredFields
<1>2. Min(T) \in T /\ \A m \in T : Min(T) <= m
    BY <1>1, MinIsLeast
<1> QED BY <1>1, <1>2 DEF Watermark

LEMMA DurableType ==
    ASSUME Types
    PROVE  /\ DurableThrough \in Nat /\ DurableThrough <= catalog
           /\ \A c \in Collections : Watermark(disk[c]) \in Nat /\ DurableThrough <= Watermark(disk[c])
<1> DEFINE T == {Watermark(disk[c]) : c \in Collections} \cup {catalog}
<1>1. \A c \in Collections : Watermark(disk[c]) \in Nat
    BY WatermarkIsLeast DEF Types
<1>2. T \subseteq Nat /\ T # {}
    BY <1>1 DEF Types
<1>3. Min(T) \in T /\ \A m \in T : Min(T) <= m
    BY <1>2, MinIsLeast
<1> QED BY <1>1, <1>2, <1>3 DEF DurableThrough

-----------------------------------------------------------------------------
(* Every step keeps every variable in its type.                            *)
LEMMA Appended ==
    ASSUME TypeOK, NEW e, Recorded(e)
    PROVE  /\ hist' \in Seq(Logged) /\ Len(hist) \in Nat /\ Len(hist') = Len(hist) + 1
           /\ hist'[Len(hist) + 1] = e /\ \A l \in 1 .. Len(hist) : hist'[l] = hist[l]
           /\ e.coll \in Collections
<1>1. hist \in Seq(Logged) /\ e \in Logged /\ hist' = Append(hist, e)
    BY DEF TypeOK, Types, Recorded
<1>2. e.coll \in Collections
    BY <1>1, LoggedFields
<1> HIDE DEF Logged
<1> QED BY <1>1, <1>2

LEMMA TypesStep == TypeOK /\ ControlInv /\ Next => Types'
<1> SUFFICES ASSUME TypeOK, ControlInv, Next PROVE Types'
    OBVIOUS
<1> USE DEF TypeOK, Types
<1>1. CASE Statement
    <2>1. PICK e : Recorded(e)
        BY <1>1, StatementRecords
    <2>2. hist' \in Seq(Logged) /\ e.coll \in Collections /\ e \in Logged
        BY <2>1, Appended DEF Recorded
    <2>3. /\ UNCHANGED <<base, pc, applied, step, pending, synced, mem, disk, catalog,
                         floors, seen, skewed>>
          /\ free' = [free EXCEPT ![e.coll] = @ \ Installed(e)]
        BY <2>1 DEF Recorded
    <2>4. truth' \in [Collections -> SUBSET (Ordinals \X Nat)]
        <3>1. Installed(e) \X {Len(hist) + 1} \in SUBSET (Ordinals \X Nat)
            <4>1. Len(hist) + 1 \in Nat /\ Installed(e) \in SUBSET Ordinals
                BY <2>2, LoggedFields
            <4> QED BY <4>1
        <3>2. PICK v : truth' = [truth EXCEPT ![e.coll] = v] /\ v \in SUBSET (Ordinals \X Nat)
            <4>1. CASE e.verdict = "refused"
                <5>1. truth' = [truth EXCEPT ![e.coll] = truth[e.coll]]
                    BY <2>1, <4>1 DEF Recorded
                <5> QED BY <2>2, <5>1
            <4>2. CASE e.verdict # "refused"
                <5> DEFINE v == {p \in truth[e.coll] \cup (Installed(e) \X {Len(hist) + 1}) :
                                    p[1] \notin e.retire}
                <5>1. truth' = [truth EXCEPT ![e.coll] = v]
                    BY <2>1, <4>2 DEF Recorded
                <5>2. v \in SUBSET (Ordinals \X Nat)
                    BY <2>2, <3>1
                <5> QED BY <5>1, <5>2
            <4> QED BY <4>1, <4>2
        <3> QED BY <2>2, <3>2
    <2> QED BY <2>2, <2>3, <2>4
<1>2. CASE BeginApply
    BY <1>2 DEF BeginApply
<1>3. CASE Refuse
    <2>1. PICK l, r, m, n :
              /\ Skipped(l, r, m, n) /\ ApplyDone(l)
              /\ UNCHANGED <<hist, base, pending, synced, disk, catalog, floors, free, seen,
                             truth, skewed>>
        BY <1>3, RefuseSkips
    <2>2. r.coll \in Collections /\ l \in Nat
        BY <2>1, LoggedFields DEF Skipped
    <2> QED BY <2>1, <2>2 DEF Skipped, ApplyDone
<1>4. CASE Reach
    <2>1. PICK l, r, m, n : Reached(l, r, m, n)
        BY <1>4, ReachReaches
    <2>2. r.coll \in Collections /\ l \in Nat /\ n.live \in SUBSET Ordinals
        BY <2>1, LoggedFields, StoredFields DEF Reached
    <2>3. step \in {0, 1, 2}
        OBVIOUS
    <2>4. mem' \in [Collections -> Stored] /\ seen' \in [Collections -> SUBSET Ordinals]
        BY <2>1, <2>2 DEF Reached
    <2>5. applied' \in Nat /\ step' \in 0 .. 2
          /\ pc' \in {"down", "replay", "idle", "apply", "checkpoint"}
        BY <2>1, <2>2, <2>3 DEF Reached, ApplyDone
    <2> QED BY <2>1, <2>4, <2>5 DEF Reached
<1>5. CASE BeginCheckpoint
    <2>1. Cardinality(Collections) \in Nat
        BY StoresAssumption, FS_CardinalityType
    <2>2. PICK n \in Nat : n = Cardinality(Collections)
        BY <2>1
    <2>3. pending' \in [1 .. n -> Collections]
        BY <1>5, <2>2 DEF BeginCheckpoint, Orders
    <2>4. pending' \in Seq(Collections)
        BY <2>3
    <2> QED BY <1>5, <2>4 DEF BeginCheckpoint
<1>6. CASE SyncStore
    <2>1. PICK c, n : c = Head(pending) /\ n = synced
        OBVIOUS
    <2>2. c \in Collections /\ Tail(pending) \in Seq(Collections) /\ n \in 0 .. 2
        BY <1>6, <2>1 DEF SyncStore
    <2>3. PICK t : t = MakeDurable(disk[c], SyncOrder[n + 1], mem[c])
        OBVIOUS
    <2>4. t \in Stored
        BY <2>2, <2>3, MakeDurableFields
    <2>5. disk' = [disk EXCEPT ![c] = t]
        BY <1>6, <2>1, <2>3 DEF SyncStore
    <2>7. Len(SyncOrder) = 3
        BY DEF SyncOrder
    <2>8. /\ IF synced + 1 = 3 THEN synced' = 0 /\ pending' = Tail(pending)
                                 ELSE synced' = synced + 1 /\ pending' = pending
          /\ UNCHANGED <<hist, base, pc, applied, step, mem, catalog, floors, free, seen,
                         truth, skewed>>
        BY <1>6, <2>7 DEF SyncStore
    <2>9. synced \in {0, 1, 2}
        OBVIOUS
    <2>6. synced' \in 0 .. 2 /\ pending' \in Seq(Collections)
        <3>1. synced' \in 0 .. 2
            BY <2>8, <2>9
        <3>2. pending \in Seq(Collections)
            OBVIOUS
        <3>3. pending' \in {pending, Tail(pending)}
            BY <2>8
        <3> QED BY <2>2, <3>1, <3>2, <3>3
    <2> QED BY <2>2, <2>4, <2>5, <2>6, <2>8
<1>7. CASE SyncCatalog
    BY <1>7 DEF SyncCatalog
<1>8. CASE Truncate
    <2>1. DurableThrough \in Nat
        BY DurableType
    <2>2. base' \in Nat
        BY <1>8, <2>1, MaxOfTwo DEF Truncate, Later
    <2> QED BY <1>8, <2>2 DEF Truncate
<1>9. CASE CheckpointFails
    BY <1>9 DEF CheckpointFails
<1>10. CASE Crash
    <2>1. disk' \in [Collections -> Stored] /\ mem' = [c \in Collections |-> EmptyStores]
        BY <1>10, CrashFields
    <2>2. mem' \in [Collections -> Stored]
        BY <2>1, EmptyFields
    <2> QED BY <1>10, <2>1, <2>2 DEF Crash
<1>11. CASE Open
    <2>1. DurableThrough \in Nat /\ \A c \in Collections : Watermark(disk[c]) \in Nat
        BY DurableType
    <2> QED BY <1>11, <2>1 DEF Open
<1>12. CASE Replay
    <2>1. PICK l : /\ l \in 1 .. Len(hist) /\ applied' = l
                   /\ mem' = mem \/ \E r, m, n : Refolded(l, r, m, n)
                   /\ UNCHANGED <<hist, base, pc, step, pending, synced, disk, catalog, floors,
                                  free, seen, truth, skewed>>
        BY <1>12, ReplayFolds
    <2>2. mem' \in [Collections -> Stored]
        <3>1. CASE mem' = mem
            BY <3>1
        <3>2. ASSUME NEW r, NEW m, NEW n, Refolded(l, r, m, n) PROVE mem' \in [Collections -> Stored]
            BY <3>2, LoggedFields DEF Refolded
        <3> QED BY <2>1, <3>1, <3>2
    <2> QED BY <2>1, <2>2
<1>13. CASE Ready
    BY <1>13, StoredFields DEF Ready
<1> QED BY <1>1, <1>2, <1>3, <1>4, <1>5, <1>6, <1>7, <1>8, <1>9, <1>10, <1>11, <1>12, <1>13 DEF Next

LEMMA FilledGrows ==
    ASSUME TypeOK, NEW e, Recorded(e), NEW c, NEW o, NEW l, Filled(hist, c, o, l)
    PROVE  Filled(hist', c, o, l)
BY Appended DEF Filled

(* A fold writes nothing but the ordinals its record installs.             *)
LEMMA FoldWrites ==
    ASSUME NEW s \in Stored, NEW r \in Logged, NEW l \in Nat, NEW t, t = Fold(s, r, l)
    PROVE  \A o \in Ordinals :
              /\ t.flat[o] # s.flat[o] => t.flat[o] = l /\ o \in Installed(r)
              /\ t.tuple[o] # s.tuple[o] => t.tuple[o] = l /\ o \in Installed(r)
<1>1. Verdict(s, r) \in {"applied", "refused"}
    BY DEF Verdict
<1>2. CASE Verdict(s, r) = "refused"
    <2>1. t.flat = s.flat /\ t.tuple = s.tuple
        BY <1>2, FoldFields
    <2> QED BY <2>1
<1>3. CASE Verdict(s, r) = "applied"
    <2>1. \A o \in Ordinals : /\ t.flat[o] = IF o \in Installed(r) THEN l ELSE s.flat[o]
                              /\ t.tuple[o] = IF o \in Installed(r) THEN l ELSE s.tuple[o]
        BY <1>3, FoldFields
    <2> QED BY <2>1
<1> QED BY <1>1, <1>2, <1>3

LEMMA PlacedStep ==
    ASSUME TypeOK, ControlInv, Next, NEW c \in Collections, NEW o \in Ordinals
    PROVE  /\ Filled(hist', c, o, mem'[c].flat[o]) /\ Filled(hist', c, o, mem'[c].tuple[o])
           /\ Filled(hist', c, o, disk'[c].flat[o]) /\ Filled(hist', c, o, disk'[c].tuple[o])
<1> DEFINE Goal == /\ Filled(hist', c, o, mem'[c].flat[o]) /\ Filled(hist', c, o, mem'[c].tuple[o])
                   /\ Filled(hist', c, o, disk'[c].flat[o]) /\ Filled(hist', c, o, disk'[c].tuple[o])
<1>0. /\ Filled(hist, c, o, mem[c].flat[o]) /\ Filled(hist, c, o, mem[c].tuple[o])
      /\ Filled(hist, c, o, disk[c].flat[o]) /\ Filled(hist, c, o, disk[c].tuple[o])
      /\ mem \in [Collections -> Stored] /\ disk \in [Collections -> Stored]
      /\ hist \in Seq(Logged) /\ applied \in Nat
    BY DEF TypeOK, Types, Placed
<1>1. CASE Statement
    <2>1. PICK e : Recorded(e)
        BY <1>1, StatementRecords
    <2>2. UNCHANGED <<mem, disk>>
        BY <2>1 DEF Recorded
    <2> QED BY <1>0, <2>1, <2>2, FilledGrows
<1>2. CASE BeginApply
    BY <1>0, <1>2 DEF BeginApply
<1>3. CASE Refuse
    <2>1. PICK l, r, m, n : Skipped(l, r, m, n) /\ UNCHANGED <<hist, disk>>
        BY <1>3, RefuseSkips
    <2>2. mem'[c].flat = mem[c].flat /\ mem'[c].tuple = mem[c].tuple
        BY <1>0, <2>1 DEF Skipped
    <2> QED BY <1>0, <2>1, <2>2
<1>4. CASE Reach
    <2>1. PICK l, r, m, n : Reached(l, r, m, n)
        BY <1>4, ReachReaches
    <2>2. /\ l \in 1 .. Len(hist) /\ r = hist[l] /\ UNCHANGED <<hist, disk>>
          /\ mem' = [mem EXCEPT ![r.coll] = n] /\ m = mem[r.coll]
          /\ \A p \in Ordinals :
                /\ n.flat[p] = IF step = 0 /\ p \in Installed(r) THEN l ELSE m.flat[p]
                /\ n.tuple[p] = IF step = 1 /\ p \in Installed(r) THEN l ELSE m.tuple[p]
        BY <2>1 DEF Reached
    <2>3. CASE c = r.coll
        <3>1. mem'[c] = n /\ mem[c] = m
            BY <1>0, <2>2, <2>3
        <3>2. o \in Installed(r) => Filled(hist, c, o, l)
            BY <2>2, <2>3 DEF Filled
        <3> QED BY <1>0, <2>2, <3>1, <3>2
    <2>4. CASE c # r.coll
        BY <1>0, <2>2, <2>4
    <2> QED BY <2>3, <2>4
<1>5. CASE BeginCheckpoint
    BY <1>0, <1>5 DEF BeginCheckpoint
<1>6. CASE SyncStore
    <2>1. PICK d, t : d = Head(pending) /\ t = MakeDurable(disk[d], SyncOrder[synced + 1], mem[d])
        OBVIOUS
    <2>2. synced \in 0 .. 2 /\ d \in Collections
        BY <1>6, <2>1 DEF SyncStore, TypeOK, Types
    <2>3. t.flat \in {disk[d].flat, mem[d].flat} /\ t.tuple \in {disk[d].tuple, mem[d].tuple}
        BY <1>0, <2>1, <2>2, MakeDurableFields
    <2>4. disk' = [disk EXCEPT ![d] = t] /\ UNCHANGED <<hist, mem>>
        BY <1>6, <2>1 DEF SyncStore
    <2> QED BY <1>0, <2>2, <2>3, <2>4
<1>7. CASE SyncCatalog
    BY <1>0, <1>7 DEF SyncCatalog
<1>8. CASE Truncate
    BY <1>0, <1>8 DEF Truncate
<1>9. CASE CheckpointFails
    BY <1>0, <1>9 DEF CheckpointFails
<1>10. CASE Crash
    <2>1. disk'[c].flat[o] \in {disk[c].flat[o], mem[c].flat[o]} /\ disk'[c].tuple = disk[c].tuple
        BY <1>10, CrashFields
    <2>2. mem'[c].flat[o] = 0 /\ mem'[c].tuple[o] = 0
        BY <1>10, CrashFields, EmptyFields
    <2>3. hist' = hist
        BY <1>10 DEF Crash
    <2>4. Filled(hist, c, o, 0)
        BY DEF Filled
    <2> QED BY <1>0, <2>1, <2>2, <2>3, <2>4
<1>11. CASE Open
    BY <1>0, <1>11 DEF Open
<1>12. CASE Replay
    <2>1. PICK l : /\ mem' = mem \/ \E r, m, n : Refolded(l, r, m, n)
                   /\ UNCHANGED <<hist, disk>>
        BY <1>12, ReplayFolds
    <2>2. ASSUME NEW r, NEW m, NEW n, Refolded(l, r, m, n), c = r.coll PROVE Goal
        <3>1. /\ l \in 1 .. Len(hist) /\ l \in Nat /\ r = hist[l] /\ r \in Logged
              /\ mem[c] = m /\ mem'[c] = n /\ n = Fold(m, r, l) /\ m \in Stored
            BY <1>0, <2>2 DEF Refolded
        <3>2. /\ n.flat[o] # m.flat[o] => n.flat[o] = l /\ o \in Installed(r)
              /\ n.tuple[o] # m.tuple[o] => n.tuple[o] = l /\ o \in Installed(r)
            BY <3>1, FoldWrites
        <3>3. o \in Installed(r) => Filled(hist, c, o, l)
            BY <2>2, <3>1 DEF Filled
        <3> QED BY <1>0, <2>1, <3>1, <3>2, <3>3
    <2>3. ASSUME NEW r, NEW m, NEW n, Refolded(l, r, m, n), c # r.coll PROVE Goal
        BY <1>0, <2>1, <2>3 DEF Refolded
    <2> QED BY <1>0, <2>1, <2>2, <2>3
<1>13. CASE Ready
    BY <1>0, <1>13 DEF Ready
<1> QED BY <1>1, <1>2, <1>3, <1>4, <1>5, <1>6, <1>7, <1>8, <1>9, <1>10, <1>11, <1>12, <1>13 DEF Next

LEMMA TypeStep == TypeOK /\ ControlInv /\ Next => TypeOK'
BY TypesStep, PlacedStep DEF TypeOK, Placed

LEMMA TypeInit == Init => TypeOK
<1> SUFFICES ASSUME Init PROVE TypeOK
    OBVIOUS
<1>1. \A c \in Collections : Placed(mem[c], c) /\ Placed(disk[c], c)
    BY EmptyFields DEF Init, Placed, Filled
<1>2. Types
    BY EmptyFields DEF Init, Types
<1> QED BY <1>1, <1>2 DEF TypeOK

-----------------------------------------------------------------------------
(* Control, and the watermarks of disk and memory.                         *)
LEMMA DurableIsGreatestBelow ==
    ASSUME Types, NEW b \in Nat, b <= catalog,
           \A c \in Collections : b <= disk[c].flatLsn /\ b <= disk[c].metaLsn /\ b <= disk[c].tupleLsn
    PROVE  b <= DurableThrough
<1> DEFINE T == {Watermark(disk[c]) : c \in Collections} \cup {catalog}
<1>1. \A c \in Collections : Watermark(disk[c]) \in Nat /\ b <= Watermark(disk[c])
    BY WatermarkIsLeast DEF Types
<1>2. T \subseteq Nat /\ T # {}
    BY <1>1 DEF Types
<1>3. Min(T) \in T
    BY <1>2, MinIsLeast
<1> QED BY <1>1, <1>3 DEF DurableThrough

LEMMA OrderedWatermark ==
    ASSUME NEW s \in Stored, s.tupleLsn <= s.metaLsn, s.metaLsn <= s.flatLsn
    PROVE  Watermark(s) = s.tupleLsn
BY WatermarkIsLeast, StoredFields

LEMMA ControlStep == TypeOK /\ ControlInv /\ LsnInv /\ Next => ControlInv'
<1> SUFFICES ASSUME TypeOK, ControlInv, LsnInv, Next PROVE ControlInv'
    OBVIOUS
<1>0. /\ hist \in Seq(Logged) /\ Len(hist) \in Nat /\ base \in Nat /\ applied \in Nat
      /\ catalog \in Nat /\ pending \in Seq(Collections) /\ step \in {0, 1, 2}
    BY DEF TypeOK, Types
<1> USE DEF ControlInv, Running
<1>1. CASE Statement
    <2>1. PICK e : Recorded(e)
        BY <1>1, StatementRecords
    <2>2. Len(hist') = Len(hist) + 1
        BY <2>1, Appended
    <2> QED BY <1>0, <2>1, <2>2 DEF Recorded
<1>2. CASE BeginApply
    BY <1>0, <1>2 DEF BeginApply
<1>3. CASE Refuse
    <2>1. PICK l : /\ l = applied + 1 /\ l <= Len(hist) /\ ApplyDone(l) /\ pc = "apply"
                   /\ UNCHANGED <<hist, base, pending, synced, catalog>>
        BY <1>0, <1>3, RefuseSkips DEF Skipped
    <2> QED BY <1>0, <2>1 DEF ApplyDone
<1>4. CASE Reach
    <2>1. PICK l, r, m, n : Reached(l, r, m, n)
        BY <1>4, ReachReaches
    <2> QED BY <1>0, <2>1 DEF Reached, ApplyDone
<1>5. CASE BeginCheckpoint
    BY <1>0, <1>5 DEF BeginCheckpoint
<1>6. CASE SyncStore
    BY <1>0, <1>6 DEF SyncStore
<1>7. CASE SyncCatalog
    BY <1>0, <1>7 DEF SyncCatalog
<1>8. CASE Truncate
    <2>1. DurableThrough \in Nat /\ DurableThrough <= catalog
        BY DurableType DEF TypeOK
    <2>2. base' = Later(base, DurableThrough)
        BY <1>0, <1>8, <2>1, MaxOfTwo DEF Truncate
    <2> QED BY <1>0, <1>8, <2>1, <2>2 DEF Truncate, Later
<1>9. CASE CheckpointFails
    BY <1>0, <1>9 DEF CheckpointFails
<1>10. CASE Crash
    BY <1>0, <1>10 DEF Crash
<1>11. CASE Open
    <2>1. \A c \in Collections : disk[c] \in Stored
        BY DEF TypeOK, Types
    <2>2. \A c \in Collections : base <= disk[c].flatLsn /\ base <= disk[c].metaLsn
                                 /\ base <= disk[c].tupleLsn
        BY <1>0, <2>1, StoredFields DEF LsnInv, LsnOf, Ordered
    <2>3. base <= DurableThrough
        BY <1>0, <2>2, DurableIsGreatestBelow DEF TypeOK
    <2>4. DurableThrough \in Nat /\ DurableThrough <= catalog
        BY DurableType DEF TypeOK
    <2> QED BY <1>0, <1>11, <2>3, <2>4 DEF Open
<1>12. CASE Replay
    <2>1. PICK l : /\ l \in 1 .. Len(hist) /\ l = applied + 1 /\ applied' = l /\ pc = "replay"
                   /\ UNCHANGED <<hist, base, pc, step, pending, synced, catalog>>
        BY <1>12, ReplayFolds
    <2> QED BY <1>0, <2>1
<1>13. CASE Ready
    <2>1. NextFrame = applied + 1
        BY <1>0, <1>13, MaxOfTwo DEF NextFrame, Later, Ready
    <2>2. applied >= Len(hist)
        BY <1>0, <1>13, <2>1 DEF Ready
    <2> QED BY <1>0, <1>13, <2>2 DEF Ready
<1> QED BY <1>1, <1>2, <1>3, <1>4, <1>5, <1>6, <1>7, <1>8, <1>9, <1>10, <1>11, <1>12, <1>13 DEF Next

(* One collection's watermarks, when the stores move on to record l.       *)
LEMMA LsnMoves ==
    ASSUME TypeOK, ControlInv, LsnInv, NEW c \in Collections,
           NEW l, l = applied + 1, l <= Len(hist), applied' = l, UNCHANGED <<hist, base, disk, floors>>,
           pc \in {"apply", "replay"}, pc = "replay" => pc' = "replay", pc = "apply" => Running',
           mem'[c] \in Stored, mem[c].count <= mem'[c].count,
           \/ /\ hist[l].coll = c
              /\ mem'[c].flatLsn = Later(mem[c].flatLsn, l)
              /\ mem'[c].metaLsn = Later(mem[c].metaLsn, l)
              /\ mem'[c].tupleLsn = Later(mem[c].tupleLsn, l)
           \/ /\ hist[l].coll = c => l <= mem[c].tupleLsn
              /\ mem'[c].flatLsn = mem[c].flatLsn
              /\ mem'[c].metaLsn = mem[c].metaLsn
              /\ mem'[c].tupleLsn = mem[c].tupleLsn
    PROVE  LsnOf(c)'
<1>1. /\ Len(hist) \in Nat /\ applied \in Nat /\ l \in Nat /\ disk[c] \in Stored /\ mem[c] \in Stored
    BY DEF TypeOK, Types
<1>2. /\ mem[c].flatLsn \in Nat /\ mem[c].metaLsn \in Nat /\ mem[c].tupleLsn \in Nat
      /\ disk[c].flatLsn \in Nat /\ disk[c].metaLsn \in Nat /\ disk[c].tupleLsn \in Nat
      /\ mem[c].count \in Nat /\ disk[c].count \in Nat /\ mem'[c].count \in Nat
    BY <1>1, StoredFields
<1>3. LsnOf(c) /\ pc # "down"
    BY DEF LsnInv
<1>4. /\ Ordered(mem'[c], Len(hist')) /\ Ordered(disk'[c], Len(hist')) /\ base' <= disk'[c].tupleLsn
      /\ mem[c].flatLsn <= mem'[c].flatLsn /\ mem[c].metaLsn <= mem'[c].metaLsn
      /\ mem[c].tupleLsn <= mem'[c].tupleLsn
      /\ mem'[c].flatLsn \in Nat /\ mem'[c].metaLsn \in Nat /\ mem'[c].tupleLsn \in Nat
    <2>1. /\ Ordered(mem[c], Len(hist)) /\ Ordered(disk[c], Len(hist)) /\ base <= disk[c].tupleLsn
        BY <1>3 DEF LsnOf
    <2>2. /\ mem[c].flatLsn <= mem'[c].flatLsn /\ mem[c].metaLsn <= mem'[c].metaLsn
          /\ mem[c].tupleLsn <= mem'[c].tupleLsn
          /\ mem'[c].flatLsn \in Nat /\ mem'[c].metaLsn \in Nat /\ mem'[c].tupleLsn \in Nat
        BY <1>1, <1>2 DEF Later
    <2>3. Ordered(mem'[c], Len(hist))
        BY <1>1, <1>2, <2>1 DEF Ordered, Later
    <2> QED BY <2>1, <2>2, <2>3
<1>5. /\ disk'[c].flatLsn <= mem'[c].flatLsn /\ disk'[c].metaLsn <= mem'[c].metaLsn
      /\ disk'[c].tupleLsn <= mem'[c].tupleLsn /\ disk'[c].count <= mem'[c].count
    <2>1. /\ disk[c].flatLsn <= mem[c].flatLsn /\ disk[c].metaLsn <= mem[c].metaLsn
          /\ disk[c].tupleLsn <= mem[c].tupleLsn /\ disk[c].count <= mem[c].count
        BY <1>3 DEF LsnOf
    <2>2. disk'[c] = disk[c] /\ mem[c].count <= mem'[c].count
        OBVIOUS
    <2>3. \A i, j, k \in Nat : (i <= j /\ j <= k) => i <= k
        OBVIOUS
    <2>4. /\ disk[c].flatLsn <= mem'[c].flatLsn /\ disk[c].metaLsn <= mem'[c].metaLsn
          /\ disk[c].tupleLsn <= mem'[c].tupleLsn /\ disk[c].count <= mem'[c].count
        BY ONLY <1>2, <1>4, <2>1, <2>2, <2>3
    <2> QED BY ONLY <2>2, <2>4
<1>6. \A k \in 1 .. applied' : (hist'[k].coll = c) => (k <= mem'[c].tupleLsn)
    <2>1. ASSUME NEW k \in 1 .. l, hist[k].coll = c PROVE k <= mem'[c].tupleLsn
        <3>1. CASE k = l
            BY <1>1, <1>2, <2>1, <3>1 DEF Later
        <3>2. CASE k # l
            <4>1. k \in 1 .. applied
                BY <1>1, <3>2
            <4>2. k <= mem[c].tupleLsn
                BY <1>3, <2>1, <4>1 DEF LsnOf
            <4> QED BY <1>1, <1>2, <1>4, <4>2 DEF Later
        <3> QED BY <3>1, <3>2
    <2> QED BY <2>1
<1>7. Running' => mem'[c].flatLsn <= applied'
    BY <1>1, <1>2, <1>3 DEF Running, LsnOf, Later
<1>8. pc' = "replay" => floors'[c] = disk'[c].tupleLsn
    BY <1>3 DEF Running, LsnOf
<1> QED BY <1>4, <1>5, <1>6, <1>7, <1>8 DEF LsnOf

LEMMA LsnStep == TypeOK /\ ControlInv /\ LsnInv /\ SyncInv /\ Next => LsnInv'
<1> SUFFICES ASSUME TypeOK, ControlInv, LsnInv, SyncInv, Next, NEW c \in Collections
             PROVE  LsnOf(c)'
    BY DEF LsnInv
<1>0. /\ hist \in Seq(Logged) /\ Len(hist) \in Nat /\ base \in Nat /\ applied \in Nat
      /\ catalog \in Nat /\ disk[c] \in Stored /\ mem[c] \in Stored
      /\ disk \in [Collections -> Stored] /\ mem \in [Collections -> Stored]
      /\ mem[c].flatLsn \in Nat /\ mem[c].metaLsn \in Nat /\ mem[c].tupleLsn \in Nat
      /\ disk[c].flatLsn \in Nat /\ disk[c].metaLsn \in Nat /\ disk[c].tupleLsn \in Nat
      /\ mem[c].count \in Nat /\ disk[c].count \in Nat /\ LsnOf(c)
    BY StoredFields DEF TypeOK, Types, LsnInv
<1>1. CASE Statement
    <2>1. PICK e : Recorded(e)
        BY <1>1, StatementRecords
    <2>2. Len(hist') = Len(hist) + 1 /\ \A l \in 1 .. Len(hist) : hist'[l] = hist[l]
        BY <2>1, Appended
    <2>3. \A l \in 1 .. applied : l \in 1 .. Len(hist)
        BY <1>0 DEF ControlInv
    <2>4. UNCHANGED <<base, pc, applied, mem, disk, floors>>
        BY <2>1 DEF Recorded
    <2>5. \A l \in 1 .. applied' : hist'[l] = hist[l]
        BY <2>2, <2>3, <2>4
    <2>6. Ordered(disk[c], Len(hist')) /\ (pc # "down" => Ordered(mem[c], Len(hist')))
        BY <1>0, <2>2 DEF LsnOf, Ordered
    <2> HIDE DEF Ordered
    <2> QED BY <1>0, <2>4, <2>5, <2>6 DEF LsnOf, Running
<1>2. CASE BeginApply
    BY <1>0, <1>2 DEF BeginApply, LsnOf, Ordered, Running
<1>3. CASE Refuse
    <2>1. PICK l, r, m, n :
              /\ Skipped(l, r, m, n) /\ pc = "apply" /\ l = applied + 1 /\ ApplyDone(l)
              /\ UNCHANGED <<hist, base, disk, floors>>
        BY <1>3, RefuseSkips
    <2>2. r.coll \in Collections
        BY <2>1, LoggedFields DEF Skipped
    <2>3. CASE c = r.coll
        <3>1. mem'[c] = n /\ mem[c] = m /\ n.count = m.count
            BY <1>0, <2>1, <2>2, <2>3 DEF Skipped
        <3>2. mem[c].count <= mem'[c].count
            BY <1>0, <3>1
        <3> QED BY <2>1, <2>3, <3>1, <3>2, LsnMoves DEF Skipped, ApplyDone, Running
    <2>4. CASE c # r.coll
        <3>1. mem'[c] = mem[c] /\ mem[c].count <= mem'[c].count
            BY <1>0, <2>1, <2>4 DEF Skipped
        <3> QED BY <1>0, <2>1, <2>4, <3>1, LsnMoves DEF Skipped, ApplyDone, Running
    <2> QED BY <2>3, <2>4
<1>4. CASE Reach
    <2>1. PICK l, r, m, n : Reached(l, r, m, n)
        BY <1>4, ReachReaches
    <2>2. /\ r.coll \in Collections /\ l = applied + 1 /\ l <= Len(hist) /\ pc = "apply"
          /\ mem' = [mem EXCEPT ![r.coll] = n] /\ mem[r.coll] = m /\ r = hist[l] /\ n \in Stored
          /\ m.count <= n.count /\ UNCHANGED <<hist, base, disk, floors>>
        BY <1>0, <2>1, LoggedFields DEF Reached
    <2>3. CASE step = 2
        <3>1. /\ applied' = l /\ pc' \in {"idle", "apply"}
              /\ n.flatLsn = Later(m.flatLsn, l) /\ n.metaLsn = Later(m.metaLsn, l)
              /\ n.tupleLsn = Later(m.tupleLsn, l)
            BY <2>1, <2>3 DEF Reached, ApplyDone
        <3>2. CASE c = r.coll
            <4>1. mem'[c] = n /\ mem[c] = m
                BY <1>0, <2>2, <3>2
            <4> QED BY <2>2, <3>1, <3>2, <4>1, LsnMoves DEF Running
        <3>3. CASE c # r.coll
            <4>1. mem'[c] = mem[c] /\ mem[c].count <= mem'[c].count
                BY <1>0, <2>2, <3>3
            <4> QED BY <1>0, <2>2, <3>1, <3>3, <4>1, LsnMoves DEF Running
        <3> QED BY <3>2, <3>3
    <2>4. CASE step # 2
        <3>1. step < 2
            BY <2>4 DEF TypeOK, Types
        <3>2. /\ applied' = applied /\ pc' = pc /\ n.flatLsn = m.flatLsn /\ n.metaLsn = m.metaLsn
              /\ n.tupleLsn = m.tupleLsn
            BY <2>1, <3>1 DEF Reached
        <3>3. /\ mem'[c].flatLsn = mem[c].flatLsn /\ mem'[c].metaLsn = mem[c].metaLsn
              /\ mem'[c].tupleLsn = mem[c].tupleLsn /\ mem[c].count <= mem'[c].count
              /\ mem'[c] \in Stored
            BY <1>0, <2>2, <3>2
        <3>4. mem'[c].count \in Nat /\ disk[c].count <= mem'[c].count
            BY <1>0, <2>2, <3>3, StoredFields DEF LsnOf
        <3> QED BY <1>0, <2>2, <3>2, <3>3, <3>4 DEF LsnOf, Ordered, Running
    <2> QED BY <2>3, <2>4
<1>5. CASE BeginCheckpoint
    BY <1>0, <1>5 DEF BeginCheckpoint, LsnOf, Ordered, Running
<1>6. CASE SyncStore
    <2>1. PICK d, t, n : d = Head(pending) /\ t = MakeDurable(disk[d], SyncOrder[n + 1], mem[d])
                         /\ n = synced
        OBVIOUS
    <2>2. /\ n \in 0 .. 2 /\ d \in Collections /\ disk[d] \in Stored /\ mem[d] \in Stored
          /\ pc = "checkpoint" /\ pending # <<>>
        BY <1>0, <1>6, <2>1 DEF SyncStore, TypeOK, Types
    <2>3. /\ t \in Stored
          /\ IF n = 0 THEN t.count = mem[d].count /\ t.flatLsn = mem[d].flatLsn
                      ELSE t.count = disk[d].count /\ t.flatLsn = disk[d].flatLsn
          /\ t.metaLsn = IF n = 1 THEN mem[d].metaLsn ELSE disk[d].metaLsn
          /\ t.tupleLsn = IF n = 2 THEN mem[d].tupleLsn ELSE disk[d].tupleLsn
        BY <2>1, <2>2, MakeDurableFields
    <2>4. disk' = [disk EXCEPT ![d] = t] /\ UNCHANGED <<hist, base, pc, applied, mem, floors>>
        BY <1>6, <2>1 DEF SyncStore
    <2>5. CASE c = d
        <3>1. /\ n >= 1 => disk[c].flatLsn = mem[c].flatLsn
              /\ n = 2 => disk[c].metaLsn = mem[c].metaLsn
            BY <2>1, <2>2, <2>5 DEF SyncInv
        <3>2. disk'[c] = t
            BY <1>0, <2>2, <2>4, <2>5
        <3>3. /\ n \in {0, 1, 2}
              /\ IF n = 0 THEN t.count = mem[c].count /\ t.flatLsn = mem[c].flatLsn
                          ELSE t.count = disk[c].count /\ t.flatLsn = disk[c].flatLsn
              /\ t.metaLsn = IF n = 1 THEN mem[c].metaLsn ELSE disk[c].metaLsn
              /\ t.tupleLsn = IF n = 2 THEN mem[c].tupleLsn ELSE disk[c].tupleLsn
            BY <2>2, <2>3, <2>5
        <3>4. /\ Ordered(disk[c], Len(hist)) /\ Ordered(mem[c], Len(hist)) /\ base <= disk[c].tupleLsn
              /\ disk[c].flatLsn <= mem[c].flatLsn /\ disk[c].metaLsn <= mem[c].metaLsn
              /\ disk[c].tupleLsn <= mem[c].tupleLsn /\ disk[c].count <= mem[c].count
            BY <1>0, <2>2 DEF LsnOf
        <3>5. t.tupleLsn <= t.metaLsn /\ t.metaLsn <= t.flatLsn /\ t.flatLsn <= Len(hist)
            BY <1>0, <3>1, <3>3, <3>4 DEF Ordered
        <3>6. /\ base <= t.tupleLsn
              /\ t.flatLsn <= mem[c].flatLsn /\ t.metaLsn <= mem[c].metaLsn
              /\ t.tupleLsn <= mem[c].tupleLsn /\ t.count <= mem[c].count
            BY <1>0, <3>3, <3>4 DEF Ordered
        <3> QED BY <1>0, <2>2, <2>4, <3>2, <3>4, <3>5, <3>6 DEF LsnOf, Ordered, Running
    <2>6. CASE c # d
        BY <1>0, <2>4, <2>6 DEF LsnOf, Ordered, Running
    <2> QED BY <2>5, <2>6
<1>7. CASE SyncCatalog
    BY <1>0, <1>7 DEF SyncCatalog, LsnOf, Ordered, Running
<1>8. CASE Truncate
    <2>1. DurableThrough \in Nat /\ DurableThrough <= Watermark(disk[c]) /\ Watermark(disk[c]) \in Nat
        BY DurableType DEF TypeOK
    <2>2. base' = Later(base, DurableThrough)
        BY <1>0, <1>8, <2>1, MaxOfTwo DEF Truncate
    <2>3. Watermark(disk[c]) <= disk[c].tupleLsn
        BY <1>0, WatermarkIsLeast
    <2>4. base' <= disk[c].tupleLsn
        BY <1>0, <2>1, <2>2, <2>3 DEF Later, LsnOf
    <2> QED BY <1>0, <1>8, <2>4 DEF Truncate, LsnOf, Ordered, Running
<1>9. CASE CheckpointFails
    BY <1>0, <1>9 DEF CheckpointFails, LsnOf, Ordered, Running
<1>10. CASE Crash
    <2>1. /\ disk'[c].flatLsn = disk[c].flatLsn /\ disk'[c].metaLsn = disk[c].metaLsn
          /\ disk'[c].tupleLsn = disk[c].tupleLsn
        BY <1>10, CrashFields
    <2> QED BY <1>0, <1>10, <2>1 DEF Crash, LsnOf, Ordered, Running
<1>11. CASE Open
    <2>1. DurableThrough \in Nat /\ DurableThrough <= Watermark(disk[c])
        BY DurableType DEF TypeOK
    <2>2. Watermark(disk[c]) = disk[c].tupleLsn
        BY <1>0, OrderedWatermark DEF LsnOf, Ordered
    <2>3. \A l \in 1 .. applied' : l <= disk[c].tupleLsn
        BY <1>0, <1>11, <2>1, <2>2 DEF Open
    <2> QED BY <1>0, <1>11, <2>2, <2>3 DEF Open, LsnOf, Ordered, Running
<1>12. CASE Replay
    <2>1. PICK l : /\ pc = "replay" /\ l = applied + 1 /\ l \in 1 .. Len(hist) /\ applied' = l
                   /\ \/ mem' = mem /\ hist[l].coll \in Collections /\ l <= floors[hist[l].coll]
                      \/ \E r, m, n : Refolded(l, r, m, n)
                   /\ UNCHANGED <<hist, base, pc, disk, floors>>
        BY <1>12, ReplayFolds
    <2>2. CASE mem' = mem /\ hist[l].coll \in Collections /\ l <= floors[hist[l].coll]
        <3>1. hist[l].coll = c => l <= mem[c].tupleLsn
            BY <1>0, <2>1, <2>2 DEF LsnOf
        <3> QED BY <1>0, <2>1, <2>2, <3>1, LsnMoves
    <2>3. ASSUME NEW r, NEW m, NEW n, Refolded(l, r, m, n) PROVE LsnOf(c)'
        <3>1. /\ r.coll \in Collections /\ r \in Logged /\ l \in Nat /\ m \in Stored /\ n = Fold(m, r, l)
              /\ mem' = [mem EXCEPT ![r.coll] = n] /\ mem[r.coll] = m /\ r = hist[l]
            BY <2>1, <2>3, LoggedFields DEF Refolded
        <3>2. /\ n \in Stored /\ m.count <= n.count
              /\ n.flatLsn = Later(m.flatLsn, l) /\ n.metaLsn = Later(m.metaLsn, l)
              /\ n.tupleLsn = Later(m.tupleLsn, l)
            BY <3>1, FoldFields
        <3>3. CASE c = r.coll
            <4>1. mem'[c] = n /\ mem[c] = m
                BY <1>0, <3>1, <3>3
            <4> QED BY <2>1, <3>1, <3>2, <3>3, <4>1, LsnMoves
        <3>4. CASE c # r.coll
            <4>1. mem'[c] = mem[c] /\ mem[c].count <= mem'[c].count
                BY <1>0, <3>1, <3>4
            <4> QED BY <1>0, <2>1, <3>1, <3>4, <4>1, LsnMoves
        <3> QED BY <3>3, <3>4
    <2> QED BY <2>1, <2>2, <2>3
<1>13. CASE Ready
    <2>1. NextFrame = applied + 1
        BY <1>0, <1>13, MaxOfTwo DEF NextFrame, Later, Ready, ControlInv
    <2>2. applied >= Len(hist)
        BY <1>0, <1>13, <2>1 DEF Ready
    <2> QED BY <1>0, <1>13, <2>2 DEF Ready, LsnOf, Ordered, Running
<1> QED BY <1>1, <1>2, <1>3, <1>4, <1>5, <1>6, <1>7, <1>8, <1>9, <1>10, <1>11, <1>12, <1>13 DEF Next

-----------------------------------------------------------------------------
(* What a checkpoint has synced of the collection it is at.                *)
LEMMA SyncStep == TypeOK /\ ControlInv /\ SyncInv /\ Next => SyncInv'
<1> SUFFICES ASSUME TypeOK, ControlInv, SyncInv, Next PROVE SyncInv'
    OBVIOUS
<1>1. CASE SyncStore
    <2>1. PICK d, t, n : d = Head(pending) /\ t = MakeDurable(disk[d], SyncOrder[n + 1], mem[d])
                         /\ n = synced
        OBVIOUS
    <2>2. /\ n \in 0 .. 2 /\ d \in Collections /\ disk[d] \in Stored /\ mem[d] \in Stored
          /\ disk \in [Collections -> Stored] /\ pending # <<>>
        BY <1>1, <2>1 DEF SyncStore, TypeOK, Types
    <2>3. /\ n = 0 => t.flat = mem[d].flat /\ t.count = mem[d].count /\ t.flatLsn = mem[d].flatLsn
          /\ n # 0 => t.flat = disk[d].flat /\ t.count = disk[d].count /\ t.flatLsn = disk[d].flatLsn
          /\ n = 1 => t.live = mem[d].live /\ t.post = mem[d].post /\ t.metaLsn = mem[d].metaLsn
        BY <2>1, <2>2, MakeDurableFields
    <2>4. Len(SyncOrder) = 3
        BY DEF SyncOrder
    <2>5. disk' = [disk EXCEPT ![d] = t] /\ mem' = mem
        BY <1>1, <2>1 DEF SyncStore
    <2>6. IF n = 2 THEN synced' = 0 ELSE synced' = n + 1 /\ pending' = pending
        <3>1. n + 1 = 3 <=> n = 2
            BY <2>2
        <3> QED BY <1>1, <2>1, <2>4, <3>1 DEF SyncStore
    <2>7. CASE n = 2
        BY <2>6, <2>7 DEF SyncInv
    <2>8. CASE n # 2
        <3>1. /\ disk'[d] = t /\ mem'[d] = mem[d] /\ Head(pending') = d
              /\ synced' \in {1, 2} /\ (synced' = 2 => n = 1)
            BY <2>1, <2>2, <2>5, <2>6, <2>8
        <3>2. n # 0 => /\ disk[d].flat = mem[d].flat /\ disk[d].count = mem[d].count
                       /\ disk[d].flatLsn = mem[d].flatLsn
            BY <2>1, <2>2 DEF SyncInv
        <3> QED BY <2>3, <3>1, <3>2 DEF SyncInv
    <2> QED BY <2>7, <2>8
<1>2. CASE BeginCheckpoint
    BY <1>2 DEF BeginCheckpoint, SyncInv
<1>3. CASE CheckpointFails \/ SyncCatalog \/ Truncate \/ Crash \/ Open \/ BeginApply \/ Ready
    BY <1>3 DEF CheckpointFails, SyncCatalog, Truncate, Crash, Open, BeginApply, Ready, SyncInv,
                ControlInv
<1>4. CASE Statement
    <2>1. PICK e : Recorded(e)
        BY <1>4, StatementRecords
    <2> QED BY <2>1 DEF Recorded, ControlInv, SyncInv
<1>5. CASE Refuse
    BY <1>5 DEF Refuse, ControlInv, SyncInv
<1>6. CASE Reach
    BY <1>6 DEF Reach, ControlInv, SyncInv
<1>7. CASE Replay
    BY <1>7 DEF Replay, ControlInv, SyncInv
<1> QED BY <1>1, <1>2, <1>3, <1>4, <1>5, <1>6, <1>7 DEF Next

(* The ordinals of a session.                                              *)
LEMMA BoundsStep ==
    ASSUME TypeOK, ControlInv, SyncInv, SessionInv, StepInv, LsnInv, Next, NEW c \in Collections
    PROVE  /\ \A o \in disk'[c].live : o < disk'[c].count
           /\ pc' # "down" => \A o \in mem'[c].live : o < mem'[c].count
<1> DEFINE Goal == /\ \A o \in disk'[c].live : o < disk'[c].count
                   /\ pc' # "down" => \A o \in mem'[c].live : o < mem'[c].count
<1>0. /\ \A o \in disk[c].live : o < disk[c].count
      /\ pc # "down" => \A o \in mem[c].live : o < mem[c].count
      /\ mem \in [Collections -> Stored] /\ disk \in [Collections -> Stored]
      /\ mem[c] \in Stored /\ disk[c] \in Stored
      /\ mem[c].count \in Nat /\ disk[c].count \in Nat
      /\ mem[c].live \in SUBSET Nat /\ disk[c].live \in SUBSET Nat
    BY StoredFields, OrdinalsAreNaturals DEF TypeOK, Types, SessionInv, SessionOf
<1>1. CASE Statement
    <2>1. PICK e : Recorded(e)
        BY <1>1, StatementRecords
    <2> QED BY <1>0, <2>1 DEF Recorded
<1>2. CASE BeginApply \/ BeginCheckpoint \/ SyncCatalog \/ Truncate \/ CheckpointFails \/ Ready
    BY <1>0, <1>2 DEF BeginApply, BeginCheckpoint, SyncCatalog, Truncate, CheckpointFails, Ready
<1>3. CASE Refuse
    <2>1. PICK l, r, m, n : Skipped(l, r, m, n) /\ UNCHANGED disk /\ pc = "apply"
        BY <1>3, RefuseSkips
    <2>2. mem'[c].live = mem[c].live /\ mem'[c].count = mem[c].count
        BY <1>0, <2>1 DEF Skipped
    <2> QED BY <1>0, <2>1, <2>2
<1>4. CASE Reach
    <2>1. PICK l, r, m, n : Reached(l, r, m, n)
        BY <1>4, ReachReaches
    <2>2. /\ mem' = [mem EXCEPT ![r.coll] = n] /\ m = mem[r.coll] /\ m.count <= n.count
          /\ step < 2 => n.live = m.live
          /\ step = 2 => n.live = (m.live \cup Installed(r)) \ r.retire /\ n.count = m.count
          /\ pc = "apply" /\ UNCHANGED disk /\ n \in Stored /\ l = applied + 1 /\ r = hist[l]
        BY <2>1 DEF Reached
    <2>3. CASE c # r.coll
        BY <1>0, <2>2, <2>3
    <2>4. CASE c = r.coll
        <3>1. mem'[c] = n /\ mem[c] = m /\ n.count \in Nat
            BY <1>0, <2>2, <2>4, StoredFields
        <3>2. step \in {0, 1, 2}
            BY DEF TypeOK, Types
        <3>3. CASE step = 2
            <4>1. \A o \in Installed(r) : o < m.count
                BY <2>2, <2>4, <3>1, <3>3 DEF StepInv
            <4> QED BY <1>0, <2>2, <3>1, <3>3, <4>1
        <3>4. CASE step # 2
            <4>1. n.live = m.live
                BY <2>2, <3>2, <3>4
            <4>2. \A o \in n.live : o \in Nat /\ o < m.count
                BY <1>0, <2>2, <3>1, <4>1
            <4>3. \A o \in n.live : o < n.count
                BY <1>0, <2>2, <3>1, <4>2
            <4> QED BY <1>0, <2>2, <3>1, <4>3
        <3> QED BY <3>3, <3>4
    <2> QED BY <2>3, <2>4
<1>5. CASE SyncStore
    <2>1. PICK d, t, n : d = Head(pending) /\ t = MakeDurable(disk[d], SyncOrder[n + 1], mem[d])
                         /\ n = synced
        OBVIOUS
    <2>2. /\ n \in 0 .. 2 /\ d \in Collections /\ disk[d] \in Stored /\ mem[d] \in Stored
          /\ disk' = [disk EXCEPT ![d] = t] /\ mem' = mem /\ pending # <<>> /\ pc = "checkpoint"
        BY <1>5, <2>1 DEF SyncStore, TypeOK, Types
    <2>3. /\ t \in Stored
          /\ t.count = IF n = 0 THEN mem[d].count ELSE disk[d].count
          /\ t.live = IF n = 1 THEN mem[d].live ELSE disk[d].live
        BY <2>1, <2>2, MakeDurableFields
    <2>4. CASE c # d
        BY <1>0, <2>2, <2>4
    <2>5. CASE c = d
        <3>1. disk'[c] = t
            BY <1>0, <2>2, <2>5
        <3>2. n = 1 => disk[c].count = mem[c].count
            BY <2>1, <2>2, <2>5 DEF SyncInv
        <3>3. disk[c].count <= mem[c].count
            BY <2>2 DEF LsnInv, LsnOf
        <3>4. n \in {0, 1, 2}
            BY <2>2
        <3>5. \A o \in t.live : o < t.count
            <4>1. CASE n = 0
                BY <1>0, <2>3, <2>5, <3>3, <4>1
            <4>2. CASE n = 1
                BY <1>0, <2>2, <2>3, <2>5, <3>2, <4>2
            <4>3. CASE n = 2
                BY <1>0, <2>3, <2>5, <4>3
            <4> QED BY <3>4, <4>1, <4>2, <4>3
        <3> QED BY <1>0, <2>2, <3>1, <3>5
    <2> QED BY <2>4, <2>5
<1>6. CASE Crash
    <2>1. disk'[c].count = disk[c].count /\ disk'[c].live = disk[c].live /\ pc' = "down"
        BY <1>6, CrashFields DEF Crash
    <2> QED BY <1>0, <2>1
<1>7. CASE Open
    BY <1>0, <1>7 DEF Open
<1>8. CASE Replay
    <2>1. PICK l : /\ mem' = mem \/ \E r, m, n : Refolded(l, r, m, n)
                   /\ UNCHANGED disk /\ pc = "replay"
        BY <1>8, ReplayFolds
    <2>2. ASSUME NEW r, NEW m, NEW n, Refolded(l, r, m, n) PROVE Goal
        <3>1. /\ m \in Stored /\ r \in Logged /\ l \in Nat /\ n = Fold(m, r, l)
              /\ mem' = [mem EXCEPT ![r.coll] = n] /\ mem[r.coll] = m
            BY <2>2 DEF Refolded
        <3>2. /\ n \in Stored /\ m.count <= n.count
              /\ Verdict(m, r) = "refused" => n.live = m.live
              /\ Verdict(m, r) = "applied" =>
                    /\ n.live = (m.live \cup Installed(r)) \ r.retire
                    /\ \A o \in Installed(r) : o < n.count
            BY <3>1, FoldFields
        <3>3. CASE c # r.coll
            BY <1>0, <2>1, <3>1, <3>3
        <3>4. CASE c = r.coll
            <4>1. mem'[c] = n /\ mem[c] = m /\ n.count \in Nat
                BY <1>0, <3>1, <3>2, <3>4, StoredFields
            <4>2. Verdict(m, r) \in {"refused", "applied"}
                BY DEF Verdict
            <4>3. \A o \in m.live : o \in Nat /\ o < n.count
                <5>1. \A o \in m.live : o \in Nat /\ o < m.count
                    BY <1>0, <2>1, <4>1
                <5> QED BY <1>0, <3>2, <4>1, <5>1
            <4>4. \A o \in n.live : o < n.count
                BY <3>2, <4>2, <4>3
            <4> QED BY <1>0, <2>1, <4>1, <4>4
        <3> QED BY <3>3, <3>4
    <2> QED BY <1>0, <2>1, <2>2
<1> QED BY <1>1, <1>2, <1>3, <1>4, <1>5, <1>6, <1>7, <1>8 DEF Next

LEMMA SessionStep ==
    ASSUME TypeOK, ControlInv, SyncInv, SessionInv, StepInv, LsnInv, Next, NEW c \in Collections
    PROVE  SessionOf(c)'
<1>0. /\ Fresh(c) /\ mem \in [Collections -> Stored] /\ hist \in Seq(Logged) /\ Len(hist) \in Nat
      /\ applied \in Nat /\ free \in [Collections -> SUBSET Ordinals]
      /\ seen \in [Collections -> SUBSET Ordinals] /\ c \in Collections
    BY DEF TypeOK, Types, SessionInv, SessionOf
<1> SUFFICES Fresh(c)'
    BY BoundsStep DEF SessionOf
<1> USE DEF Fresh
<1>1. CASE Statement
    <2>1. PICK e : Recorded(e)
        BY <1>1, StatementRecords
    <2>2. /\ Len(hist') = Len(hist) + 1 /\ \A l \in 1 .. Len(hist) : hist'[l] = hist[l]
          /\ hist'[Len(hist) + 1] = e /\ e.coll \in Collections
        BY <2>1, Appended
    <2>3. /\ pc = "idle" /\ UNCHANGED <<pc, applied, mem, seen>>
          /\ free' = [free EXCEPT ![e.coll] = free[e.coll] \ Installed(e)]
          /\ Installed(e) \subseteq free[e.coll]
        BY <2>1 DEF Recorded
    <2>4. Running /\ Running'
        BY <2>3 DEF Running
    <2>5. \A l \in Waiting(c)' : \/ l \in Waiting(c) /\ hist'[l] = hist[l]
                                 \/ l = Len(hist) + 1 /\ hist'[l] = e /\ c = e.coll
        BY <1>0, <2>2, <2>3 DEF Waiting
    <2>6. /\ free'[c] \subseteq free[c] /\ (c = e.coll => free'[c] \cap Installed(e) = {})
        BY <1>0, <2>2, <2>3
    <2>7. \A l \in Waiting(c)' : Installed(hist'[l]) \cap (free'[c] \cup seen'[c]) = {}
        BY <1>0, <2>3, <2>4, <2>5, <2>6
    <2>8. ASSUME NEW l \in Waiting(c)', NEW k \in Waiting(c)', k # l
          PROVE  Installed(hist'[k]) \cap Installed(hist'[l]) = {}
        BY <1>0, <2>3, <2>4, <2>5, <2>8
    <2>9. mem'[c].live \subseteq seen'[c] /\ free'[c] \cap seen'[c] = {}
        BY <1>0, <2>3, <2>4, <2>6
    <2> QED BY <2>4, <2>7, <2>8, <2>9
<1>2. CASE BeginApply \/ BeginCheckpoint \/ SyncStore \/ SyncCatalog \/ Truncate \/ CheckpointFails
    <2>1. UNCHANGED <<hist, applied, mem, free, seen>> /\ Running /\ Running'
        BY <1>2 DEF BeginApply, BeginCheckpoint, SyncStore, SyncCatalog, Truncate, CheckpointFails,
                    Running
    <2> QED BY <1>0, <2>1 DEF Waiting
<1>3. CASE Refuse
    <2>1. PICK l, r, m, n : /\ Skipped(l, r, m, n) /\ pc = "apply" /\ l = applied + 1
                            /\ ApplyDone(l) /\ UNCHANGED <<hist, free, seen>>
        BY <1>3, RefuseSkips
    <2>2. mem'[c].live = mem[c].live /\ Running /\ Running' /\ applied' = applied + 1
        BY <1>0, <2>1 DEF Skipped, ApplyDone, Running
    <2>3. Waiting(c)' \subseteq Waiting(c)
        BY <1>0, <2>1, <2>2 DEF Waiting
    <2> QED BY <1>0, <2>1, <2>2, <2>3
<1>4. CASE Reach
    <2>1. PICK l, r, m, n : Reached(l, r, m, n)
        BY <1>4, ReachReaches
    <2>2. /\ mem' = [mem EXCEPT ![r.coll] = n] /\ m = mem[r.coll]
          /\ seen' = [seen EXCEPT ![r.coll] = seen[r.coll] \cup n.live] /\ UNCHANGED <<hist, free>>
          /\ l = applied + 1 /\ l \in 1 .. Len(hist) /\ r = hist[l] /\ pc = "apply"
          /\ step \in {0, 1, 2}
        BY <2>1 DEF Reached, TypeOK, Types
    <2>3. CASE step # 2
        <3>1. n.live = m.live /\ UNCHANGED <<applied, pc>>
            BY <2>1, <2>2, <2>3 DEF Reached
        <3>2. mem'[c].live = mem[c].live /\ Running /\ Running'
            BY <1>0, <2>2, <3>1 DEF Running
        <3>3. seen'[c] = seen[c]
            BY <1>0, <2>2, <3>1, <3>2
        <3> QED BY <1>0, <2>2, <3>1, <3>2, <3>3 DEF Waiting
    <2>4. CASE step = 2
        <3>1. /\ n.live = (m.live \cup Installed(r)) \ r.retire /\ applied' = applied + 1
              /\ Running /\ Running'
            BY <2>1, <2>2, <2>4 DEF Reached, ApplyDone, Running
        <3>2. Waiting(c)' \subseteq Waiting(c) \ {l}
            BY <1>0, <2>2, <3>1 DEF Waiting
        <3>3. CASE c # r.coll
            <4>1. mem'[c] = mem[c] /\ seen'[c] = seen[c]
                BY <1>0, <2>2, <3>3
            <4> QED BY <1>0, <2>2, <3>1, <3>2, <4>1
        <3>4. CASE c = r.coll
            <4>1. mem'[c] = n /\ mem[c] = m /\ seen'[c] = seen[c] \cup n.live
                BY <1>0, <2>2, <3>4
            <4>2. l \in Waiting(c)
                BY <1>0, <2>2, <3>4 DEF Waiting
            <4>3. seen'[c] \subseteq seen[c] \cup Installed(r)
                BY <1>0, <3>1, <4>1
            <4>4. free[c] \cap Installed(r) = {}
                BY <1>0, <2>2, <3>1, <4>2
            <4>5. \A k \in Waiting(c)' : Installed(hist[k]) \cap Installed(r) = {}
                BY <1>0, <2>2, <3>1, <3>2, <4>2
            <4>6. \A k \in Waiting(c)' : Installed(hist[k]) \cap (free[c] \cup seen[c]) = {}
                BY <1>0, <3>1, <3>2
            <4>7. \A k \in Waiting(c)' : Installed(hist'[k]) \cap (free'[c] \cup seen'[c]) = {}
                BY <2>2, <4>3, <4>5, <4>6
            <4>8. mem'[c].live \subseteq seen'[c] /\ free'[c] \cap seen'[c] = {}
                BY <1>0, <2>2, <3>1, <4>1, <4>3, <4>4
            <4> QED BY <1>0, <2>2, <3>1, <3>2, <4>7, <4>8
        <3> QED BY <3>3, <3>4
    <2> QED BY <2>3, <2>4
<1>5. CASE Crash
    BY <1>0, <1>5 DEF Crash, Running
<1>6. CASE Open
    BY <1>0, <1>6 DEF Open, Running
<1>7. CASE Replay
    BY <1>0, <1>7 DEF Replay, Running
<1>8. CASE Ready
    <2>1. NextFrame = applied + 1
        <3>1. base \in Nat /\ base <= applied
            BY <1>8 DEF Ready, ControlInv, TypeOK, Types
        <3> QED BY <1>0, <3>1, MaxOfTwo DEF NextFrame, Later
    <2>2. applied >= Len(hist) /\ UNCHANGED <<hist, applied, mem>>
        BY <1>0, <1>8, <2>1 DEF Ready
    <2>3. Waiting(c)' = {}
        BY <1>0, <2>2 DEF Waiting
    <2>4. /\ free'[c] = {o \in Ordinals : o >= mem[c].count} /\ seen'[c] = mem[c].live
          /\ pc = "replay" /\ pc' = "idle"
        BY <1>8 DEF Ready
    <2>5. \A o \in mem[c].live : o \in Nat /\ o < mem[c].count
        BY <1>0, <2>4, StoredFields, OrdinalsAreNaturals DEF SessionInv, SessionOf
    <2>6. mem[c].count \in Nat
        BY <1>0, StoredFields
    <2>7. free'[c] \cap seen'[c] = {}
        BY <2>4, <2>5, <2>6
    <2> QED BY <2>2, <2>3, <2>4, <2>7 DEF Running
<1> QED BY <1>1, <1>2, <1>3, <1>4, <1>5, <1>6, <1>7, <1>8 DEF Next

(* The fan-out that has begun.                                             *)
LEMMA FanOutStep == TypeOK /\ ControlInv /\ StepInv /\ Next => StepInv'
<1> SUFFICES ASSUME TypeOK, ControlInv, StepInv, Next PROVE StepInv'
    OBVIOUS
<1>1. CASE Reach
    <2>1. PICK l, r, m, n : Reached(l, r, m, n)
        BY <1>1, ReachReaches
    <2>2. /\ mem' = [mem EXCEPT ![r.coll] = n] /\ m = mem[r.coll] /\ UNCHANGED hist
          /\ l = applied + 1 /\ r = hist[l] /\ step \in {0, 1, 2} /\ r.coll \in Collections
          /\ mem \in [Collections -> Stored] /\ Installed(r) \subseteq Ordinals
        BY <2>1, LoggedFields DEF Reached, TypeOK, Types
    <2>3. mem'[r.coll] = n
        BY <2>2
    <2>4. CASE step = 2
        BY <2>1, <2>4 DEF Reached, ApplyDone, StepInv
    <2>5. CASE step = 0
        <3>1. /\ \A o \in Installed(r) : n.flat[o] = l /\ o < n.count
              /\ step' = 1 /\ applied' = applied
            BY <2>1, <2>2, <2>5 DEF Reached
        <3> QED BY <2>2, <2>3, <3>1 DEF StepInv
    <2>6. CASE step = 1
        <3>1. /\ \A o \in Installed(r) : n.tuple[o] = l /\ n.flat[o] = m.flat[o]
              /\ n.count = m.count /\ step' = 2 /\ applied' = applied
            BY <2>1, <2>2, <2>6 DEF Reached
        <3>2. \A o \in Installed(r) : m.flat[o] = l /\ o < m.count
            BY <2>2, <2>6 DEF StepInv
        <3> QED BY <2>2, <2>3, <3>1, <3>2 DEF StepInv
    <2> QED BY <2>2, <2>4, <2>5, <2>6
<1>2. CASE Refuse
    BY <1>2 DEF Refuse, ApplyDone, StepInv
<1>3. CASE Statement
    <2>1. PICK e : Recorded(e)
        BY <1>3, StatementRecords
    <2> QED BY <2>1 DEF Recorded, ControlInv, StepInv
<1>4. CASE \/ BeginApply \/ BeginCheckpoint \/ SyncStore \/ SyncCatalog \/ Truncate
           \/ CheckpointFails \/ Crash \/ Open \/ Replay \/ Ready
    <2>1. step' = 0
        BY <1>4 DEF BeginApply, BeginCheckpoint, SyncStore, SyncCatalog, Truncate, CheckpointFails,
                    Crash, Open, Replay, Ready, ControlInv
    <2> QED BY <2>1 DEF StepInv
<1> QED BY <1>1, <1>2, <1>3, <1>4 DEF Next

LEMMA SafeInit == Init => Safe
<1> SUFFICES ASSUME Init PROVE Safe
    OBVIOUS
<1>1. ControlInv
    BY DEF Init, ControlInv, Running
<1>2. LsnInv
    BY EmptyFields DEF Init, LsnInv, LsnOf, Ordered, Running
<1>3. SyncInv /\ StepInv
    BY DEF Init, SyncInv, StepInv
<1>4. SessionInv
    BY EmptyFields DEF Init, SessionInv, SessionOf, Fresh, Waiting, Running
<1> QED BY <1>1, <1>2, <1>3, <1>4, TypeInit DEF Safe

LEMMA SafeStep == Safe /\ [Next]_vars => Safe'
<1> SUFFICES ASSUME Safe, [Next]_vars PROVE Safe'
    OBVIOUS
<1>1. CASE Next
    <2>1. TypeOK' /\ ControlInv' /\ LsnInv' /\ SyncInv' /\ StepInv'
        BY <1>1, TypeStep, ControlStep, LsnStep, SyncStep, FanOutStep DEF Safe
    <2>2. SessionInv'
        BY <1>1, SessionStep DEF Safe, SessionInv
    <2> QED BY <2>1, <2>2 DEF Safe
<1>2. CASE UNCHANGED vars
    BY <1>2 DEF vars, Safe, TypeOK, Types, Placed, ControlInv, LsnInv, LsnOf, SyncInv, SessionInv,
                SessionOf, Fresh, Waiting, StepInv, Running
<1> QED BY <1>1, <1>2

(* Types, control, watermarks, sessions and fan-outs: invariants of every  *)
(* run, whatever a replay is judged by (src/src/engine/mod.rs).            *)
THEOREM SafeInvariance == Spec => []Safe
<1> QED BY SafeInit, SafeStep, PTL DEF Spec

(* No record leaves the log before every store of its collection is        *)
(* durable past it, wherever checkpoints stop and crashes strike.          *)
THEOREM TruncationIsSafe == Spec => []TruncationSafe
<1>1. Safe => TruncationSafe
    <2> SUFFICES ASSUME Safe, NEW l \in 1 .. base PROVE l <= Watermark(disk[hist[l].coll])
        BY DEF TruncationSafe
    <2>1. /\ hist \in Seq(Logged) /\ Len(hist) \in Nat /\ base \in Nat /\ catalog \in Nat
          /\ base <= catalog /\ catalog <= Len(hist)
        BY DEF Safe, TypeOK, Types, ControlInv
    <2>2. l \in 1 .. Len(hist)
        BY <2>1
    <2>3. PICK c \in Collections : c = hist[l].coll
        BY <2>1, <2>2, LoggedFields
    <2>4. LsnOf(c) /\ disk[c] \in Stored
        BY DEF Safe, LsnInv, TypeOK, Types
    <2>5. Watermark(disk[c]) = disk[c].tupleLsn /\ disk[c].tupleLsn \in Nat
        BY <2>4, OrderedWatermark, StoredFields DEF LsnOf, Ordered
    <2> QED BY <2>1, <2>3, <2>4, <2>5 DEF LsnOf
<1> QED BY <1>1, SafeInvariance, PTL

(* The data of a row a snapshot has held stays as it is while the database *)
(* is open: no record still to be applied has its ordinal.                 *)
THEOREM RowsAreStable == Spec => RowsStable
<1>1. ASSUME Safe, Next, pc # "down", pc' # "down", NEW c \in Collections, NEW o \in seen[c]
      PROVE  mem'[c].flat[o] = mem[c].flat[o] /\ mem'[c].tuple[o] = mem[c].tuple[o]
    <2>0. /\ TypeOK /\ ControlInv /\ SessionOf(c) /\ mem \in [Collections -> Stored]
          /\ applied \in Nat /\ hist \in Seq(Logged) /\ o \in Ordinals
        BY <1>1 DEF Safe, SessionInv, TypeOK, Types
    <2>1. Running
        BY <2>0 DEF SessionOf, Fresh
    <2>2. CASE Statement
        <3>1. PICK e : Recorded(e)
            BY <2>0, <2>2, StatementRecords
        <3> QED BY <3>1 DEF Recorded
    <2>3. CASE Refuse
        <3>1. PICK l, r, m, n : Skipped(l, r, m, n)
            BY <2>0, <2>3, RefuseSkips
        <3> QED BY <2>0, <3>1 DEF Skipped
    <2>4. CASE Reach
        <3>1. PICK l, r, m, n : Reached(l, r, m, n)
            BY <2>0, <2>4, ReachReaches
        <3>2. /\ l = applied + 1 /\ l \in 1 .. Len(hist) /\ r = hist[l] /\ m = mem[r.coll]
              /\ mem' = [mem EXCEPT ![r.coll] = n]
              /\ \A p \in Ordinals :
                    /\ n.flat[p] = IF step = 0 /\ p \in Installed(r) THEN l ELSE m.flat[p]
                    /\ n.tuple[p] = IF step = 1 /\ p \in Installed(r) THEN l ELSE m.tuple[p]
            BY <3>1 DEF Reached
        <3>3. CASE c # r.coll
            BY <2>0, <3>2, <3>3
        <3>4. CASE c = r.coll
            <4>1. l \in Waiting(c)
                BY <2>0, <3>2, <3>4 DEF Waiting
            <4>2. o \notin Installed(r)
                BY <1>1, <2>0, <2>1, <3>2, <4>1 DEF SessionOf, Fresh
            <4> QED BY <2>0, <3>2, <3>4, <4>2
        <3> QED BY <3>3, <3>4
    <2>5. CASE Replay \/ Ready \/ Open
        BY <2>1, <2>5 DEF Replay, Ready, Open, Running
    <2>6. CASE \/ BeginApply \/ BeginCheckpoint \/ SyncStore \/ SyncCatalog \/ Truncate
               \/ CheckpointFails \/ Crash
        BY <1>1, <2>6 DEF BeginApply, BeginCheckpoint, SyncStore, SyncCatalog, Truncate,
                          CheckpointFails, Crash
    <2> QED BY <1>1, <2>2, <2>3, <2>4, <2>5, <2>6 DEF Next
<1>2. Safe /\ [Next]_vars => [pc # "down" /\ pc' # "down" =>
          \A c \in Collections : \A o \in seen[c] :
              mem'[c].flat[o] = mem[c].flat[o] /\ mem'[c].tuple[o] = mem[c].tuple[o]]_vars
    BY <1>1
<1> QED BY <1>2, SafeInvariance, PTL DEF Spec, RowsStable

-----------------------------------------------------------------------------
(* The rows a set A of applied records leaves, of a history h: what they   *)
(* install, less what they retire.                                         *)
Applied(h, c, n) == {l \in 1 .. n : h[l].coll = c /\ h[l].verdict = "applied"}
Inst(h, A) == {o \in Ordinals : \E l \in A : o \in Installed(h[l])}
Ret(h, A) == {o \in Ordinals : \E l \in A : o \in h[l].retire}
Alive(h, A) == Inst(h, A) \ Ret(h, A)

(* The verdict record r gets where A is what was applied before it.        *)
Due(h, A, r) ==
    \/ /\ r.kind = "insert" /\ r.coll \in Keyed
       /\ \E i \in A : \E o \in Installed(h[i]) \ Ret(h, A), x \in Installed(r) :
             r.install[x] = h[i].install[o]
    \/ IsStale(Alive(h, A), r)

(* Every verdict is the one that was due, an ordinal is installed by one   *)
(* applied record, and what a record retires was installed before it.      *)
Once(h, A) == \A i, j \in A : \A o \in Installed(h[i]) : o \in Installed(h[j]) => i = j
Past(h, c) ==
    /\ Once(h, Applied(h, c, Len(h)))
    /\ \A l \in 1 .. Len(h) : h[l].coll = c =>
          /\ h[l].verdict = IF Due(h, Applied(h, c, l - 1), h[l]) THEN "refused" ELSE "applied"
          /\ h[l].retire \subseteq Inst(h, Applied(h, c, l - 1))

(* The rows A leaves have different keys.                                  *)
Apart(h, A) ==
    \A i, j \in A : \A o \in Installed(h[i]) \ Ret(h, A), p \in Installed(h[j]) \ Ret(h, A) :
        o # p => h[i].install[o] # h[j].install[p]

(* A store holds at an ordinal nothing but what its one record put there.  *)
Honest(h, N, s) ==
    \A o \in Ordinals :
        /\ s.flat[o] # 0 => s.flat[o] \in N /\ o \in Installed(h[s.flat[o]])
        /\ s.tuple[o] # 0 => s.tuple[o] \in N /\ o \in Installed(h[s.tuple[o]])
        /\ \A k \in s.post[o] : \E i \in N : o \in Installed(h[i]) /\ k = h[i].install[o]

(* What the records of A put into the vectors, the keys and the tuples; a  *)
(* tuple may be missing where its row is gone.                             *)
Written(h, A, s) ==
    \A i \in A : \A o \in Installed(h[i]) :
        o < s.count /\ s.flat[o] = i /\ h[i].install[o] \in s.post[o]
Kept(h, A, gone, s) == \A i \in A : \A o \in Installed(h[i]) \ gone : s.tuple[o] = i

(* The stores on disk, each at its own watermark.                          *)
OnDisk(h, c, d) ==
    /\ Honest(h, Applied(h, c, Len(h)), d)
    /\ d.live = Alive(h, Applied(h, c, d.metaLsn))
    /\ Written(h, Applied(h, c, d.metaLsn), d)
    /\ Kept(h, Applied(h, c, d.tupleLsn), Ret(h, Applied(h, c, d.tupleLsn)), d)

(* The stores in memory, where B is what the liveness they started from    *)
(* and the records since have applied, and E what has been replayed of it. *)
Holds(h, N, B, E, m) ==
    /\ Honest(h, N, m)
    /\ Alive(h, B) \subseteq m.live
    /\ \A o \in m.live : o \in Alive(h, B) \/ o \in Ret(h, B) \ Ret(h, E)
    /\ Written(h, B, m)
    /\ Kept(h, E, Ret(h, B), m)

(* The live rows and the records that wrote them.                          *)
TrueRowsOf(h, N) == {p \in Ordinals \X N : p[1] \in Installed(h[p[2]]) \ Ret(h, N)}

HistInv(c) ==
    LET N == Applied(hist, c, Len(hist))
    IN  /\ Past(hist, c)
        /\ c \in Keyed => \A n \in 0 .. Len(hist) : Apart(hist, Applied(hist, c, n))
        /\ truth[c] = TrueRowsOf(hist, N)
        /\ free[c] \cap Inst(hist, N) = {} /\ seen[c] \subseteq Inst(hist, N)

(* Memory m, started from disk d, when the log is applied up to a.         *)
Follows(h, c, a, d, m) ==
    /\ Holds(h, Applied(h, c, Len(h)), Applied(h, c, Later(a, d.metaLsn)),
             Applied(h, c, Later(a, d.tupleLsn)), m)
    /\ \A o \in Ordinals : d.flat[o] # 0 => m.flat[o] = d.flat[o]
MemInv(c) == pc # "down" => Follows(hist, c, applied, disk[c], mem[c])

(* A replay that is not skewed judges by newer liveness only what comes    *)
(* out the same.                                                           *)
ReplayInv(c) == pc = "replay" => Rejudged(c) = {}

(* The record whose fan-out has begun.                                     *)
BegunInv(c) == step > 0 /\ hist[applied + 1].coll = c => hist[applied + 1].verdict = "applied"

InStepOf(c) == HistInv(c) /\ OnDisk(hist, c, disk[c]) /\ MemInv(c) /\ ReplayInv(c) /\ BegunInv(c)
InStep == \A c \in Collections \ skewed : InStepOf(c)

-----------------------------------------------------------------------------
(* Sets of records and the rows they leave.                                *)
LEMMA AppliedLater ==
    ASSUME NEW h, NEW c, NEW n \in Nat, NEW x \in Nat, NEW l, l = n + 1
    PROVE  /\ h[l].coll = c /\ h[l].verdict = "applied"
                  => Applied(h, c, Later(l, x)) = Applied(h, c, Later(n, x)) \cup {l}
           /\ ~(h[l].coll = c /\ h[l].verdict = "applied")
                  => Applied(h, c, Later(l, x)) = Applied(h, c, Later(n, x))
           /\ l > x => Later(n, x) = n /\ Later(l, x) = l
<1>1. CASE l > x
    <2>1. Later(n, x) = n /\ Later(l, x) = l
        BY <1>1 DEF Later
    <2> QED BY <2>1 DEF Applied
<1>2. CASE ~(l > x)
    <2>1. Later(n, x) = x /\ Later(l, x) = x /\ l \in 1 .. x
        BY <1>2 DEF Later
    <2>2. h[l].coll = c /\ h[l].verdict = "applied" => l \in Applied(h, c, x)
        BY <2>1 DEF Applied
    <2> QED BY <1>2, <2>1, <2>2
<1> QED BY <1>1, <1>2

LEMMA AppliedGrows ==
    ASSUME NEW h, NEW c, NEW m \in Nat, NEW n \in Nat, m <= n
    PROVE  /\ Applied(h, c, m) \subseteq Applied(h, c, n)
           /\ (\A l \in m + 1 .. n : h[l].coll # c) => Applied(h, c, m) = Applied(h, c, n)
BY DEF Applied

LEMMA RowsGrow ==
    ASSUME NEW h, NEW A, NEW B, A \subseteq B
    PROVE  Inst(h, A) \subseteq Inst(h, B) /\ Ret(h, A) \subseteq Ret(h, B)
BY DEF Inst, Ret

LEMMA RowsNext ==
    ASSUME NEW h, NEW A, NEW l, h[l] \in Logged
    PROVE  /\ Inst(h, A \cup {l}) = Inst(h, A) \cup Installed(h[l])
           /\ Ret(h, A \cup {l}) = Ret(h, A) \cup h[l].retire
BY LoggedFields DEF Inst, Ret

(* Histories that agree on some records agree on what these leave.         *)
LEMMA SameRows ==
    ASSUME NEW h, NEW k, NEW A, \A l \in A : h[l] = k[l]
    PROVE  /\ Inst(h, A) = Inst(k, A) /\ Ret(h, A) = Ret(k, A) /\ Alive(h, A) = Alive(k, A)
           /\ Once(h, A) <=> Once(k, A)
           /\ Apart(h, A) <=> Apart(k, A)
           /\ \A r : Due(h, A, r) <=> Due(k, A, r)
<1>1. Inst(h, A) = Inst(k, A) /\ Ret(h, A) = Ret(k, A)
    BY DEF Inst, Ret
<1>2. Alive(h, A) = Alive(k, A)
    BY <1>1 DEF Alive
<1>3. Once(h, A) <=> Once(k, A)
    BY DEF Once
<1>4. Apart(h, A) <=> Apart(k, A)
    BY <1>1 DEF Apart
<1>5. \A r : Due(h, A, r) <=> Due(k, A, r)
    BY <1>1, <1>2 DEF Due
<1> QED BY <1>1, <1>2, <1>3, <1>4, <1>5

(* Nothing is retired that was not installed before, and an ordinal is     *)
(* installed once: a record's ordinals are not retired up to the record.   *)
LEMMA RetiredWereInstalled ==
    ASSUME NEW h \in Seq(Logged), NEW c, Past(h, c), NEW n \in 0 .. Len(h)
    PROVE  /\ Applied(h, c, n) \subseteq Applied(h, c, Len(h)) /\ Applied(h, c, n) \subseteq 1 .. n
           /\ Ret(h, Applied(h, c, n)) \subseteq Inst(h, Applied(h, c, n))
<1>0. Len(h) \in Nat
    OBVIOUS
<1>1. Applied(h, c, n) \subseteq Applied(h, c, Len(h)) /\ Applied(h, c, n) \subseteq 1 .. n
    BY <1>0 DEF Applied
<1>2. ASSUME NEW o \in Ret(h, Applied(h, c, n)) PROVE o \in Inst(h, Applied(h, c, n))
    <2>1. PICK l \in Applied(h, c, n) : o \in h[l].retire
        BY DEF Ret
    <2>2. l \in 1 .. n /\ l \in 1 .. Len(h) /\ h[l].coll = c
        BY <1>0, <2>1 DEF Applied
    <2>3. o \in Inst(h, Applied(h, c, l - 1))
        BY <2>1, <2>2 DEF Past
    <2>4. Applied(h, c, l - 1) \subseteq Applied(h, c, n)
        BY <2>2, AppliedGrows
    <2> QED BY <2>3, <2>4, RowsGrow
<1> QED BY <1>1, <1>2

LEMMA NewOrdinals ==
    ASSUME NEW h, NEW N, Once(h, N), NEW A, A \subseteq N, NEW l \in N, l \notin A
    PROVE  Inst(h, A) \cap Installed(h[l]) = {}
BY DEF Once, Inst

(* Memory that is not behind its liveness holds exactly what A leaves.     *)
LEMMA ExactRows ==
    ASSUME NEW h, NEW N, Once(h, N), NEW A, A \subseteq N, NEW m \in Stored, Holds(h, N, A, A, m),
           \A i \in N : Installed(h[i]) \subseteq Ordinals
    PROVE  /\ m.live = Alive(h, A)
           /\ \A i \in A : \A o \in Installed(h[i]) : m.post[o] = {h[i].install[o]}
<1>1. m.live = Alive(h, A)
    BY DEF Holds
<1>2. ASSUME NEW i \in A, NEW o \in Installed(h[i]) PROVE m.post[o] = {h[i].install[o]}
    <2>1. h[i].install[o] \in m.post[o]
        BY DEF Holds, Written
    <2>2. ASSUME NEW k \in m.post[o] PROVE k = h[i].install[o]
        <3>1. PICK j \in N : o \in Installed(h[j]) /\ k = h[j].install[o]
            BY DEF Holds, Honest
        <3>2. i = j
            BY <3>1 DEF Once
        <3> QED BY <3>1, <3>2
    <2> QED BY <2>1, <2>2
<1> QED BY <1>1, <1>2

(* Such a memory gives a record the verdict that is due.                   *)
LEMMA ExactVerdict ==
    ASSUME NEW h, NEW N, Once(h, N), NEW A, A \subseteq N, NEW m \in Stored, Holds(h, N, A, A, m),
           \A i \in N : Installed(h[i]) \subseteq Ordinals, NEW r
    PROVE  Refused(m.live, m.post, r) <=> Due(h, A, r)
<1>1. /\ m.live = Alive(h, A)
      /\ \A i \in A : \A o \in Installed(h[i]) : m.post[o] = {h[i].install[o]}
    BY ExactRows
<1>2. DuplicateKey(m.live, m.post, r) <=>
          /\ r.kind = "insert" /\ r.coll \in Keyed
          /\ \E i \in A : \E o \in Installed(h[i]) \ Ret(h, A), x \in Installed(r) :
                r.install[x] = h[i].install[o]
    <2>1. ASSUME NEW o \in m.live, NEW x \in Installed(r), r.install[x] \in m.post[o]
          PROVE  \E i \in A : \E p \in Installed(h[i]) \ Ret(h, A), y \in Installed(r) :
                     r.install[y] = h[i].install[p]
        <3>1. PICK i \in A : o \in Installed(h[i])
            BY <1>1 DEF Alive, Inst
        <3>2. o \notin Ret(h, A) /\ r.install[x] = h[i].install[o]
            BY <1>1, <2>1, <3>1 DEF Alive
        <3> QED BY <3>1, <3>2
    <2>2. ASSUME NEW i \in A, NEW o \in Installed(h[i]) \ Ret(h, A), NEW x \in Installed(r),
                 r.install[x] = h[i].install[o]
          PROVE  o \in m.live /\ r.install[x] \in m.post[o]
        BY <1>1, <2>2 DEF Alive, Inst
    <2> QED BY <2>1, <2>2 DEF DuplicateKey
<1> QED BY <1>1, <1>2 DEF Refused, Due

-----------------------------------------------------------------------------
(* What a record does to stores that hold the records before it.           *)
Effect(m, t, r, l) ==
    /\ t.live = (m.live \cup Installed(r)) \ r.retire
    /\ t.post = Reposted(m.post, r)
    /\ m.count <= t.count
    /\ \A o \in Installed(r) : o < t.count /\ t.flat[o] = l /\ t.tuple[o] = l
    /\ \A o \in Ordinals \ Installed(r) : t.flat[o] = m.flat[o] /\ t.tuple[o] = m.tuple[o]

(* Once its whole effect is there, the stores hold the record too, whether *)
(* it is new or replayed under a liveness that has it already.             *)
LEMMA HoldsApplied ==
    ASSUME NEW h, NEW N, Once(h, N), \A i \in N : h[i] \in Logged,
           NEW B, B \subseteq N, NEW E, E \subseteq B, NEW l \in N, l \notin E,
           Ret(h, E) \subseteq Inst(h, E), NEW r, r = h[l], l # 0,
           NEW m \in Stored, NEW t \in Stored, Holds(h, N, B, E, m), Effect(m, t, r, l)
    PROVE  Holds(h, N, B \cup {l}, E \cup {l}, t)
<1> DEFINE BB == B \cup {l}
           EE == E \cup {l}
           I == Installed(r)
<1>1. /\ Inst(h, BB) = Inst(h, B) \cup I /\ Ret(h, BB) = Ret(h, B) \cup r.retire
      /\ Ret(h, EE) = Ret(h, E) \cup r.retire /\ I \subseteq Ordinals /\ r \in Logged
    BY RowsNext, LoggedFields
<1>2. I \cap Ret(h, E) = {}
    BY NewOrdinals
<1>3. \A i \in B : \A o \in Installed(h[i]) : o \in I => i = l
    BY DEF Once
<1>4. \A i \in B : \A o \in Installed(h[i]) : o \in Ordinals
    BY LoggedFields
<1> HIDE DEF BB, EE, I
<1>5. Alive(h, BB) \subseteq t.live
    <2>1. Alive(h, B) \subseteq m.live
        BY DEF Holds
    <2> QED BY <1>1, <2>1 DEF Alive, Effect, I
<1>6. ASSUME NEW o \in t.live PROVE o \in Alive(h, BB) \/ o \in Ret(h, BB) \ Ret(h, EE)
    <2>1. o \notin r.retire /\ (o \in m.live \/ o \in I)
        BY DEF Effect, I
    <2>2. CASE o \in I
        BY <1>1, <1>2, <2>1, <2>2 DEF Alive
    <2>3. CASE o \in m.live
        <3>1. o \in Alive(h, B) \/ o \in Ret(h, B) \ Ret(h, E)
            BY <2>3 DEF Holds
        <3> QED BY <1>1, <2>1, <3>1 DEF Alive
    <2> QED BY <2>1, <2>2, <2>3
<1>7. Written(h, BB, t)
    <2>1. ASSUME NEW i \in B, NEW o \in Installed(h[i])
          PROVE  o < t.count /\ t.flat[o] = i /\ h[i].install[o] \in t.post[o]
        <3>1. o < m.count /\ m.flat[o] = i /\ h[i].install[o] \in m.post[o] /\ o \in Ordinals
            BY <1>4 DEF Holds, Written
        <3>2. o < t.count
            BY <3>1, StoredFields, OrdinalsAreNaturals DEF Effect
        <3>3. t.flat[o] = i
            <4>1. CASE o \in I
                BY <1>3, <4>1 DEF Effect, I
            <4>2. CASE o \notin I
                BY <3>1, <4>2 DEF Effect, I
            <4> QED BY <4>1, <4>2
        <3>4. h[i].install[o] \in t.post[o]
            BY <3>1 DEF Effect, Reposted
        <3> QED BY <3>2, <3>3, <3>4
    <2>2. ASSUME NEW o \in Installed(h[l])
          PROVE  o < t.count /\ t.flat[o] = l /\ h[l].install[o] \in t.post[o]
        <3>1. o \in Ordinals /\ o \in Installed(r)
            BY <1>1 DEF I
        <3>2. t.post[o] = m.post[o] \cup {r.install[o]}
            BY <3>1 DEF Effect, Reposted
        <3> QED BY <3>1, <3>2 DEF Effect
    <2> QED BY <2>1, <2>2 DEF Written, BB
<1>8. Kept(h, EE, Ret(h, BB), t)
    <2>1. ASSUME NEW i \in E, NEW o \in Installed(h[i]) \ Ret(h, BB) PROVE t.tuple[o] = i
        <3>1. m.tuple[o] = i /\ o \in Ordinals
            BY <1>1, <1>4 DEF Holds, Kept
        <3>2. CASE o \in I
            BY <1>3, <3>2 DEF Effect, I
        <3>3. CASE o \notin I
            BY <3>1, <3>3 DEF Effect, I
        <3> QED BY <3>2, <3>3
    <2>2. \A o \in Installed(h[l]) : t.tuple[o] = l
        BY DEF Effect
    <2> QED BY <2>1, <2>2 DEF Kept, EE
<1>9. Honest(h, N, t)
    <2>1. ASSUME NEW o \in Ordinals
          PROVE  /\ t.flat[o] # 0 => t.flat[o] \in N /\ o \in Installed(h[t.flat[o]])
                 /\ t.tuple[o] # 0 => t.tuple[o] \in N /\ o \in Installed(h[t.tuple[o]])
                 /\ \A k \in t.post[o] : \E i \in N : o \in Installed(h[i]) /\ k = h[i].install[o]
        <3>1. /\ m.flat[o] # 0 => m.flat[o] \in N /\ o \in Installed(h[m.flat[o]])
              /\ m.tuple[o] # 0 => m.tuple[o] \in N /\ o \in Installed(h[m.tuple[o]])
              /\ \A k \in m.post[o] : \E i \in N : o \in Installed(h[i]) /\ k = h[i].install[o]
            BY DEF Holds, Honest
        <3>2. CASE o \in I
            <4>1. t.flat[o] = l /\ t.tuple[o] = l /\ t.post[o] = m.post[o] \cup {r.install[o]}
                BY <3>2 DEF Effect, Reposted, I
            <4> QED BY <3>1, <3>2, <4>1 DEF I
        <3>3. CASE o \notin I
            <4>1. t.flat[o] = m.flat[o] /\ t.tuple[o] = m.tuple[o] /\ t.post[o] = m.post[o]
                BY <3>3 DEF Effect, Reposted, I
            <4> QED BY <3>1, <4>1
        <3> QED BY <3>2, <3>3
    <2> QED BY <2>1 DEF Honest
<1>10. \A o \in t.live : o \in Alive(h, BB) \/ o \in Ret(h, BB) \ Ret(h, EE)
    BY <1>6
<1>11. Holds(h, N, BB, EE, t)
    BY <1>5, <1>7, <1>8, <1>9, <1>10 DEF Holds
<1> QED BY <1>11 DEF BB, EE

(* While the record is on its way, the stores hold what they held.         *)
LEMMA HoldsMeanwhile ==
    ASSUME NEW h, NEW N, Once(h, N), \A i \in N : h[i] \in Logged,
           NEW B, B \subseteq N, NEW E, E \subseteq B, NEW l \in N, l \notin B,
           NEW m \in Stored, NEW t \in Stored, Holds(h, N, B, E, m),
           t.live = m.live, t.post = m.post, m.count <= t.count,
           \A o \in Ordinals : /\ t.flat[o] # m.flat[o] => t.flat[o] = l /\ o \in Installed(h[l])
                               /\ t.tuple[o] # m.tuple[o] => t.tuple[o] = l /\ o \in Installed(h[l])
    PROVE  Holds(h, N, B, E, t)
<1>1. \A i \in B : \A o \in Installed(h[i]) : o \in Ordinals /\ o \notin Installed(h[l])
    BY LoggedFields DEF Once
<1>2. Honest(h, N, t)
    BY DEF Holds, Honest
<1>3. Written(h, B, t)
    <2>1. ASSUME NEW i \in B, NEW o \in Installed(h[i])
          PROVE  o < t.count /\ t.flat[o] = i /\ h[i].install[o] \in t.post[o]
        <3>1. o < m.count /\ m.flat[o] = i /\ h[i].install[o] \in m.post[o] /\ o \in Ordinals
            BY <1>1 DEF Holds, Written
        <3>2. o < t.count
            BY <3>1, StoredFields, OrdinalsAreNaturals
        <3> QED BY <1>1, <3>1, <3>2
    <2> QED BY <2>1 DEF Written
<1>4. Kept(h, E, Ret(h, B), t)
    <2>1. ASSUME NEW i \in E, NEW o \in Installed(h[i]) \ Ret(h, B) PROVE t.tuple[o] = i
        <3>1. m.tuple[o] = i
            BY DEF Holds, Kept
        <3> QED BY <1>1, <3>1
    <2> QED BY <2>1 DEF Kept
<1> QED BY <1>2, <1>3, <1>4 DEF Holds

(* A record the newer liveness already has, refused because the one row it *)
(* retires is gone: there is nothing left for it to do.                    *)
LEMMA HoldsPassed ==
    ASSUME NEW h, NEW N, NEW B, B \subseteq N, NEW E, NEW l \in B, h[l] \in Logged,
           NEW m \in Stored, NEW t \in Stored, Holds(h, N, B, E, m),
           t.live = m.live, t.post = m.post, t.count = m.count, t.flat = m.flat, t.tuple = m.tuple,
           h[l].retire \cap m.live = {}, Installed(h[l]) \cap m.live = {}
    PROVE  Holds(h, N, B, E \cup {l}, t)
<1>1. Ret(h, E \cup {l}) = Ret(h, E) \cup h[l].retire
    BY RowsNext
<1>2. \A o \in t.live : o \in Alive(h, B) \/ o \in Ret(h, B) \ Ret(h, E \cup {l})
    BY <1>1 DEF Holds
<1>3. Installed(h[l]) \subseteq Ret(h, B)
    <2>1. Installed(h[l]) \subseteq Inst(h, B)
        BY LoggedFields DEF Inst
    <2>2. Alive(h, B) \subseteq m.live
        BY DEF Holds
    <2> QED BY <2>1, <2>2 DEF Alive
<1>4. Kept(h, E \cup {l}, Ret(h, B), t)
    BY <1>3 DEF Holds, Kept
<1>5. Honest(h, N, t) /\ Written(h, B, t) /\ Alive(h, B) \subseteq t.live
    BY DEF Holds, Honest, Written
<1> QED BY <1>2, <1>4, <1>5 DEF Holds

(* What is held depends on the data only, not on the watermarks.           *)
LEMMA HoldsSame ==
    ASSUME NEW h, NEW N, NEW B, NEW E, NEW m, NEW t, Holds(h, N, B, E, m),
           t.live = m.live, t.post = m.post, t.count = m.count, t.flat = m.flat, t.tuple = m.tuple
    PROVE  Holds(h, N, B, E, t)
BY DEF Holds, Honest, Written, Kept

(* An applied fold has its effect.                                         *)
LEMMA FoldEffect ==
    ASSUME NEW m \in Stored, NEW r \in Logged, NEW l \in Nat, NEW t, t = Fold(m, r, l),
           Verdict(m, r) = "applied"
    PROVE  Effect(m, t, r, l)
<1>1. /\ t.live = (m.live \cup Installed(r)) \ r.retire /\ t.post = Reposted(m.post, r)
      /\ \A o \in Installed(r) : o < t.count
      /\ \A o \in Ordinals : /\ t.flat[o] = IF o \in Installed(r) THEN l ELSE m.flat[o]
                             /\ t.tuple[o] = IF o \in Installed(r) THEN l ELSE m.tuple[o]
      /\ m.count <= t.count
    BY FoldFields
<1>2. Installed(r) \subseteq Ordinals
    BY LoggedFields
<1> QED BY <1>1, <1>2 DEF Effect

-----------------------------------------------------------------------------
(* A history that grows by one record keeps what was said of the old one.  *)
Grown(h, k) ==
    /\ h \in Seq(Logged) /\ k \in Seq(Logged) /\ Len(k) = Len(h) + 1
    /\ \A l \in 1 .. Len(h) : k[l] = h[l]

LEMMA GrownSets ==
    ASSUME NEW h, NEW k, Grown(h, k), NEW c, NEW N, N = Applied(h, c, Len(h)),
           NEW n, n = Len(h) + 1, NEW M, M = Applied(k, c, n)
    PROVE  /\ n \in Nat /\ n = Len(k) /\ N \subseteq 1 .. Len(h) /\ n \notin N
           /\ N = Applied(k, c, Len(h))
           /\ k[n].coll = c /\ k[n].verdict = "applied" => M = N \cup {n}
           /\ ~(k[n].coll = c /\ k[n].verdict = "applied") => M = N
           /\ \A i \in N : k[i] = h[i] /\ h[i] \in Logged
           /\ k[n] \in Logged
<1>1. /\ Len(h) \in Nat /\ Len(k) = Len(h) + 1 /\ h \in Seq(Logged) /\ k \in Seq(Logged)
      /\ \A l \in 1 .. Len(h) : k[l] = h[l]
    BY DEF Grown
<1>2. N \subseteq 1 .. Len(h)
    BY <1>1 DEF Applied
<1>3. N = Applied(k, c, Len(h))
    BY <1>1 DEF Applied
<1>4. /\ k[n].coll = c /\ k[n].verdict = "applied" => M = N \cup {n}
      /\ ~(k[n].coll = c /\ k[n].verdict = "applied") => M = N
    BY <1>1, <1>3 DEF Applied
<1>5. \A i \in N : k[i] = h[i] /\ h[i] \in Logged
    BY <1>1, <1>2
<1>6. k[n] \in Logged
    <2>1. n \in 1 .. Len(k)
        BY <1>1
    <2>2. k \in Seq(Logged)
        BY <1>1
    <2> QED BY ONLY <2>1, <2>2
<1>7. n \in Nat /\ n = Len(k) /\ n \notin N
    BY <1>1, <1>2
<1> QED BY <1>2, <1>3, <1>4, <1>5, <1>6, <1>7

LEMMA HonestGrows ==
    ASSUME NEW h, NEW k, NEW N, NEW M, N \subseteq M, \A i \in N : k[i] = h[i],
           NEW s, Honest(h, N, s)
    PROVE  Honest(k, M, s)
BY DEF Honest

LEMMA HoldsGrows ==
    ASSUME NEW h, NEW k, Grown(h, k), NEW N, N \subseteq 1 .. Len(h), NEW M, N \subseteq M,
           NEW B, B \subseteq N, NEW E, E \subseteq N, NEW m, Holds(h, N, B, E, m)
    PROVE  Holds(k, M, B, E, m)
<1>1. \A i \in N : k[i] = h[i]
    BY DEF Grown
<1>2. /\ Alive(h, B) = Alive(k, B) /\ Ret(h, B) = Ret(k, B) /\ Ret(h, E) = Ret(k, E)
    BY <1>1, SameRows
<1>3. Honest(k, M, m)
    BY <1>1, HonestGrows DEF Holds
<1>4. Written(k, B, m)
    BY <1>1 DEF Holds, Written
<1>5. Kept(k, E, Ret(k, B), m)
    BY <1>1, <1>2 DEF Holds, Kept
<1> QED BY <1>2, <1>3, <1>4, <1>5 DEF Holds

LEMMA OnDiskGrows ==
    ASSUME NEW h, NEW k, Grown(h, k), NEW c, NEW d \in Stored, d.metaLsn <= Len(h),
           d.tupleLsn <= Len(h), OnDisk(h, c, d)
    PROVE  OnDisk(k, c, d)
<1>1. /\ Len(h) \in Nat /\ Len(k) = Len(h) + 1 /\ \A l \in 1 .. Len(h) : h[l] = k[l]
      /\ d.metaLsn \in 0 .. Len(h) /\ d.tupleLsn \in 0 .. Len(h)
    BY StoredFields DEF Grown
<1>2. /\ Applied(h, c, d.metaLsn) = Applied(k, c, d.metaLsn)
      /\ Applied(h, c, d.tupleLsn) = Applied(k, c, d.tupleLsn)
      /\ Applied(h, c, Len(h)) = Applied(k, c, Len(h))
    BY <1>1 DEF Applied
<1> DEFINE A == Applied(h, c, d.metaLsn)
           T == Applied(h, c, d.tupleLsn)
<1>3. /\ A \in SUBSET (1 .. Len(h)) /\ T \in SUBSET (1 .. Len(h))
      /\ Applied(h, c, Len(h)) \subseteq 1 .. Len(h)
      /\ Applied(k, c, Len(h)) \subseteq Applied(k, c, Len(k))
    BY <1>1 DEF Applied
<1>4. Alive(h, A) = Alive(k, A) /\ Ret(h, T) = Ret(k, T)
    <2> HIDE DEF A, T
    <2>1. (\A l \in A : h[l] = k[l]) /\ \A l \in T : h[l] = k[l]
        BY <1>1, <1>3
    <2> QED BY <2>1, SameRows
<1>5. Honest(k, Applied(k, c, Len(k)), d)
    BY <1>1, <1>2, <1>3, HonestGrows DEF OnDisk
<1>6. Written(k, A, d)
    <2>1. Written(h, A, d)
        BY DEF OnDisk
    <2> HIDE DEF A
    <2> QED BY <1>1, <1>3, <2>1 DEF Written
<1>7. Kept(k, T, Ret(k, T), d)
    <2>1. Kept(h, T, Ret(h, T), d)
        BY DEF OnDisk
    <2> HIDE DEF T
    <2> QED BY <1>1, <1>3, <1>4, <2>1 DEF Kept
<1> QED BY <1>2, <1>4, <1>5, <1>6, <1>7 DEF OnDisk

LEMMA PastGrows ==
    ASSUME NEW h, NEW k, Grown(h, k), NEW c, Past(h, c), NEW N, N = Applied(h, c, Len(h)),
           NEW e, e = k[Len(h) + 1],
           e.coll = c => /\ e.verdict = IF Due(h, N, e) THEN "refused" ELSE "applied"
                         /\ e.retire \subseteq Inst(h, N) /\ Installed(e) \cap Inst(h, N) = {}
    PROVE  Past(k, c)
<1>1. PICK n, M : n = Len(h) + 1 /\ M = Applied(k, c, n)
    OBVIOUS
<1>2. /\ n \in Nat /\ n = Len(k) /\ N \subseteq 1 .. Len(h) /\ n \notin N
      /\ N = Applied(k, c, Len(h)) /\ e = k[n] /\ e \in Logged
      /\ e.coll = c /\ e.verdict = "applied" => M = N \cup {n}
      /\ ~(e.coll = c /\ e.verdict = "applied") => M = N
      /\ \A i \in N : k[i] = h[i] /\ h[i] \in Logged
    <2>1. /\ n \in Nat /\ n = Len(k) /\ N \subseteq 1 .. Len(h) /\ n \notin N
          /\ N = Applied(k, c, Len(h)) /\ k[n] \in Logged
          /\ k[n].coll = c /\ k[n].verdict = "applied" => M = N \cup {n}
          /\ ~(k[n].coll = c /\ k[n].verdict = "applied") => M = N
          /\ \A i \in N : k[i] = h[i] /\ h[i] \in Logged
        BY ONLY <1>1, Grown(h, k), N = Applied(h, c, Len(h)), GrownSets
    <2> QED BY <1>1, <2>1
<1>3. /\ Len(h) \in Nat /\ \A l \in 1 .. Len(h) : h[l] = k[l]
    BY DEF Grown
<1>4. /\ Inst(h, N) = Inst(k, N) /\ (Once(h, N) <=> Once(k, N)) /\ (Due(h, N, e) <=> Due(k, N, e))
    BY <1>2, SameRows
<1>5. Once(k, M)
    <2>1. Once(k, N)
        BY <1>4 DEF Past
    <2>2. CASE e.coll = c /\ e.verdict = "applied"
        <3>1. \A i \in N : \A o \in Installed(k[i]) : o \notin Installed(e)
            <4>1. \A i \in N : \A o \in Installed(k[i]) : o \in Inst(h, N)
                BY <1>2, LoggedFields DEF Inst
            <4> QED BY <2>2, <4>1
        <3> QED BY <1>2, <2>1, <2>2, <3>1 DEF Once
    <2>3. CASE ~(e.coll = c /\ e.verdict = "applied")
        BY <1>2, <2>1, <2>3
    <2> QED BY <2>2, <2>3
<1>6. ASSUME NEW l \in 1 .. Len(k), k[l].coll = c
      PROVE  /\ k[l].verdict = IF Due(k, Applied(k, c, l - 1), k[l]) THEN "refused" ELSE "applied"
             /\ k[l].retire \subseteq Inst(k, Applied(k, c, l - 1))
    <2>1. CASE l = n
        <3>1. l - 1 = Len(h) /\ k[l] = e
            BY <1>1, <1>2, <1>3, <2>1
        <3> QED BY <1>2, <1>4, <1>6, <3>1
    <2>2. CASE l # n
        <3>1. l \in 1 .. Len(h) /\ l - 1 \in 0 .. Len(h)
            BY <1>1, <1>2, <1>3, <2>2
        <3>2. PICK P : P = Applied(h, c, l - 1)
            OBVIOUS
        <3>3. P = Applied(k, c, l - 1) /\ P \in SUBSET (1 .. Len(h))
            BY <1>3, <3>1, <3>2 DEF Applied
        <3>4. Inst(h, P) = Inst(k, P) /\ \A r : Due(h, P, r) <=> Due(k, P, r)
            <4>1. \A i \in P : h[i] = k[i]
                BY <1>3, <3>3
            <4> QED BY <4>1, SameRows
        <3>5. /\ h[l].verdict = IF Due(h, P, h[l]) THEN "refused" ELSE "applied"
              /\ h[l].retire \subseteq Inst(h, P) /\ h[l] = k[l]
            BY <1>3, <1>6, <3>1, <3>2 DEF Past
        <3> QED BY <3>3, <3>4, <3>5
    <2> QED BY <2>1, <2>2
<1>7. Once(k, Applied(k, c, Len(k)))
    BY <1>1, <1>2, <1>5
<1> QED BY <1>6, <1>7 DEF Past

(* An applied record keeps the keys of the live rows apart: an insertion   *)
(* finds its key unused, an update copies keys of rows that it retires.    *)
LEMMA ApartGrows ==
    ASSUME NEW h, NEW k, Grown(h, k), NEW N, N \subseteq 1 .. Len(h), Apart(h, N),
           NEW n, n = Len(h) + 1, NEW e, e = k[n], e.coll \in Keyed,
           ~ Due(h, N, e), Installed(e) \cap Inst(h, N) = {},
           e.kind = "insert" => e.retire = {},
           e.kind = "insert" => \A o, p \in Installed(e) : o = p,
           e.kind = "delete" => Installed(e) = {},
           e.kind = "update" =>
              \E g \in [Installed(e) -> e.retire] :
                 /\ \A o, p \in Installed(e) : g[o] = g[p] => o = p
                 /\ \A o \in Installed(e) : \E i \in N :
                       g[o] \in Installed(h[i]) /\ e.install[o] = h[i].install[g[o]]
    PROVE  Apart(k, N \cup {n})
<1> DEFINE M == N \cup {n}
           L(i) == Installed(k[i]) \ Ret(k, M)
<1>0. /\ e \in Logged /\ n \notin N /\ \A i \in N : k[i] = h[i] /\ h[i] \in Logged
      /\ e.kind \in {"insert", "delete", "update"}
    <2>1. n \in 1 .. Len(k)
        BY DEF Grown
    <2>2. e \in Logged
        BY <2>1 DEF Grown
    <2> QED BY <2>2, LoggedFields DEF Grown
<1>1. Ret(k, M) = Ret(h, N) \cup e.retire
    <2>1. Ret(k, M) = Ret(k, N) \cup e.retire
        BY <1>0, LoggedFields DEF Ret
    <2>2. Ret(k, N) = Ret(h, N)
        BY <1>0 DEF Ret
    <2> QED BY <2>1, <2>2
<1> HIDE DEF M
<1>2. ASSUME NEW i \in N, NEW o \in L(i), NEW j \in N, NEW p \in L(j), o # p
      PROVE  k[i].install[o] # k[j].install[p]
    BY <1>0, <1>1, <1>2 DEF Apart
<1>3. ASSUME NEW o \in L(n), NEW j \in N, NEW p \in L(j)
      PROVE  e.install[o] # k[j].install[p]
    <2>1. o \in Installed(e) /\ p \in Installed(h[j]) \ Ret(h, N) /\ p \notin e.retire /\ k[j] = h[j]
        BY <1>0, <1>1
    <2>2. CASE e.kind = "insert"
        BY <2>1, <2>2 DEF Due
    <2>3. CASE e.kind = "update"
        <3>1. PICK g \in [Installed(e) -> e.retire] :
                 \A x \in Installed(e) : \E i \in N :
                    g[x] \in Installed(h[i]) /\ e.install[x] = h[i].install[g[x]]
            BY <2>3
        <3>2. PICK i \in N : g[o] \in Installed(h[i]) /\ e.install[o] = h[i].install[g[o]]
            BY <2>1, <3>1
        <3>3. e.retire \subseteq Alive(h, N)
            <4>1. Installed(e) \cap Alive(h, N) = {}
                BY DEF Alive
            <4> QED BY <2>3, <4>1 DEF Due, IsStale
        <3>4. g[o] \in e.retire /\ g[o] \notin Ret(h, N) /\ g[o] # p
            BY <2>1, <3>1, <3>3 DEF Alive
        <3> QED BY <2>1, <3>2, <3>4 DEF Apart
    <2>4. CASE e.kind = "delete"
        BY <2>1, <2>4
    <2> QED BY <1>0, <2>2, <2>3, <2>4
<1>4. ASSUME NEW o \in L(n), NEW p \in L(n), o # p
      PROVE  e.install[o] # e.install[p]
    <2>1. o \in Installed(e) /\ p \in Installed(e)
        OBVIOUS
    <2>2. CASE e.kind = "insert"
        BY <1>4, <2>1, <2>2
    <2>3. CASE e.kind = "update"
        <3>1. PICK g \in [Installed(e) -> e.retire] :
                 /\ \A x, y \in Installed(e) : g[x] = g[y] => x = y
                 /\ \A x \in Installed(e) : \E i \in N :
                       g[x] \in Installed(h[i]) /\ e.install[x] = h[i].install[g[x]]
            BY <2>3
        <3>2. PICK i \in N : g[o] \in Installed(h[i]) /\ e.install[o] = h[i].install[g[o]]
            BY <2>1, <3>1
        <3>3. PICK j \in N : g[p] \in Installed(h[j]) /\ e.install[p] = h[j].install[g[p]]
            BY <2>1, <3>1
        <3>4. e.retire \subseteq Alive(h, N)
            <4>1. Installed(e) \cap Alive(h, N) = {}
                BY DEF Alive
            <4> QED BY <2>3, <4>1 DEF Due, IsStale
        <3>5. g[o] \notin Ret(h, N) /\ g[p] \notin Ret(h, N) /\ g[o] # g[p]
            BY <1>4, <2>1, <3>1, <3>4 DEF Alive
        <3> QED BY <3>2, <3>3, <3>5 DEF Apart
    <2>4. CASE e.kind = "delete"
        BY <2>1, <2>4
    <2> QED BY <1>0, <2>2, <2>3, <2>4
<1>5. ASSUME NEW i \in M, NEW j \in M, NEW o \in L(i), NEW p \in L(j), o # p
      PROVE  k[i].install[o] # k[j].install[p]
    <2>1. (i \in N \/ i = n) /\ (j \in N \/ j = n)
        BY DEF M
    <2> HIDE DEF L
    <2>2. CASE i \in N /\ j \in N
        BY <1>2, <1>5, <2>2
    <2>3. CASE i = n /\ j \in N
        BY <1>0, <1>3, <1>5, <2>3
    <2>4. CASE i \in N /\ j = n
        BY <1>0, <1>3, <1>5, <2>4
    <2>5. CASE i = n /\ j = n
        BY <1>0, <1>4, <1>5, <2>5
    <2> QED BY <2>1, <2>2, <2>3, <2>4, <2>5
<1>6. Apart(k, M)
    BY <1>5 DEF Apart
<1> QED BY <1>6 DEF M

-----------------------------------------------------------------------------
(* The history of a collection under every step.                           *)
(* The verdict given before a record is written is the one that is due.    *)
LEMMA TruthJudges ==
    ASSUME NEW c, NEW N, \A i \in N : hist[i] \in Logged, truth[c] = TrueRowsOf(hist, N), NEW e
    PROVE  Refused(TrueLive(c), TruePosts(c), e) <=> Due(hist, N, e)
<1>1. \A i \in N : Installed(hist[i]) \subseteq Ordinals
    BY LoggedFields
<1>2. ASSUME NEW i \in N, NEW o \in Installed(hist[i]) \ Ret(hist, N) PROVE <<o, i>> \in truth[c]
    BY <1>1 DEF TrueRowsOf
<1>3. ASSUME NEW p \in truth[c]
      PROVE  /\ p[1] \in Ordinals /\ p[2] \in N
             /\ p[1] \in Installed(hist[p[2]]) /\ p[1] \notin Ret(hist, N)
    BY DEF TrueRowsOf
<1>4. TrueLive(c) = Alive(hist, N)
    <2>1. ASSUME NEW o \in TrueLive(c) PROVE o \in Alive(hist, N)
        <3>1. PICK p \in truth[c] : o = p[1]
            BY DEF TrueLive
        <3> QED BY <1>3, <3>1 DEF Alive, Inst
    <2>2. ASSUME NEW o \in Alive(hist, N) PROVE o \in TrueLive(c)
        <3>1. PICK i \in N : o \in Installed(hist[i]) \ Ret(hist, N)
            BY DEF Alive, Inst
        <3>2. <<o, i>> \in truth[c] /\ <<o, i>>[1] = o
            BY <1>2, <3>1
        <3> QED BY <3>2 DEF TrueLive
    <2> QED BY <2>1, <2>2
<1>5. ASSUME NEW o \in Ordinals, NEW k
      PROVE  k \in TruePosts(c)[o] <=> \E p \in truth[c] : p[1] = o /\ k = hist[p[2]].install[o]
    BY DEF TruePosts, KeyAt
<1>6. DuplicateKey(TrueLive(c), TruePosts(c), e) <=>
          /\ e.kind = "insert" /\ e.coll \in Keyed
          /\ \E i \in N : \E o \in Installed(hist[i]) \ Ret(hist, N), x \in Installed(e) :
                e.install[x] = hist[i].install[o]
    <2>1. ASSUME NEW o \in TrueLive(c), NEW x \in Installed(e), e.install[x] \in TruePosts(c)[o]
          PROVE  \E i \in N : \E p \in Installed(hist[i]) \ Ret(hist, N), y \in Installed(e) :
                     e.install[y] = hist[i].install[p]
        <3>1. o \in Ordinals
            BY <1>3 DEF TrueLive
        <3>2. PICK p \in truth[c] : p[1] = o /\ e.install[x] = hist[p[2]].install[o]
            BY <1>5, <2>1, <3>1
        <3>3. p[2] \in N /\ o \in Installed(hist[p[2]]) \ Ret(hist, N)
            BY <1>3, <3>2
        <3> QED BY <3>2, <3>3
    <2>2. ASSUME NEW i \in N, NEW o \in Installed(hist[i]) \ Ret(hist, N), NEW x \in Installed(e),
                 e.install[x] = hist[i].install[o]
          PROVE  o \in TrueLive(c) /\ e.install[x] \in TruePosts(c)[o]
        <3>1. PICK p \in truth[c] : p = <<o, i>>
            BY <1>2
        <3>2. p[1] = o /\ p[2] = i /\ o \in Ordinals
            BY <1>1, <3>1
        <3> QED BY <1>5, <2>2, <3>2 DEF TrueLive
    <2> QED BY <2>1, <2>2 DEF DuplicateKey
<1> QED BY <1>4, <1>6 DEF Refused, Due

(* An applied record moves the live rows on.                               *)
LEMMA TruthGrows ==
    ASSUME NEW h, NEW k, Grown(h, k), NEW N, N \subseteq 1 .. Len(h), NEW n, n = Len(h) + 1,
           NEW e, e = k[n], Installed(e) \cap Inst(h, N) = {}, Ret(h, N) \subseteq Inst(h, N)
    PROVE  {p \in TrueRowsOf(h, N) \cup (Installed(e) \X {n}) : p[1] \notin e.retire}
               = TrueRowsOf(k, N \cup {n})
<1> DEFINE M == N \cup {n}
           t == {p \in TrueRowsOf(h, N) \cup (Installed(e) \X {n}) : p[1] \notin e.retire}
<1>0. /\ n \notin N /\ e \in Logged /\ \A i \in N : k[i] = h[i]
      /\ Installed(e) \subseteq Ordinals /\ e.retire \subseteq Ordinals
    <2>1. n \in 1 .. Len(k)
        BY DEF Grown
    <2>2. e \in Logged
        BY <2>1 DEF Grown
    <2> QED BY <2>2, LoggedFields DEF Grown
<1>1. Ret(k, M) = Ret(h, N) \cup e.retire
    BY <1>0 DEF Ret
<1>2. ASSUME NEW p \in t PROVE p \in TrueRowsOf(k, M)
    <2>1. p[1] \notin e.retire /\ (p \in TrueRowsOf(h, N) \/ p \in Installed(e) \X {n})
        OBVIOUS
    <2>2. CASE p \in TrueRowsOf(h, N)
        BY <1>0, <1>1, <2>1, <2>2 DEF TrueRowsOf
    <2>3. CASE p \in Installed(e) \X {n}
        <3>1. p[1] \in Installed(e) /\ p[2] = n /\ p \in Ordinals \X M
            BY <1>0, <2>3
        <3>2. p[1] \notin Ret(h, N)
            BY <3>1 DEF Inst
        <3> QED BY <1>1, <2>1, <3>1, <3>2 DEF TrueRowsOf
    <2> QED BY <2>1, <2>2, <2>3
<1>3. ASSUME NEW p \in TrueRowsOf(k, M) PROVE p \in t
    <2>1. /\ p \in Ordinals \X M /\ p[1] \in Installed(k[p[2]]) /\ p[1] \notin Ret(k, M)
          /\ p = <<p[1], p[2]>>
        BY DEF TrueRowsOf
    <2>2. CASE p[2] = n
        <3>1. p \in Installed(e) \X {n}
            BY <2>1, <2>2
        <3> QED BY <1>1, <2>1, <3>1
    <2>3. CASE p[2] # n
        <3>1. p[2] \in N
            BY <2>1, <2>3
        <3>2. p \in TrueRowsOf(h, N)
            BY <1>0, <1>1, <2>1, <3>1 DEF TrueRowsOf
        <3> QED BY <1>1, <2>1, <3>2
    <2> QED BY <2>2, <2>3
<1> HIDE DEF M, t
<1>4. t = TrueRowsOf(k, M)
    BY <1>2, <1>3
<1> QED BY <1>4 DEF M, t

LEMMA HistRecord ==
    ASSUME Safe, NEW c \in Collections, HistInv(c), MemInv(c), NEW e, Recorded(e)
    PROVE  HistInv(c)'
<1>1. PICK h, k, n, N, M :
         /\ h = hist /\ k = hist' /\ n = Len(h) + 1 /\ N = Applied(h, c, Len(h))
         /\ M = Applied(k, c, n)
    OBVIOUS
<1>2. /\ Grown(h, k) /\ e = k[n] /\ e \in Logged /\ TypeOK
    <2>1. TypeOK /\ hist \in Seq(Logged) /\ e \in Logged
        BY DEF Safe, TypeOK, Types, Recorded
    <2>2. /\ hist' \in Seq(Logged) /\ Len(hist') = Len(hist) + 1
          /\ hist'[Len(hist) + 1] = e /\ \A l \in 1 .. Len(hist) : hist'[l] = hist[l]
        BY <2>1, Appended
    <2> QED BY <1>1, <2>1, <2>2 DEF Grown
<1>3. /\ n \in Nat /\ n = Len(k) /\ N \subseteq 1 .. Len(h) /\ n \notin N
      /\ N = Applied(k, c, Len(h)) /\ k[n] \in Logged
      /\ k[n].coll = c /\ k[n].verdict = "applied" => M = N \cup {n}
      /\ ~(k[n].coll = c /\ k[n].verdict = "applied") => M = N
      /\ \A i \in N : k[i] = h[i] /\ h[i] \in Logged
    BY ONLY <1>1, <1>2, GrownSets
<1>4. /\ Past(h, c)
      /\ c \in Keyed => \A i \in 0 .. Len(h) : Apart(h, Applied(h, c, i))
      /\ truth[c] = TrueRowsOf(h, N) /\ free[c] \cap Inst(h, N) = {} /\ seen[c] \subseteq Inst(h, N)
    BY <1>1 DEF HistInv
<1>5. Ret(h, N) \subseteq Inst(h, N) /\ Len(h) \in Nat /\ h \in Seq(Logged)
    <2>1. h \in Seq(Logged) /\ Len(h) \in Nat /\ Len(h) \in 0 .. Len(h)
        BY <1>2 DEF Grown
    <2> QED BY <1>1, <1>4, <2>1, RetiredWereInstalled
<1>6. /\ truth \in [Collections -> SUBSET (Ordinals \X Nat)]
      /\ free \in [Collections -> SUBSET Ordinals] /\ seen \in [Collections -> SUBSET Ordinals]
    BY <1>2 DEF TypeOK, Types
<1>7. e.coll = c => /\ e.verdict = IF Due(h, N, e) THEN "refused" ELSE "applied"
                    /\ e.retire \subseteq Inst(h, N) /\ Installed(e) \cap Inst(h, N) = {}
    <2>1. SUFFICES ASSUME e.coll = c
                   PROVE  /\ e.verdict = IF Due(h, N, e) THEN "refused" ELSE "applied"
                          /\ e.retire \subseteq Inst(h, N) /\ Installed(e) \cap Inst(h, N) = {}
        OBVIOUS
    <2>2. e.verdict = IF Refused(TrueLive(c), TruePosts(c), e) THEN "refused" ELSE "applied"
        BY <2>1 DEF Recorded
    <2>3. Refused(TrueLive(c), TruePosts(c), e) <=> Due(h, N, e)
        BY <1>1, <1>3, <1>4, TruthJudges
    <2>4. e.retire \subseteq seen[c] /\ Installed(e) \subseteq free[c]
        BY <2>1 DEF Recorded
    <2> QED BY <1>4, <2>2, <2>3, <2>4
<1>8. Past(k, c)
    BY <1>1, <1>2, <1>4, <1>7, PastGrows
<1>9. ASSUME c \in Keyed, NEW i \in 0 .. Len(k) PROVE Apart(k, Applied(k, c, i))
    <2>1. CASE i \in 0 .. Len(h)
        <3>1. PICK P : P = Applied(h, c, i)
            OBVIOUS
        <3>2. P = Applied(k, c, i) /\ \A l \in P : h[l] = k[l]
            <4>1. \A l \in 1 .. Len(h) : h[l] = k[l]
                BY <1>2 DEF Grown
            <4> QED BY <1>5, <2>1, <3>1, <4>1 DEF Applied
        <3>3. Apart(h, P)
            BY <1>4, <1>9, <2>1, <3>1
        <3> QED BY <3>2, <3>3, SameRows
    <2>2. CASE i = n
        <3>1. Apart(h, N)
            BY <1>1, <1>4, <1>5, <1>9
        <3>2. CASE e.coll = c /\ e.verdict = "applied"
            <4>1. ~ Due(h, N, e) /\ Installed(e) \cap Inst(h, N) = {}
                BY <1>7, <3>2
            <4>2. /\ e.kind = "insert" => e.retire = {}
                  /\ e.kind = "insert" => \A o, p \in Installed(e) : o = p
                  /\ e.kind = "delete" => Installed(e) = {}
                BY DEF Recorded
            <4>3. ASSUME e.kind = "update"
                  PROVE  \E g \in [Installed(e) -> e.retire] :
                            /\ \A o, p \in Installed(e) : g[o] = g[p] => o = p
                            /\ \A o \in Installed(e) : \E l \in N :
                                  g[o] \in Installed(h[l]) /\ e.install[o] = h[l].install[g[o]]
                <5>1. \A o \in e.retire : mem[c].tuple[o] # 0
                    BY <3>2, <4>3 DEF Recorded
                <5>2. PICK g \in [Installed(e) -> e.retire] :
                          /\ \A o, p \in Installed(e) : g[o] = g[p] => o = p
                          /\ \A o \in Installed(e) :
                                e.install[o] = KeyAt(mem[c].tuple[g[o]], g[o])
                    BY <3>2, <4>3 DEF Recorded
                <5>3. Honest(h, N, mem[c])
                    BY <1>1 DEF MemInv, Follows, Holds, Recorded
                <5>4. e.retire \subseteq Ordinals
                    BY <1>2, LoggedFields
                <5>5. ASSUME NEW o \in Installed(e)
                      PROVE  \E l \in N : g[o] \in Installed(h[l]) /\ e.install[o] = h[l].install[g[o]]
                    <6>1. PICK l, x : l = mem[c].tuple[x] /\ x = g[o]
                        OBVIOUS
                    <6>2. x \in e.retire /\ x \in Ordinals
                        BY <5>4, <6>1
                    <6>3. l \in N /\ x \in Installed(h[l])
                        BY <5>1, <5>3, <6>1, <6>2 DEF Honest
                    <6>4. e.install[o] = h[l].install[x]
                        BY <1>1, <5>2, <6>1 DEF KeyAt
                    <6> QED BY <6>1, <6>3, <6>4
                <5> QED BY <5>2, <5>5
            <4>4. Apart(k, N \cup {n})
                BY ONLY <1>1, <1>2, <1>3, <1>9, <3>1, <3>2, <4>1, <4>2, <4>3, ApartGrows
            <4> QED BY <1>1, <1>2, <1>3, <2>2, <3>2, <4>4
        <3>3. CASE ~(e.coll = c /\ e.verdict = "applied")
            <4>1. M = N
                BY <1>2, <1>3, <3>3
            <4>2. Apart(k, N)
                BY <1>3, <3>1, SameRows
            <4> QED BY <1>1, <2>2, <4>1, <4>2
        <3> QED BY <3>2, <3>3
    <2> QED BY <1>1, <1>3, <1>5, <2>1, <2>2
<1>10. /\ e.verdict \in {"refused", "applied"} /\ e.coll \in Collections
       /\ UNCHANGED seen /\ free' = [free EXCEPT ![e.coll] = free[e.coll] \ Installed(e)]
       /\ truth' = [truth EXCEPT ![e.coll] =
                       IF e.verdict = "refused" THEN truth[e.coll]
                       ELSE {p \in truth[e.coll] \cup (Installed(e) \X {n}) : p[1] \notin e.retire}]
    BY <1>1, <1>2, LoggedFields DEF Recorded
<1>11. truth'[c] = TrueRowsOf(k, M)
    <2>1. CASE e.coll = c /\ e.verdict = "applied"
        <3>1. /\ M = N \cup {n} /\ Installed(e) \cap Inst(h, N) = {}
              /\ truth'[c] = {p \in TrueRowsOf(h, N) \cup (Installed(e) \X {n}) : p[1] \notin e.retire}
            BY <1>2, <1>3, <1>4, <1>6, <1>7, <1>10, <2>1
        <3>2. {p \in TrueRowsOf(h, N) \cup (Installed(e) \X {n}) : p[1] \notin e.retire}
                  = TrueRowsOf(k, N \cup {n})
            BY ONLY <1>1, <1>2, <1>3, <1>5, <3>1, TruthGrows
        <3> QED BY <3>1, <3>2
    <2>2. CASE ~(e.coll = c /\ e.verdict = "applied")
        <3>1. M = N /\ truth'[c] = TrueRowsOf(h, N)
            BY <1>2, <1>3, <1>4, <1>6, <1>10, <2>2
        <3>2. TrueRowsOf(h, N) = TrueRowsOf(k, N)
            <4>1. Ret(h, N) = Ret(k, N)
                BY <1>3, SameRows
            <4> QED BY <1>3, <4>1 DEF TrueRowsOf
        <3> QED BY <3>1, <3>2
    <2> QED BY <2>1, <2>2
<1>12. free'[c] \cap Inst(k, M) = {} /\ seen'[c] \subseteq Inst(k, M)
    <2>1. Inst(k, N) = Inst(h, N)
        BY <1>3, SameRows
    <2>2. CASE e.coll = c /\ e.verdict = "applied"
        <3>0. M = N \cup {n}
            BY <1>2, <1>3, <2>2
        <3>1. Inst(k, N \cup {n}) = Inst(k, N) \cup Installed(k[n])
            BY <1>3, LoggedFields DEF Inst
        <3>2. free'[c] = free[c] \ Installed(e) /\ seen'[c] = seen[c]
            BY <1>6, <1>10, <2>2
        <3> QED BY <1>2, <1>4, <2>1, <3>0, <3>1, <3>2
    <2>3. CASE ~(e.coll = c /\ e.verdict = "applied")
        <3>1. M = N /\ seen'[c] = seen[c] /\ free'[c] \subseteq free[c]
            BY <1>2, <1>3, <1>6, <1>10, <2>3
        <3> QED BY <1>4, <2>1, <3>1
    <2> QED BY <2>2, <2>3
<1>13. /\ Past(hist', c)
       /\ c \in Keyed => \A i \in 0 .. Len(hist') : Apart(hist', Applied(hist', c, i))
       /\ M = Applied(hist', c, Len(hist')) /\ truth'[c] = TrueRowsOf(hist', M)
       /\ free'[c] \cap Inst(hist', M) = {} /\ seen'[c] \subseteq Inst(hist', M)
    BY <1>1, <1>3, <1>8, <1>9, <1>11, <1>12
<1> QED BY <1>13 DEF HistInv

LEMMA HistStep ==
    ASSUME Safe, Next, NEW c \in Collections, HistInv(c), MemInv(c), BegunInv(c)
    PROVE  HistInv(c)'
<1>0. /\ TypeOK /\ ControlInv /\ LsnOf(c) /\ SessionOf(c) /\ hist \in Seq(Logged)
      /\ Len(hist) \in Nat /\ applied \in Nat /\ mem \in [Collections -> Stored]
      /\ mem[c] \in Stored /\ disk[c] \in Stored
      /\ seen \in [Collections -> SUBSET Ordinals] /\ free \in [Collections -> SUBSET Ordinals]
    BY DEF Safe, LsnInv, SessionInv, TypeOK, Types
<1>1. PICK N : N = Applied(hist, c, Len(hist))
    OBVIOUS
<1>2. /\ Past(hist, c)
      /\ c \in Keyed => \A n \in 0 .. Len(hist) : Apart(hist, Applied(hist, c, n))
      /\ truth[c] = TrueRowsOf(hist, N)
      /\ free[c] \cap Inst(hist, N) = {} /\ seen[c] \subseteq Inst(hist, N)
    BY <1>1 DEF HistInv
<1>3. SUFFICES ASSUME ~ Statement
               PROVE  /\ UNCHANGED <<hist, truth>>
                      /\ free'[c] \cap Inst(hist, N) = {} /\ seen'[c] \subseteq Inst(hist, N)
    <2>1. CASE Statement
        <3>1. PICK e : Recorded(e)
            BY <1>0, <2>1, StatementRecords
        <3> QED BY <3>1, HistRecord
    <2>2. ASSUME /\ UNCHANGED <<hist, truth>>
                 /\ free'[c] \cap Inst(hist, N) = {} /\ seen'[c] \subseteq Inst(hist, N)
          PROVE  HistInv(c)'
        BY <1>1, <1>2, <2>2 DEF HistInv
    <2> QED BY <2>1, <2>2
<1>4. ASSUME UNCHANGED <<free, seen>> PROVE free'[c] \cap Inst(hist, N) = {} /\ seen'[c] \subseteq Inst(hist, N)
    BY <1>2, <1>4
<1>5. CASE \/ BeginApply \/ Refuse \/ BeginCheckpoint \/ SyncStore \/ SyncCatalog \/ Truncate
           \/ CheckpointFails \/ Open \/ Replay
    <2>1. UNCHANGED <<hist, truth, free, seen>>
        BY <1>5 DEF BeginApply, Refuse, BeginCheckpoint, SyncStore, SyncCatalog, Truncate,
                    CheckpointFails, Open, Replay
    <2> QED BY <1>4, <2>1
<1>6. CASE Crash
    BY <1>6 DEF Crash
<1>7. CASE Reach
    <2>1. PICK l, r, m, n : Reached(l, r, m, n)
        BY <1>0, <1>7, ReachReaches
    <2>2. /\ m = mem[r.coll] /\ seen' = [seen EXCEPT ![r.coll] = seen[r.coll] \cup n.live]
          /\ l = applied + 1 /\ r = hist[l] /\ r \in Logged /\ l \in 1 .. Len(hist) /\ pc = "apply"
          /\ step < 2 => n.live = m.live
          /\ step = 2 => n.live = (m.live \cup Installed(r)) \ r.retire
          /\ step \in {0, 1, 2} /\ UNCHANGED <<hist, truth, free>>
        BY <2>1 DEF Reached, Safe, TypeOK, Types
    <2>3. CASE c # r.coll
        BY <1>0, <1>2, <2>2, <2>3
    <2>4. CASE c = r.coll
        <3>1. mem[c].live \subseteq Inst(hist, N)
            BY <1>0, <1>2, <2>2 DEF SessionOf, Fresh, Running
        <3>2. step = 2 => Installed(r) \subseteq Inst(hist, N)
            <4>1. step = 2 => r.verdict = "applied"
                BY <2>2, <2>4 DEF BegunInv
            <4>2. step = 2 => l \in N
                BY <1>1, <2>2, <2>4, <4>1 DEF Applied
            <4> QED BY <2>2, <4>2, LoggedFields DEF Inst
        <3>3. n.live \subseteq Inst(hist, N)
            BY <2>2, <2>4, <3>1, <3>2
        <3> QED BY <1>0, <1>2, <2>2, <2>4, <3>3
    <2> QED BY <2>3, <2>4
<1>8. CASE Ready
    <2>1. NextFrame = applied + 1
        <3>1. base \in Nat /\ base <= applied
            BY <1>0, <1>8 DEF Ready, ControlInv, TypeOK, Types
        <3> QED BY <1>0, <3>1, MaxOfTwo DEF NextFrame, Later
    <2>2. pc = "replay" /\ applied = Len(hist)
        BY <1>0, <1>8, <2>1 DEF Ready, ControlInv
    <2>3. Later(applied, disk[c].metaLsn) = Len(hist)
        BY <1>0, <2>2, StoredFields DEF LsnOf, Ordered, Later
    <2>4. PICK E : Holds(hist, N, N, E, mem[c])
        BY <1>1, <2>2, <2>3 DEF MemInv, Follows
    <2>5. Ret(hist, N) \subseteq Inst(hist, N)
        <3>1. Len(hist) \in 0 .. Len(hist)
            BY <1>0
        <3> QED BY <1>0, <1>1, <1>2, <3>1, RetiredWereInstalled
    <2>6. mem[c].live \subseteq Inst(hist, N)
        BY <2>4, <2>5 DEF Holds, Alive
    <2>7. \A o \in Inst(hist, N) : o < mem[c].count
        BY <2>4 DEF Holds, Written, Inst
    <2>8. /\ free'[c] = {o \in Ordinals : o >= mem[c].count} /\ seen'[c] = mem[c].live
          /\ UNCHANGED <<hist, truth>>
        BY <1>8 DEF Ready
    <2>9. mem[c].count \in Nat /\ Ordinals \subseteq Nat
        BY <1>0, StoredFields, OrdinalsAreNaturals
    <2>10. ASSUME NEW o \in free'[c], o \in Inst(hist, N) PROVE FALSE
        <3>1. o \in Nat /\ o >= mem[c].count
            BY <2>8, <2>9
        <3>2. o < mem[c].count
            BY <2>7, <2>10
        <3> QED BY <2>9, <3>1, <3>2
    <2> QED BY <2>6, <2>8, <2>10
<1> QED BY <1>3, <1>5, <1>6, <1>7, <1>8 DEF Next

-----------------------------------------------------------------------------
(* The stores on disk.  In a checkpoint the memory has applied everything, *)
(* so each of its watermarks stands for the whole history.                 *)
LEMMA WholeHistory ==
    ASSUME Safe, pc = "checkpoint", NEW c \in Collections, MemInv(c),
           NEW N, N = Applied(hist, c, Len(hist))
    PROVE  /\ Holds(hist, N, N, N, mem[c])
           /\ Applied(hist, c, mem[c].metaLsn) = N /\ Applied(hist, c, mem[c].tupleLsn) = N
<1>0. /\ ControlInv /\ LsnOf(c) /\ Len(hist) \in Nat
      /\ mem[c] \in Stored /\ disk[c] \in Stored /\ applied = Len(hist)
    BY DEF Safe, LsnInv, TypeOK, Types, ControlInv
<1>1. /\ mem[c].metaLsn \in 0 .. Len(hist) /\ mem[c].tupleLsn \in 0 .. Len(hist)
      /\ disk[c].metaLsn \in 0 .. Len(hist) /\ disk[c].tupleLsn \in 0 .. Len(hist)
      /\ mem[c].tupleLsn <= mem[c].metaLsn
    BY <1>0, StoredFields DEF LsnOf, Ordered
<1>2. Later(applied, disk[c].metaLsn) = Len(hist) /\ Later(applied, disk[c].tupleLsn) = Len(hist)
    BY <1>0, <1>1 DEF Later
<1>3. Holds(hist, N, N, N, mem[c])
    BY <1>0, <1>2 DEF MemInv, Follows
<1>4. \A l \in 1 .. Len(hist) : hist[l].coll = c => l <= mem[c].tupleLsn
    BY <1>0 DEF LsnOf
<1>5. /\ \A l \in mem[c].metaLsn + 1 .. Len(hist) : hist[l].coll # c
      /\ \A l \in mem[c].tupleLsn + 1 .. Len(hist) : hist[l].coll # c
    BY <1>0, <1>1, <1>4
<1>6. Applied(hist, c, mem[c].metaLsn) = N
    BY <1>0, <1>1, <1>5, AppliedGrows
<1>7. Applied(hist, c, mem[c].tupleLsn) = N
    BY <1>0, <1>1, <1>5, AppliedGrows
<1> QED BY <1>3, <1>6, <1>7

LEMMA DiskStep ==
    ASSUME Safe, Next, NEW c \in Collections, OnDisk(hist, c, disk[c]), MemInv(c)
    PROVE  OnDisk(hist', c, disk'[c])
<1>0. /\ TypeOK /\ ControlInv /\ LsnOf(c) /\ SyncInv /\ hist \in Seq(Logged)
      /\ Len(hist) \in Nat /\ mem \in [Collections -> Stored] /\ disk \in [Collections -> Stored]
      /\ mem[c] \in Stored /\ disk[c] \in Stored
    BY DEF Safe, LsnInv, TypeOK, Types
<1>1. PICK N, A, T : /\ N = Applied(hist, c, Len(hist)) /\ A = Applied(hist, c, disk[c].metaLsn)
                     /\ T = Applied(hist, c, disk[c].tupleLsn)
    OBVIOUS
<1>2. /\ Honest(hist, N, disk[c]) /\ disk[c].live = Alive(hist, A) /\ Written(hist, A, disk[c])
      /\ Kept(hist, T, Ret(hist, T), disk[c])
    BY <1>1 DEF OnDisk
<1>3. /\ A \subseteq N /\ N \subseteq 1 .. Len(hist)
      /\ disk[c].metaLsn <= Len(hist) /\ disk[c].tupleLsn <= Len(hist)
    <2>1. /\ disk[c].metaLsn \in Nat /\ disk[c].metaLsn <= Len(hist)
          /\ disk[c].tupleLsn \in Nat /\ disk[c].tupleLsn <= Len(hist)
        BY <1>0, StoredFields DEF LsnOf, Ordered
    <2> QED BY <1>0, <1>1, <2>1 DEF Applied
<1>4. \A i \in N : \A o \in Installed(hist[i]) : o \in Ordinals
    BY <1>0, <1>3, LoggedFields
<1>5. CASE Statement
    <2>1. PICK e : Recorded(e)
        BY <1>0, <1>5, StatementRecords
    <2>2. Grown(hist, hist')
        BY <1>0, <2>1, Appended DEF Grown
    <2>3. disk' = disk
        BY <2>1 DEF Recorded
    <2> QED BY <1>0, <1>3, <2>2, <2>3, OnDiskGrows
<1>6. CASE \/ BeginApply \/ Refuse \/ Reach \/ BeginCheckpoint \/ SyncCatalog \/ Truncate
           \/ CheckpointFails \/ Open \/ Replay \/ Ready
    <2>1. UNCHANGED <<hist, disk>>
        BY <1>6 DEF BeginApply, Refuse, Reach, BeginCheckpoint, SyncCatalog, Truncate,
                    CheckpointFails, Open, Replay, Ready
    <2> QED BY <2>1
<1>7. CASE SyncStore
    <2>1. PICK d, t, n : d = Head(pending) /\ t = MakeDurable(disk[d], SyncOrder[n + 1], mem[d])
                         /\ n = synced
        OBVIOUS
    <2>2. /\ n \in 0 .. 2 /\ d \in Collections /\ disk[d] \in Stored /\ mem[d] \in Stored
          /\ disk' = [disk EXCEPT ![d] = t] /\ hist' = hist /\ pending # <<>> /\ pc = "checkpoint"
        BY <1>7, <2>1 DEF SyncStore, Safe, TypeOK, Types
    <2>3. CASE c # d
        BY <1>0, <2>2, <2>3
    <2>4. CASE c = d
        <3>1. PICK m, s : m = mem[c] /\ s = disk[c] /\ m \in Stored /\ s \in Stored
            BY <1>0
        <3>2. /\ t \in Stored
              /\ IF n = 0 THEN t.flat = m.flat /\ t.count = m.count /\ t.flatLsn = m.flatLsn
                          ELSE t.flat = s.flat /\ t.count = s.count /\ t.flatLsn = s.flatLsn
              /\ IF n = 1 THEN t.live = m.live /\ t.post = m.post /\ t.metaLsn = m.metaLsn
                          ELSE t.live = s.live /\ t.post = s.post /\ t.metaLsn = s.metaLsn
              /\ IF n = 2 THEN t.tuple = m.tuple /\ t.tupleLsn = m.tupleLsn
                          ELSE t.tuple = s.tuple /\ t.tupleLsn = s.tupleLsn
            BY <2>1, <2>2, <2>4, <3>1, MakeDurableFields
        <3>3. /\ Holds(hist, N, N, N, m)
              /\ Applied(hist, c, m.metaLsn) = N /\ Applied(hist, c, m.tupleLsn) = N
            BY <1>1, <2>2, <3>1, WholeHistory
        <3>4. disk'[c] = t
            BY <1>0, <2>2, <2>4
        <3>5. n \in {0, 1, 2}
            BY <2>2
        <3>6. Honest(hist, N, t)
            <4>1. Honest(hist, N, m) /\ Honest(hist, N, s)
                BY <1>2, <3>1, <3>3 DEF Holds
            <4>2. t.flat \in {m.flat, s.flat} /\ t.tuple \in {m.tuple, s.tuple}
                  /\ t.post \in {m.post, s.post}
                BY <3>2, <3>5
            <4> QED BY <4>1, <4>2 DEF Honest
        <3>7. n = 1 => s.flat = m.flat /\ s.count = m.count
            BY <1>0, <2>1, <2>2, <2>4, <3>1 DEF SyncInv
        <3>8. CASE n = 0
            <4>1. /\ t.live = Alive(hist, A) /\ t.metaLsn = s.metaLsn /\ t.tupleLsn = s.tupleLsn
                  /\ Kept(hist, T, Ret(hist, T), t)
                BY <1>2, <3>1, <3>2, <3>8 DEF Kept
            <4>2. Written(hist, A, t)
                <5>1. Written(hist, N, m) /\ Written(hist, A, s)
                    BY <1>2, <3>1, <3>3 DEF Holds
                <5>2. t.flat = m.flat /\ t.count = m.count /\ t.post = s.post
                    BY <3>2, <3>8
                <5> QED BY <1>3, <5>1, <5>2 DEF Written
            <4> QED BY <1>1, <2>2, <3>1, <3>4, <3>6, <4>1, <4>2 DEF OnDisk
        <3>9. CASE n = 1
            <4>1. t.live = m.live /\ t.metaLsn = m.metaLsn /\ t.tupleLsn = s.tupleLsn
                BY <3>2, <3>9
            <4>2. m.live = Alive(hist, N)
                BY <3>3 DEF Holds
            <4>3. Kept(hist, T, Ret(hist, T), t)
                BY <1>2, <3>1, <3>2, <3>9 DEF Kept
            <4>4. Written(hist, N, t)
                <5>1. Written(hist, N, m)
                    BY <3>3 DEF Holds
                <5>2. t.flat = m.flat /\ t.count = m.count /\ t.post = m.post
                    BY <3>2, <3>7, <3>9
                <5> QED BY <5>1, <5>2 DEF Written
            <4> QED BY <1>1, <2>2, <3>1, <3>3, <3>4, <3>6, <4>1, <4>2, <4>3, <4>4 DEF OnDisk
        <3>10. CASE n = 2
            <4>1. /\ t.live = Alive(hist, A) /\ t.metaLsn = s.metaLsn /\ t.tupleLsn = m.tupleLsn
                  /\ t.tuple = m.tuple
                BY <1>2, <3>1, <3>2, <3>10
            <4>2. Written(hist, A, t)
                BY <1>2, <3>1, <3>2, <3>10 DEF Written
            <4>3. Kept(hist, N, Ret(hist, N), t)
                BY <3>3, <4>1 DEF Holds, Kept
            <4> QED BY <1>1, <2>2, <3>1, <3>3, <3>4, <3>6, <4>1, <4>2, <4>3 DEF OnDisk
        <3> QED BY <3>5, <3>8, <3>9, <3>10
    <2> QED BY <2>3, <2>4
<1>8. CASE Crash
    <2>1. PICK m, s, t : m = mem[c] /\ s = disk[c] /\ t = disk'[c]
        OBVIOUS
    <2>2. /\ \A o \in Ordinals : t.flat[o] \in {s.flat[o], m.flat[o]}
          /\ t.count = s.count /\ t.live = s.live /\ t.post = s.post /\ t.tuple = s.tuple
          /\ t.metaLsn = s.metaLsn /\ t.tupleLsn = s.tupleLsn /\ hist' = hist /\ pc # "down"
        BY <1>0, <1>8, <2>1, CrashFields DEF Crash
    <2>3. Honest(hist, N, m) /\ \A o \in Ordinals : s.flat[o] # 0 => m.flat[o] = s.flat[o]
        BY <1>1, <2>1, <2>2 DEF MemInv, Follows, Holds
    <2>4. Honest(hist, N, t)
        <3>1. Honest(hist, N, s)
            BY <1>2, <2>1
        <3> QED BY <2>2, <2>3, <3>1 DEF Honest
    <2>5. Written(hist, A, t)
        <3>1. ASSUME NEW i \in A, NEW o \in Installed(hist[i])
              PROVE  o < t.count /\ t.flat[o] = i /\ hist[i].install[o] \in t.post[o]
            <4>1. o < s.count /\ s.flat[o] = i /\ hist[i].install[o] \in s.post[o]
                BY <1>2, <2>1 DEF Written
            <4>2. o \in Ordinals /\ i # 0
                BY <1>3, <1>4
            <4> QED BY <2>2, <2>3, <4>1, <4>2
        <3> QED BY <3>1 DEF Written
    <2>6. Kept(hist, T, Ret(hist, T), t) /\ t.live = Alive(hist, A)
        BY <1>2, <2>1, <2>2 DEF Kept
    <2> QED BY <1>1, <2>1, <2>2, <2>4, <2>5, <2>6 DEF OnDisk
<1> QED BY <1>5, <1>6, <1>7, <1>8 DEF Next

-----------------------------------------------------------------------------
(* The stores in memory.                                                   *)
(* A record of another collection, or one that every store on disk has.    *)
LEMMA FollowsOther ==
    ASSUME NEW h, NEW c, NEW a \in Nat, NEW l, l = a + 1, NEW d \in Stored,
           h[l].coll # c \/ (l <= d.tupleLsn /\ d.tupleLsn <= d.metaLsn),
           NEW m, Follows(h, c, a, d, m)
    PROVE  Follows(h, c, l, d, m)
<1>1. d.tupleLsn \in Nat /\ d.metaLsn \in Nat
    BY StoredFields
<1>2. /\ Applied(h, c, Later(l, d.metaLsn)) = Applied(h, c, Later(a, d.metaLsn))
      /\ Applied(h, c, Later(l, d.tupleLsn)) = Applied(h, c, Later(a, d.tupleLsn))
    <2>1. CASE h[l].coll # c
        <3>1. ASSUME NEW x \in Nat PROVE Applied(h, c, Later(l, x)) = Applied(h, c, Later(a, x))
            BY <2>1, AppliedLater
        <3> QED BY <1>1, <3>1
    <2>2. CASE l <= d.tupleLsn /\ d.tupleLsn <= d.metaLsn
        <3>1. /\ Later(l, d.metaLsn) = Later(a, d.metaLsn)
              /\ Later(l, d.tupleLsn) = Later(a, d.tupleLsn)
            BY <1>1, <2>2 DEF Later
        <3> QED BY <3>1
    <2> QED BY <2>1, <2>2
<1> QED BY <1>2 DEF Follows

(* The next record r at l of the collection, from m to t: its effect if it *)
(* was applied, nothing if it was refused, nothing either if the liveness  *)
(* has it and none of its rows is left.                                    *)
Moved(m, t, r, l, d) ==
    \/ r.verdict = "applied" /\ Effect(m, t, r, l)
    \/ /\ t.live = m.live /\ t.post = m.post /\ t.count = m.count
       /\ t.flat = m.flat /\ t.tuple = m.tuple
       /\ \/ r.verdict = "refused"
          \/ /\ r.verdict = "applied" /\ l <= d.metaLsn
             /\ r.retire \cap m.live = {} /\ Installed(r) \cap m.live = {}

LEMMA FollowsNext ==
    ASSUME NEW h \in Seq(Logged), NEW c, Past(h, c), NEW N, N = Applied(h, c, Len(h)),
           NEW a \in Nat, NEW l, l = a + 1, l <= Len(h), NEW r, r = h[l], r.coll = c,
           NEW d \in Stored, d.tupleLsn <= d.metaLsn, d.metaLsn <= Len(h), l > d.tupleLsn,
           Honest(h, N, d), NEW m \in Stored, NEW t \in Stored, Follows(h, c, a, d, m),
           Moved(m, t, r, l, d)
    PROVE  Follows(h, c, l, d, t)
<1>0. PICK B, E : /\ B = Applied(h, c, Later(a, d.metaLsn))
                  /\ E = Applied(h, c, Later(a, d.tupleLsn))
    OBVIOUS
<1>1. PICK BB, EE : /\ BB = Applied(h, c, Later(l, d.metaLsn))
                    /\ EE = Applied(h, c, Later(l, d.tupleLsn))
    OBVIOUS
<1>2. d.tupleLsn \in Nat /\ d.metaLsn \in Nat /\ Len(h) \in Nat /\ l \in 1 .. Len(h)
    BY StoredFields
<1>3. /\ N \subseteq 1 .. Len(h) /\ B \subseteq N /\ E \subseteq B /\ E = Applied(h, c, a)
      /\ a < d.metaLsn => B = Applied(h, c, d.metaLsn)
    <2>1. PICK x, y : x = Later(a, d.metaLsn) /\ y = Later(a, d.tupleLsn)
        OBVIOUS
    <2>2. /\ x \in 0 .. Len(h) /\ y = a /\ y <= x
          /\ a < d.metaLsn => x = d.metaLsn
        BY <1>2, <2>1 DEF Later
    <2> QED BY <1>0, <1>2, <2>1, <2>2 DEF Applied
<1>4. /\ r.verdict = "applied" => BB = B \cup {l} /\ EE = E \cup {l}
      /\ r.verdict # "applied" => BB = B /\ EE = E
    <2>1. /\ r.verdict = "applied" => BB = B \cup {l}
          /\ r.verdict # "applied" => BB = B
        BY ONLY <1>0, <1>1, <1>2, a \in Nat, l = a + 1, r = h[l], r.coll = c, AppliedLater
    <2>2. /\ r.verdict = "applied" => EE = E \cup {l}
          /\ r.verdict # "applied" => EE = E
        BY ONLY <1>0, <1>1, <1>2, a \in Nat, l = a + 1, r = h[l], r.coll = c, AppliedLater
    <2> QED BY <2>1, <2>2
<1>5. l \notin E /\ Ret(h, E) \subseteq Inst(h, E)
    <2>1. a \in 0 .. Len(h)
        BY <1>2
    <2>2. l \notin Applied(h, c, a)
        BY DEF Applied
    <2> QED BY <1>3, <2>1, <2>2, RetiredWereInstalled
<1>6. /\ Once(h, N) /\ \A i \in N : h[i] \in Logged
    BY <1>2, <1>3 DEF Past
<1>7. /\ Holds(h, N, B, E, m) /\ \A o \in Ordinals : d.flat[o] # 0 => m.flat[o] = d.flat[o]
    BY <1>0 DEF Follows
<1>8. r.verdict = "applied" => l \in N
    BY <1>2 DEF Applied
<1>9. CASE r.verdict = "applied" /\ Effect(m, t, r, l)
    <2>0. l \in N /\ l # 0 /\ B \subseteq N /\ E \subseteq B
        BY <1>2, <1>3, <1>8, <1>9
    <2>1. Holds(h, N, B \cup {l}, E \cup {l}, t)
        BY ONLY <2>0, <1>5, <1>6, <1>7, <1>9, r = h[l], m \in Stored, t \in Stored, HoldsApplied
    <2>2. ASSUME NEW o \in Ordinals, d.flat[o] # 0 PROVE t.flat[o] = d.flat[o]
        <3>1. d.flat[o] \in N /\ o \in Installed(h[d.flat[o]]) /\ m.flat[o] = d.flat[o]
            BY <1>7, <2>2 DEF Honest
        <3>2. CASE o \in Installed(r)
            <4>1. d.flat[o] = l
                BY <1>6, <1>8, <1>9, <3>1, <3>2 DEF Once
            <4> QED BY <1>9, <3>2, <4>1 DEF Effect
        <3>3. CASE o \notin Installed(r)
            BY <1>9, <3>1, <3>3 DEF Effect
        <3> QED BY <3>2, <3>3
    <2>3. BB = B \cup {l} /\ EE = E \cup {l}
        BY <1>4, <1>9
    <2> QED BY <1>1, <2>1, <2>2, <2>3 DEF Follows
<1>10. ASSUME t.live = m.live, t.post = m.post, t.count = m.count, t.flat = m.flat, t.tuple = m.tuple,
              r.verdict = "refused"
       PROVE  Follows(h, c, l, d, t)
    <2>1. BB = B /\ EE = E
        BY <1>4, <1>10
    <2>2. Holds(h, N, B, E, t)
        BY <1>7, <1>10, HoldsSame
    <2> QED BY <1>1, <1>7, <1>10, <2>1, <2>2 DEF Follows
<1>11. ASSUME t.live = m.live, t.post = m.post, t.count = m.count, t.flat = m.flat, t.tuple = m.tuple,
              r.verdict = "applied", l <= d.metaLsn,
              r.retire \cap m.live = {}, Installed(r) \cap m.live = {}
       PROVE  Follows(h, c, l, d, t)
    <2>1. l \in B
        <3>1. B = Applied(h, c, d.metaLsn)
            BY <1>2, <1>3, <1>11
        <3> QED BY <1>2, <1>11, <3>1 DEF Applied
    <2>2. BB = B /\ EE = E \cup {l}
        BY <1>4, <1>11, <2>1
    <2>3. h[l] \in Logged
        BY <1>2
    <2>4. Holds(h, N, B, E \cup {l}, t)
        BY ONLY <1>3, <1>7, <1>11, <2>1, <2>3, r = h[l], m \in Stored, t \in Stored, HoldsPassed
    <2> QED BY <1>1, <1>7, <1>11, <2>2, <2>4 DEF Follows
<1> QED BY <1>9, <1>10, <1>11 DEF Moved

(* Memory that is not behind its liveness judges a record as its caller    *)
(* was told.                                                               *)
LEMMA JudgesAlike ==
    ASSUME Safe, NEW c \in Collections, HistInv(c), MemInv(c), pc # "down",
           applied >= disk[c].metaLsn, NEW l, l = applied + 1, l <= Len(hist), hist[l].coll = c,
           NEW N, N = Applied(hist, c, Len(hist)), NEW A, A = Applied(hist, c, applied)
    PROVE  /\ Holds(hist, N, A, A, mem[c]) /\ A \subseteq N /\ l \notin A
           /\ Verdict(mem[c], hist[l]) = hist[l].verdict
<1>0. /\ hist \in Seq(Logged) /\ Len(hist) \in Nat /\ applied \in Nat /\ LsnOf(c)
      /\ mem[c] \in Stored /\ disk[c] \in Stored /\ l \in 1 .. Len(hist)
    BY DEF Safe, LsnInv, TypeOK, Types
<1>1. Later(applied, disk[c].metaLsn) = applied /\ Later(applied, disk[c].tupleLsn) = applied
    BY <1>0, StoredFields DEF LsnOf, Ordered, Later
<1>2. Holds(hist, N, A, A, mem[c])
    BY <1>1 DEF MemInv, Follows
<1>3. A \subseteq N /\ l \notin A /\ N \subseteq 1 .. Len(hist)
    BY <1>0 DEF Applied
<1>4. Past(hist, c) /\ Once(hist, N)
    BY DEF HistInv, Past
<1>5. \A i \in N : Installed(hist[i]) \subseteq Ordinals
    BY <1>0, <1>3, LoggedFields
<1>6. Refused(mem[c].live, mem[c].post, hist[l]) <=> Due(hist, A, hist[l])
    BY <1>0, <1>2, <1>3, <1>4, <1>5, ExactVerdict
<1>7. hist[l].verdict = IF Due(hist, A, hist[l]) THEN "refused" ELSE "applied"
    <2>1. l - 1 = applied
        BY <1>0
    <2> QED BY <1>0, <1>4, <2>1 DEF Past
<1> QED BY <1>2, <1>3, <1>6, <1>7 DEF Verdict

(* In an open database nothing on disk is ahead of what is applied.        *)
LEMMA NothingAhead ==
    ASSUME Safe, NEW c \in Collections, Running
    PROVE  disk[c].metaLsn <= applied /\ disk[c].tupleLsn <= applied
<1>1. /\ LsnOf(c) /\ mem[c] \in Stored /\ disk[c] \in Stored /\ applied \in Nat
    BY DEF Safe, LsnInv, TypeOK, Types
<1>2. /\ mem[c].flatLsn \in Nat /\ disk[c].flatLsn \in Nat /\ disk[c].metaLsn \in Nat
      /\ disk[c].tupleLsn \in Nat
    BY <1>1, StoredFields
<1>3. pc # "down"
    BY DEF Running
<1> QED BY <1>1, <1>2, <1>3 DEF LsnOf, Ordered

(* An installed ordinal that the disk has data at is the record's own.     *)
LEMMA OwnData ==
    ASSUME NEW h, NEW N, Once(h, N), NEW s, Honest(h, N, s), NEW l \in N,
           NEW o \in Ordinals, o \in Installed(h[l]), s.flat[o] # 0
    PROVE  s.flat[o] = l
BY DEF Honest, Once

LEMMA MemReach ==
    ASSUME Safe, Reach, NEW c \in Collections, HistInv(c), OnDisk(hist, c, disk[c]), MemInv(c),
           BegunInv(c)
    PROVE  Follows(hist, c, applied', disk[c], mem'[c])
<1>0. /\ TypeOK /\ ControlInv /\ LsnOf(c) /\ StepInv /\ hist \in Seq(Logged) /\ Len(hist) \in Nat
      /\ applied \in Nat /\ mem \in [Collections -> Stored] /\ disk[c] \in Stored
      /\ step \in {0, 1, 2} /\ Past(hist, c)
    BY DEF Safe, LsnInv, TypeOK, Types, HistInv
<1>1. PICK l, r, m, n : Reached(l, r, m, n)
    BY <1>0, ReachReaches
<1>2. /\ l = applied + 1 /\ l \in 1 .. Len(hist) /\ r = hist[l] /\ r \in Logged /\ pc = "apply"
      /\ m = mem[r.coll] /\ m \in Stored /\ n \in Stored /\ mem' = [mem EXCEPT ![r.coll] = n]
    BY <1>1 DEF Reached
<1>3. Follows(hist, c, applied, disk[c], mem[c])
    BY <1>2 DEF MemInv
<1>4. step # 2 => applied' = applied
    BY <1>0, <1>1 DEF Reached
<1>5. step = 2 => applied' = l
    BY <1>1 DEF Reached, ApplyDone
<1>6. CASE r.coll # c
    <2>1. mem'[c] = mem[c]
        BY <1>0, <1>2, <1>6
    <2>2. Follows(hist, c, l, disk[c], mem[c])
        BY <1>0, <1>2, <1>3, <1>6, FollowsOther
    <2> QED BY <1>3, <1>4, <1>5, <2>1, <2>2
<1>7. CASE r.coll = c
    <2>1. mem'[c] = n /\ m = mem[c]
        BY <1>0, <1>2, <1>7
    <2>2. disk[c].metaLsn <= applied /\ disk[c].tupleLsn <= applied /\ pc # "down"
        BY <1>2, NothingAhead DEF Running
    <2>3. PICK N, A : N = Applied(hist, c, Len(hist)) /\ A = Applied(hist, c, applied)
        OBVIOUS
    <2>4. /\ Holds(hist, N, A, A, m) /\ A \subseteq N /\ l \notin A
          /\ Verdict(m, r) = r.verdict
        <3>1. applied >= disk[c].metaLsn /\ l <= Len(hist) /\ hist[l].coll = c
            BY <1>0, <1>2, <1>7, <2>2, StoredFields
        <3> QED BY <1>2, <2>1, <2>2, <2>3, <3>1, JudgesAlike
    <2>5. r.verdict = "applied"
        <3>1. CASE step = 0
            BY <1>1, <2>4, <3>1 DEF Reached
        <3>2. CASE step > 0
            BY <1>2, <1>7, <3>2 DEF BegunInv
        <3> QED BY <1>0, <3>1, <3>2
    <2>6. l \in N /\ Once(hist, N) /\ \A i \in N : hist[i] \in Logged
        <3>1. N \subseteq 1 .. Len(hist)
            BY <2>3 DEF Applied
        <3> QED BY <1>0, <1>2, <1>7, <2>3, <2>5, <3>1 DEF Applied, Past
    <2>7. Honest(hist, N, disk[c])
        BY <2>3 DEF OnDisk
    <2>8. CASE step # 2
        <3>1. /\ n.live = m.live /\ n.post = m.post /\ m.count <= n.count
              /\ \A o \in Ordinals :
                    /\ n.flat[o] # m.flat[o] => n.flat[o] = l /\ o \in Installed(hist[l])
                    /\ n.tuple[o] # m.tuple[o] => n.tuple[o] = l /\ o \in Installed(hist[l])
            BY <1>0, <1>1, <1>2, <2>8 DEF Reached
        <3>2. Holds(hist, N, A, A, n)
            BY ONLY <1>2, <2>4, <2>6, <3>1, A \subseteq A, HoldsMeanwhile
        <3>3. ASSUME NEW o \in Ordinals, disk[c].flat[o] # 0 PROVE n.flat[o] = disk[c].flat[o]
            <4>1. m.flat[o] = disk[c].flat[o]
                BY <1>3, <2>1, <3>3 DEF Follows
            <4>2. o \in Installed(hist[l]) => disk[c].flat[o] = l
                BY <2>6, <2>7, <3>3, OwnData
            <4> QED BY <3>1, <4>1, <4>2
        <3>4. /\ Later(applied, disk[c].metaLsn) = applied
              /\ Later(applied, disk[c].tupleLsn) = applied
            BY <1>0, <2>2, StoredFields DEF Later
        <3> QED BY <1>4, <2>1, <2>3, <2>8, <3>2, <3>3, <3>4 DEF Follows
    <2>9. CASE step = 2
        <3>1. Effect(m, n, r, l)
            <4>1. /\ n.live = (m.live \cup Installed(r)) \ r.retire /\ n.post = Reposted(m.post, r)
                  /\ n.count = m.count
                  /\ \A o \in Ordinals : n.flat[o] = m.flat[o] /\ n.tuple[o] = m.tuple[o]
                BY <1>1, <2>9 DEF Reached
            <4>2. \A o \in Installed(r) : m.flat[o] = l /\ o < m.count /\ m.tuple[o] = l
                BY <1>0, <1>2, <2>9 DEF StepInv
            <4>3. Installed(r) \subseteq Ordinals /\ m.count <= n.count
                BY <1>2, <4>1, LoggedFields, StoredFields
            <4> QED BY <4>1, <4>2, <4>3 DEF Effect
        <3>2. /\ disk[c].tupleLsn <= disk[c].metaLsn /\ disk[c].metaLsn <= Len(hist)
              /\ l > disk[c].tupleLsn /\ l <= Len(hist)
            BY <1>0, <1>2, <2>2, StoredFields DEF LsnOf, Ordered
        <3>3. Follows(hist, c, applied, disk[c], m)
            BY <1>3, <2>1
        <3>4. Follows(hist, c, l, disk[c], n)
            <4>1. Moved(m, n, r, l, disk[c])
                BY <2>5, <3>1 DEF Moved
            <4> QED BY ONLY <1>0, <1>2, <1>7, <2>3, <2>7, <3>2, <3>3, <4>1, FollowsNext
        <3> QED BY <1>5, <2>1, <2>9, <3>4
    <2> QED BY <2>8, <2>9
<1> QED BY <1>6, <1>7

LEMMA MemRefuse ==
    ASSUME Safe, Refuse, NEW c \in Collections, HistInv(c), OnDisk(hist, c, disk[c]), MemInv(c)
    PROVE  Follows(hist, c, applied', disk[c], mem'[c])
<1>0. /\ TypeOK /\ ControlInv /\ LsnOf(c) /\ hist \in Seq(Logged) /\ Len(hist) \in Nat
      /\ applied \in Nat /\ mem \in [Collections -> Stored] /\ disk[c] \in Stored
      /\ Past(hist, c)
    BY DEF Safe, LsnInv, TypeOK, Types, HistInv
<1>1. PICK l, r, m, n :
         Skipped(l, r, m, n) /\ pc = "apply" /\ l = applied + 1 /\ ApplyDone(l)
    BY <1>0, RefuseSkips
<1>2. /\ l = applied + 1 /\ l \in 1 .. Len(hist) /\ r = hist[l] /\ m = mem[r.coll]
      /\ m \in Stored /\ n \in Stored
      /\ mem' = [mem EXCEPT ![r.coll] = n] /\ applied' = l /\ Verdict(m, r) = "refused"
      /\ n.live = m.live /\ n.post = m.post /\ n.count = m.count /\ n.flat = m.flat
      /\ n.tuple = m.tuple
    BY <1>1 DEF Skipped, ApplyDone
<1>3. Follows(hist, c, applied, disk[c], mem[c])
    BY <1>1 DEF MemInv
<1>4. CASE r.coll # c
    <2>1. mem'[c] = mem[c]
        BY <1>0, <1>2, <1>4
    <2>2. Follows(hist, c, l, disk[c], mem[c])
        BY <1>0, <1>1, <1>2, <1>3, <1>4, FollowsOther
    <2> QED BY <1>2, <2>1, <2>2
<1>5. CASE r.coll = c
    <2>1. mem'[c] = n /\ m = mem[c]
        BY <1>0, <1>2, <1>5
    <2>2. disk[c].metaLsn <= applied /\ disk[c].tupleLsn <= applied /\ pc # "down"
        BY <1>1, NothingAhead DEF Running
    <2>3. PICK N, A : N = Applied(hist, c, Len(hist)) /\ A = Applied(hist, c, applied)
        OBVIOUS
    <2>4. r.verdict = "refused"
        <3>1. applied >= disk[c].metaLsn /\ l <= Len(hist) /\ hist[l].coll = c
            BY <1>0, <1>2, <1>5, <2>2, StoredFields
        <3> QED BY <1>1, <1>2, <2>1, <2>2, <2>3, <3>1, JudgesAlike
    <2>5. Moved(m, n, r, l, disk[c])
        BY <1>2, <2>4 DEF Moved
    <2>6. /\ disk[c].tupleLsn <= disk[c].metaLsn /\ disk[c].metaLsn <= Len(hist)
          /\ l > disk[c].tupleLsn /\ l <= Len(hist)
        BY <1>0, <1>1, <1>2, <2>2, StoredFields DEF LsnOf, Ordered
    <2>7. Honest(hist, N, disk[c]) /\ Follows(hist, c, applied, disk[c], m)
        BY <1>3, <2>1, <2>3 DEF OnDisk
    <2>8. Follows(hist, c, l, disk[c], n)
        <3>1. l = applied + 1 /\ r = hist[l] /\ m \in Stored /\ n \in Stored
            BY <1>2
        <3> QED BY ONLY <1>0, <1>5, <2>3, <2>5, <2>6, <2>7, <3>1, FollowsNext
    <2> QED BY <1>2, <2>1, <2>8
<1> QED BY <1>4, <1>5

(* A record replayed under a liveness that is newer: nothing it is judged  *)
(* by can have changed, but for an update's one row, which may be gone.    *)
LEMMA JudgedByNewer ==
    ASSUME Safe, NEW c \in Collections, HistInv(c), ReplayInv(c), pc = "replay",
           NEW l \in 1 .. Len(hist), NEW r, r = hist[l], r.coll = c, l > disk[c].tupleLsn,
           l <= disk[c].metaLsn, NEW m
    PROVE  /\ r.verdict = "applied"
           /\ Verdict(m, r) = "refused" => r.retire \cap m.live = {} /\ Installed(r) \cap m.live = {}
<1>0. /\ hist \in Seq(Logged) /\ Len(hist) \in Nat /\ disk[c] \in Stored /\ r \in Logged
      /\ disk[c].tupleLsn \in Nat /\ disk[c].metaLsn \in Nat
    BY StoredFields DEF Safe, TypeOK, Types
<1>1. l \in disk[c].tupleLsn + 1 .. disk[c].metaLsn
    BY <1>0
<1>2. l \notin Rejudged(c)
    BY DEF ReplayInv
<1>3. /\ ~ (r.kind = "insert" /\ c \in Keyed)
      /\ ~ (r.kind = "update" /\ Cardinality(r.retire) > 1)
      /\ ~ (r.kind = "update" /\ r.verdict = "refused")
    BY <1>1, <1>2 DEF Rejudged
<1>4. r.verdict = "applied"
    <2>1. r.verdict = IF Due(hist, Applied(hist, c, l - 1), r) THEN "refused" ELSE "applied"
        BY DEF HistInv, Past
    <2>2. Due(hist, Applied(hist, c, l - 1), r) => r.kind = "update"
        BY <1>3 DEF Due, IsStale
    <2> QED BY <1>3, <2>1, <2>2
<1>5. ASSUME Verdict(m, r) = "refused"
      PROVE  r.retire \cap m.live = {} /\ Installed(r) \cap m.live = {}
    <2>1. IsStale(m.live, r)
        BY <1>3, <1>5 DEF Verdict, Refused, DuplicateKey
    <2>2. /\ r.kind = "update" /\ ~ r.retire \subseteq m.live /\ Installed(r) \cap m.live = {}
        BY <2>1 DEF IsStale
    <2>3. IsFiniteSet(r.retire) /\ Cardinality(r.retire) \in Nat
        BY <1>0, LoggedFields, OrdinalsAreNaturals, FS_Subset, FS_CardinalityType
    <2>4. ASSUME NEW x \in r.retire, x \in m.live PROVE FALSE
        <3>1. {x} \in SUBSET r.retire /\ Cardinality({x}) = 1
            BY FS_Singleton
        <3>2. /\ Cardinality({x}) <= Cardinality(r.retire)
              /\ Cardinality({x}) = Cardinality(r.retire) => r.retire = {x}
            BY <2>3, <3>1, FS_Subset
        <3>3. ~(Cardinality(r.retire) > 1)
            BY <1>3, <2>2
        <3>4. r.retire = {x}
            BY <2>3, <3>1, <3>2, <3>3
        <3> QED BY <2>2, <2>4, <3>4
    <2> QED BY <2>2, <2>4
<1> QED BY <1>4, <1>5

LEMMA MemReplay ==
    ASSUME Safe, Replay, NEW c \in Collections, HistInv(c), OnDisk(hist, c, disk[c]), MemInv(c),
           ReplayInv(c)
    PROVE  Follows(hist, c, applied', disk[c], mem'[c])
<1>0. /\ TypeOK /\ ControlInv /\ LsnOf(c) /\ hist \in Seq(Logged) /\ Len(hist) \in Nat
      /\ applied \in Nat /\ mem \in [Collections -> Stored] /\ disk[c] \in Stored
      /\ Past(hist, c) /\ disk[c].tupleLsn \in Nat /\ disk[c].metaLsn \in Nat
    BY StoredFields DEF Safe, LsnInv, TypeOK, Types, HistInv
<1>1. PICK l : /\ pc = "replay" /\ l = applied + 1 /\ l \in 1 .. Len(hist) /\ applied' = l
               /\ \/ mem' = mem /\ hist[l].coll \in Collections /\ l <= floors[hist[l].coll]
                  \/ \E r, m, n : Refolded(l, r, m, n)
    BY <1>0, ReplayFolds
<1>2. Follows(hist, c, applied, disk[c], mem[c])
    BY <1>1 DEF MemInv
<1>3. /\ floors[c] = disk[c].tupleLsn /\ disk[c].tupleLsn <= disk[c].metaLsn
      /\ disk[c].metaLsn <= Len(hist)
    BY <1>0, <1>1, StoredFields DEF LsnOf, Ordered
<1>4. CASE mem' = mem /\ hist[l].coll \in Collections /\ l <= floors[hist[l].coll]
    <2>1. hist[l].coll # c \/ (l <= disk[c].tupleLsn /\ disk[c].tupleLsn <= disk[c].metaLsn)
        BY <1>3, <1>4
    <2>2. Follows(hist, c, l, disk[c], mem[c])
        BY <1>0, <1>1, <1>2, <2>1, FollowsOther
    <2> QED BY <1>1, <1>4, <2>2
<1>5. ASSUME NEW r, NEW m, NEW n, Refolded(l, r, m, n)
      PROVE  Follows(hist, c, applied', disk[c], mem'[c])
    <2>1. /\ r = hist[l] /\ r \in Logged /\ m = mem[r.coll] /\ m \in Stored /\ n \in Stored
          /\ mem' = [mem EXCEPT ![r.coll] = n] /\ l > floors[r.coll] /\ n = Fold(m, r, l)
          /\ l \in Nat
        BY <1>5 DEF Refolded
    <2>2. CASE r.coll # c
        <3>1. mem'[c] = mem[c]
            BY <1>0, <2>1, <2>2
        <3>2. Follows(hist, c, l, disk[c], mem[c])
            BY <1>0, <1>1, <1>2, <2>1, <2>2, FollowsOther
        <3> QED BY <1>1, <3>1, <3>2
    <2>3. CASE r.coll = c
        <3>1. mem'[c] = n /\ m = mem[c] /\ l > disk[c].tupleLsn
            BY <1>0, <1>3, <2>1, <2>3
        <3>2. PICK N, A : N = Applied(hist, c, Len(hist)) /\ A = Applied(hist, c, applied)
            OBVIOUS
        <3>3. Verdict(m, r) \in {"refused", "applied"}
            BY DEF Verdict
        <3>4. Verdict(m, r) = "applied" => Effect(m, n, r, l)
            BY <2>1, FoldEffect
        <3>5. Verdict(m, r) = "refused" => /\ n.live = m.live /\ n.post = m.post
                                           /\ n.count = m.count /\ n.flat = m.flat
                                           /\ n.tuple = m.tuple
            BY <2>1, FoldFields
        <3>6. Moved(m, n, r, l, disk[c])
            <4>1. CASE l <= disk[c].metaLsn
                <5>1. /\ r.verdict = "applied"
                      /\ Verdict(m, r) = "refused"
                            => r.retire \cap m.live = {} /\ Installed(r) \cap m.live = {}
                    BY <1>1, <2>1, <2>3, <3>1, <4>1, JudgedByNewer
                <5> QED BY <1>0, <3>3, <3>4, <3>5, <4>1, <5>1 DEF Moved
            <4>2. CASE ~(l <= disk[c].metaLsn)
                <5>1. applied >= disk[c].metaLsn /\ l <= Len(hist) /\ hist[l].coll = c /\ pc # "down"
                    BY <1>0, <1>1, <2>1, <2>3, <4>2
                <5>2. Verdict(m, r) = r.verdict
                    BY <1>1, <2>1, <3>1, <3>2, <5>1, JudgesAlike
                <5> QED BY <3>3, <3>4, <3>5, <5>2 DEF Moved
            <4> QED BY <4>1, <4>2
        <3>7. Honest(hist, N, disk[c]) /\ Follows(hist, c, applied, disk[c], m) /\ l <= Len(hist)
            BY <1>1, <1>2, <3>1, <3>2 DEF OnDisk
        <3>8. Follows(hist, c, l, disk[c], n)
            BY ONLY <1>0, <1>1, <1>3, <2>1, <2>3, <3>1, <3>2, <3>6, <3>7, FollowsNext
        <3> QED BY <1>1, <3>1, <3>8
    <2> QED BY <2>2, <2>3
<1> QED BY <1>1, <1>4, <1>5

(* At open the memory is the disk, each store at its own watermark.        *)
LEMMA MemOpen ==
    ASSUME Safe, Open, NEW c \in Collections, OnDisk(hist, c, disk[c])
    PROVE  Follows(hist, c, applied', disk[c], mem'[c])
<1>0. /\ Types /\ LsnOf(c) /\ disk[c] \in Stored /\ Len(hist) \in Nat
    BY DEF Safe, LsnInv, TypeOK, Types
<1>1. PICK d, a : d = disk[c] /\ a = DurableThrough
    OBVIOUS
<1>2. applied' = a /\ mem'[c] = d
    BY <1>1 DEF Open
<1>3. /\ d.tupleLsn \in Nat /\ d.metaLsn \in Nat /\ d.tupleLsn <= d.metaLsn
      /\ d.metaLsn <= d.flatLsn
    BY <1>0, <1>1, StoredFields DEF LsnOf, Ordered
<1>4. a \in Nat /\ a <= d.tupleLsn
    BY <1>0, <1>1, <1>3, DurableType, OrderedWatermark
<1>5. Later(a, d.metaLsn) = d.metaLsn /\ Later(a, d.tupleLsn) = d.tupleLsn
    BY <1>3, <1>4 DEF Later
<1>6. PICK N, B, E : /\ N = Applied(hist, c, Len(hist)) /\ B = Applied(hist, c, d.metaLsn)
                     /\ E = Applied(hist, c, d.tupleLsn)
    OBVIOUS
<1>7. /\ Honest(hist, N, d) /\ d.live = Alive(hist, B) /\ Written(hist, B, d)
      /\ Kept(hist, E, Ret(hist, E), d)
    BY <1>1, <1>6 DEF OnDisk
<1>8. Ret(hist, E) \subseteq Ret(hist, B)
    <2>1. E \subseteq B
        BY <1>3, <1>6, AppliedGrows
    <2> QED BY <2>1, RowsGrow
<1>9. Holds(hist, N, B, E, d)
    BY <1>7, <1>8 DEF Holds, Kept
<1>10. Follows(hist, c, a, d, d)
    BY <1>5, <1>6, <1>9 DEF Follows
<1> QED BY <1>1, <1>2, <1>10

LEMMA MemStep ==
    ASSUME Safe, Next, NEW c \in Collections, c \notin skewed, HistInv(c), OnDisk(hist, c, disk[c]),
           MemInv(c), ReplayInv(c), BegunInv(c)
    PROVE  pc' # "down" => Follows(hist', c, applied', disk'[c], mem'[c])
<1>0. /\ TypeOK /\ ControlInv /\ LsnOf(c) /\ SyncInv /\ hist \in Seq(Logged) /\ Len(hist) \in Nat
      /\ applied \in Nat /\ mem \in [Collections -> Stored] /\ disk \in [Collections -> Stored]
      /\ mem[c] \in Stored /\ disk[c] \in Stored /\ Safe'
    BY SafeStep DEF Safe, LsnInv, TypeOK, Types
<1>1. pc # "down" => Follows(hist, c, applied, disk[c], mem[c])
    BY DEF MemInv
<1>2. CASE Statement
    <2>1. PICK e : Recorded(e)
        BY <1>0, <1>2, StatementRecords
    <2>2. Grown(hist, hist')
        BY <1>0, <2>1, Appended DEF Grown
    <2>3. UNCHANGED <<applied, mem, disk>> /\ pc = "idle"
        BY <2>1 DEF Recorded
    <2>4. PICK x, y : x = Later(applied, disk[c].metaLsn) /\ y = Later(applied, disk[c].tupleLsn)
        OBVIOUS
    <2>5. x \in 0 .. Len(hist) /\ y \in 0 .. Len(hist)
        BY <1>0, <2>4, StoredFields DEF Later, LsnOf, Ordered, ControlInv
    <2>6. Len(hist') = Len(hist) + 1 /\ \A l \in 1 .. Len(hist) : hist'[l] = hist[l]
        BY <2>2 DEF Grown
    <2>7. PICK N, M, B, E : /\ N = Applied(hist, c, Len(hist)) /\ M = Applied(hist', c, Len(hist'))
                            /\ B = Applied(hist, c, x) /\ E = Applied(hist, c, y)
        OBVIOUS
    <2>8. /\ B = Applied(hist', c, x) /\ E = Applied(hist', c, y)
          /\ B \subseteq N /\ E \subseteq N /\ N \subseteq M /\ N \subseteq 1 .. Len(hist)
        BY <1>0, <2>5, <2>6, <2>7 DEF Applied
    <2>9. Holds(hist, N, B, E, mem[c])
        BY <1>1, <2>3, <2>4, <2>7 DEF Follows
    <2>10. Holds(hist', M, B, E, mem[c])
        BY ONLY <2>2, <2>8, <2>9, HoldsGrows
    <2>11. Follows(hist', c, applied, disk[c], mem[c])
        BY <1>1, <2>3, <2>4, <2>7, <2>8, <2>10 DEF Follows
    <2> QED BY <2>3, <2>11
<1>3. CASE BeginApply \/ BeginCheckpoint \/ SyncCatalog \/ Truncate \/ CheckpointFails \/ Ready
    <2>1. UNCHANGED <<hist, applied, disk, mem>> /\ pc # "down"
        BY <1>3 DEF BeginApply, BeginCheckpoint, SyncCatalog, Truncate, CheckpointFails, Ready
    <2> QED BY <1>1, <2>1
<1>4. CASE Refuse
    <2>1. UNCHANGED <<hist, disk>>
        BY <1>4 DEF Refuse
    <2> QED BY <1>4, <2>1, MemRefuse
<1>5. CASE Reach
    <2>1. UNCHANGED <<hist, disk>>
        BY <1>5 DEF Reach
    <2> QED BY <1>5, <2>1, MemReach
<1>6. CASE Open
    <2>1. UNCHANGED <<hist, disk>>
        BY <1>6 DEF Open
    <2> QED BY <1>6, <2>1, MemOpen
<1>7. CASE Replay
    <2>1. UNCHANGED <<hist, disk>>
        BY <1>7 DEF Replay
    <2> QED BY <1>7, <2>1, MemReplay
<1>8. CASE Crash
    BY <1>8 DEF Crash
<1>9. CASE SyncStore
    <2>1. PICK d, t, n : d = Head(pending) /\ t = MakeDurable(disk[d], SyncOrder[n + 1], mem[d])
                         /\ n = synced
        OBVIOUS
    <2>2. /\ n \in 0 .. 2 /\ d \in Collections /\ disk[d] \in Stored /\ mem[d] \in Stored
          /\ disk' = [disk EXCEPT ![d] = t] /\ UNCHANGED <<hist, applied, mem>>
          /\ pc = "checkpoint" /\ pc' = "checkpoint"
        BY <1>9, <2>1 DEF SyncStore, Safe, TypeOK, Types
    <2>3. CASE c # d
        BY <1>0, <1>1, <2>2, <2>3
    <2>4. CASE c = d
        <3>1. /\ disk'[c] = t /\ t \in Stored /\ t.flat \in {mem[c].flat, disk[c].flat}
              /\ disk'[c] \in Stored
            BY <1>0, <2>1, <2>2, <2>4, MakeDurableFields
        <3>2. /\ disk'[c].metaLsn <= applied /\ disk'[c].tupleLsn <= applied
              /\ disk[c].metaLsn <= applied /\ disk[c].tupleLsn <= applied
            <4>1. /\ disk[c].metaLsn <= applied /\ disk[c].tupleLsn <= applied
                BY <2>2, NothingAhead DEF Running
            <4>2. Ordered(disk'[c], Len(hist')) /\ applied = Len(hist)
                BY <1>0, <2>2 DEF Safe, LsnInv, LsnOf, ControlInv
            <4>3. disk'[c].metaLsn <= applied /\ disk'[c].tupleLsn <= applied
                BY <1>0, <2>2, <3>1, <4>2, StoredFields DEF Ordered
            <4> QED BY <4>1, <4>3
        <3>3. /\ Later(applied, disk'[c].metaLsn) = Later(applied, disk[c].metaLsn)
              /\ Later(applied, disk'[c].tupleLsn) = Later(applied, disk[c].tupleLsn)
            BY <1>0, <3>1, <3>2, StoredFields DEF Later
        <3>4. Follows(hist, c, applied, disk[c], mem[c])
            BY <1>1, <2>2
        <3>5. \A o \in Ordinals : t.flat[o] # 0 => mem[c].flat[o] = t.flat[o]
            BY <3>1, <3>4 DEF Follows
        <3>6. Follows(hist, c, applied, t, mem[c])
            BY <3>1, <3>3, <3>4, <3>5 DEF Follows
        <3> QED BY <2>2, <3>1, <3>6
    <2> QED BY <2>3, <2>4
<1> QED BY <1>2, <1>3, <1>4, <1>5, <1>6, <1>7, <1>8, <1>9 DEF Next

-----------------------------------------------------------------------------
(* The invariant, and what it means to a reader.                           *)
LEMMA BegunStep ==
    ASSUME Safe, Next, NEW c \in Collections, HistInv(c), MemInv(c), BegunInv(c)
    PROVE  BegunInv(c)'
<1>0. /\ TypeOK /\ ControlInv /\ hist \in Seq(Logged) /\ Len(hist) \in Nat /\ applied \in Nat
      /\ mem \in [Collections -> Stored] /\ step \in {0, 1, 2} /\ disk[c] \in Stored
    BY DEF Safe, TypeOK, Types
<1>1. CASE Reach
    <2>1. PICK l, r, m, n : Reached(l, r, m, n)
        BY <1>0, <1>1, ReachReaches
    <2>2. /\ l = applied + 1 /\ l \in 1 .. Len(hist) /\ r = hist[l] /\ pc = "apply"
          /\ m = mem[r.coll] /\ hist' = hist /\ step = 0 => Verdict(m, r) = "applied"
        BY <2>1 DEF Reached
    <2>3. CASE step = 2
        <3>1. step' = 0
            BY <2>1, <2>3 DEF Reached, ApplyDone
        <3> QED BY <3>1 DEF BegunInv
    <2>4. CASE step # 2
        <3>1. applied' = applied /\ hist'[applied' + 1] = r
            BY <1>0, <2>1, <2>2, <2>4 DEF Reached
        <3>2. ASSUME r.coll = c PROVE r.verdict = "applied"
            <4>1. CASE step > 0
                BY <2>2, <3>2, <4>1 DEF BegunInv
            <4>2. CASE step = 0
                <5>1. disk[c].metaLsn <= applied /\ pc # "down"
                    BY <2>2, NothingAhead DEF Running
                <5>2. applied >= disk[c].metaLsn /\ l <= Len(hist) /\ hist[l].coll = c
                    BY <1>0, <2>2, <3>2, <5>1, StoredFields
                <5>3. Verdict(mem[c], hist[l]) = hist[l].verdict
                    BY <2>2, <5>1, <5>2, JudgesAlike
                <5>4. Verdict(mem[c], hist[l]) = "applied"
                    BY <2>1, <2>2, <3>2, <4>2 DEF Reached
                <5> QED BY <2>2, <5>3, <5>4
            <4> QED BY <1>0, <4>1, <4>2
        <3> QED BY <3>1, <3>2 DEF BegunInv
    <2> QED BY <2>3, <2>4
<1>2. CASE ~ Reach
    <2>1. step' = 0
        <3>1. CASE Statement
            <4>1. PICK e : Recorded(e)
                BY <1>0, <3>1, StatementRecords
            <4> QED BY <1>0, <4>1 DEF Recorded, ControlInv
        <3>2. CASE Refuse
            BY <3>2 DEF Refuse, ApplyDone
        <3>3. CASE ~ Statement /\ ~ Refuse
            BY <1>0, <1>2, <3>3 DEF Next, BeginApply, BeginCheckpoint, SyncStore, SyncCatalog,
                   Truncate, CheckpointFails, Crash, Open, Replay, Ready, ControlInv
        <3> QED BY <3>1, <3>2, <3>3
    <2> QED BY <2>1 DEF BegunInv
<1> QED BY <1>1, <1>2

LEMMA InStepStep == Safe /\ InStep /\ Next => InStep'
<1> SUFFICES ASSUME Safe, InStep, Next, NEW c \in Collections, c \notin skewed'
             PROVE  InStepOf(c)'
    BY DEF InStep
<1>1. c \notin skewed
    <2>1. skewed \subseteq skewed'
        <3>1. TypeOK
            BY DEF Safe
        <3>2. CASE Statement
            <4>1. PICK e : Recorded(e)
                BY <3>1, <3>2, StatementRecords
            <4> QED BY <4>1 DEF Recorded
        <3>3. CASE Open
            BY <3>3 DEF Open
        <3>4. CASE ~ Statement /\ ~ Open
            BY <3>4 DEF Next, BeginApply, Refuse, Reach, BeginCheckpoint, SyncStore, SyncCatalog,
                   Truncate, CheckpointFails, Crash, Replay, Ready
        <3> QED BY <3>2, <3>3, <3>4
    <2> QED BY <2>1
<1>2. /\ HistInv(c) /\ OnDisk(hist, c, disk[c]) /\ MemInv(c) /\ ReplayInv(c) /\ BegunInv(c)
    BY <1>1 DEF InStep, InStepOf
<1>3. HistInv(c)' /\ BegunInv(c)'
    BY <1>2, HistStep, BegunStep
<1>4. OnDisk(hist', c, disk'[c])
    BY <1>2, DiskStep
<1>5. MemInv(c)'
    BY <1>1, <1>2, MemStep DEF MemInv
<1>6. ReplayInv(c)'
    <2>1. CASE Open
        <3>1. Rejudged(c) = {} /\ UNCHANGED <<hist, disk>>
            BY <2>1 DEF Open
        <3> QED BY <3>1 DEF ReplayInv, Rejudged
    <2>2. CASE Replay
        <3>1. UNCHANGED <<hist, disk, pc>>
            BY <2>2 DEF Replay
        <3> QED BY <1>2, <3>1 DEF ReplayInv, Rejudged
    <2>3. CASE ~ Open /\ ~ Replay
        <3>1. pc' # "replay"
            <4>1. CASE Statement
                <5>1. PICK e : Recorded(e)
                    BY <4>1, StatementRecords DEF Safe
                <5> QED BY <5>1 DEF Recorded
            <4>2. CASE ~ Statement
                BY <2>3, <4>2 DEF Next, BeginApply, Refuse, Reach, ApplyDone, BeginCheckpoint,
                       SyncStore, SyncCatalog, Truncate, CheckpointFails, Crash, Ready
            <4> QED BY <4>1, <4>2
        <3> QED BY <3>1 DEF ReplayInv
    <2> QED BY <2>1, <2>2, <2>3
<1> QED BY <1>3, <1>4, <1>5, <1>6 DEF InStepOf

LEMMA InStepInit == Init => InStep
<1> SUFFICES ASSUME Init, NEW c \in Collections PROVE InStepOf(c)
    BY DEF InStep
<1>1. /\ hist = <<>> /\ Len(hist) = 0 /\ disk[c] = EmptyStores /\ mem[c] = EmptyStores
      /\ applied = 0 /\ step = 0 /\ pc = "idle" /\ truth[c] = {} /\ seen[c] = {}
    BY DEF Init
<1>2. \A n \in Int : n <= 0 => Applied(hist, c, n) = {}
    BY DEF Applied
<1>3. /\ Applied(hist, c, Len(hist)) = {} /\ Applied(hist, c, disk[c].metaLsn) = {}
      /\ Applied(hist, c, disk[c].tupleLsn) = {} /\ Later(0, 0) = 0
      /\ Applied(hist, c, Later(applied, disk[c].metaLsn)) = {}
      /\ Applied(hist, c, Later(applied, disk[c].tupleLsn)) = {}
    <2>1. Later(0, 0) = 0 /\ disk[c].metaLsn = 0 /\ disk[c].tupleLsn = 0
        BY <1>1, EmptyFields DEF Later
    <2> QED BY <1>1, <1>2, <2>1
<1>4. Inst(hist, {}) = {} /\ Ret(hist, {}) = {} /\ Alive(hist, {}) = {}
    BY DEF Inst, Ret, Alive
<1>5. HistInv(c)
    <2>1. Past(hist, c)
        BY <1>1, <1>2 DEF Past, Once
    <2>2. \A n \in 0 .. Len(hist) : Apart(hist, Applied(hist, c, n))
        BY <1>1, <1>2 DEF Apart
    <2>3. TrueRowsOf(hist, {}) = {}
        BY DEF TrueRowsOf
    <2> QED BY <1>1, <1>4, <1>3, <2>1, <2>2, <2>3 DEF HistInv
<1>6. /\ Honest(hist, {}, EmptyStores) /\ Written(hist, {}, EmptyStores)
      /\ Kept(hist, {}, {}, EmptyStores) /\ EmptyStores.live = {}
    BY EmptyFields DEF Honest, Written, Kept
<1>7. OnDisk(hist, c, disk[c])
    BY <1>1, <1>4, <1>6, <1>3 DEF OnDisk
<1>8. MemInv(c)
    <2>1. Holds(hist, {}, {}, {}, EmptyStores)
        BY <1>4, <1>6 DEF Holds
    <2>2. \A o \in Ordinals : disk[c].flat[o] = 0
        BY <1>1, EmptyFields
    <2> QED BY <1>1, <1>3, <2>1, <2>2 DEF MemInv, Follows
<1>9. ReplayInv(c) /\ BegunInv(c)
    BY <1>1 DEF ReplayInv, BegunInv
<1> QED BY <1>5, <1>7, <1>8, <1>9 DEF InStepOf

LEMMA InStepInvariance == Spec => [](Safe /\ InStep)
<1>1. Safe /\ InStep /\ [Next]_vars => InStep'
    <2>1. Safe /\ InStep /\ UNCHANGED vars => InStep'
        BY DEF vars, InStep, InStepOf, HistInv, MemInv, ReplayInv, Rejudged, BegunInv
    <2> QED BY <2>1, InStepStep
<1> QED BY <1>1, InStepInit, SafeInit, SafeStep, PTL DEF Spec

(* In an open database, a collection that is in step holds exactly what    *)
(* the records applied so far leave, in all three stores.                  *)
LEMMA WhatIsHeld ==
    ASSUME Safe, InStep, Running, NEW c \in Collections, c \notin skewed,
           NEW A, A = Applied(hist, c, applied)
    PROVE  /\ mem[c].live = Alive(hist, A) /\ A \subseteq 1 .. applied /\ applied \in Nat
           /\ \A i \in A : \A o \in Installed(hist[i]) :
                 /\ o \in Ordinals /\ o < mem[c].count /\ mem[c].flat[o] = i
                 /\ mem[c].post[o] = {hist[i].install[o]}
                 /\ o \notin Ret(hist, A) => mem[c].tuple[o] = i
           /\ c \in Keyed => Apart(hist, A)
           /\ applied = Len(hist) => truth[c] = TrueRowsOf(hist, A)
<1>0. /\ hist \in Seq(Logged) /\ Len(hist) \in Nat /\ applied \in 0 .. Len(hist)
      /\ mem[c] \in Stored /\ disk[c] \in Stored /\ HistInv(c) /\ MemInv(c) /\ pc # "down"
    BY DEF Safe, TypeOK, Types, ControlInv, InStep, InStepOf, Running
<1>1. PICK N : N = Applied(hist, c, Len(hist))
    OBVIOUS
<1>2. Later(applied, disk[c].metaLsn) = applied /\ Later(applied, disk[c].tupleLsn) = applied
    BY <1>0, NothingAhead, StoredFields DEF Later
<1>3. Holds(hist, N, A, A, mem[c])
    BY <1>0, <1>1, <1>2 DEF MemInv, Follows
<1>4. A \subseteq N /\ A \subseteq 1 .. applied /\ N \subseteq 1 .. Len(hist)
    BY <1>0, <1>1 DEF Applied
<1>5. Once(hist, N) /\ \A i \in N : Installed(hist[i]) \subseteq Ordinals
    BY <1>0, <1>1, <1>4, LoggedFields DEF HistInv, Past
<1>6. /\ mem[c].live = Alive(hist, A)
      /\ \A i \in A : \A o \in Installed(hist[i]) : mem[c].post[o] = {hist[i].install[o]}
    <2>1. mem[c] \in Stored /\ Once(hist, N) /\ A \subseteq N /\ Holds(hist, N, A, A, mem[c])
        BY <1>0, <1>3, <1>4, <1>5
    <2>2. \A i \in N : Installed(hist[i]) \subseteq Ordinals
        BY <1>5
    <2> QED BY ONLY <2>1, <2>2, ExactRows
<1>7. /\ Written(hist, A, mem[c]) /\ Kept(hist, A, Ret(hist, A), mem[c])
    BY <1>3 DEF Holds
<1>8. /\ c \in Keyed => Apart(hist, A)
      /\ applied = Len(hist) => truth[c] = TrueRowsOf(hist, A)
    BY <1>0 DEF HistInv
<1>9. \A i \in A : \A o \in Installed(hist[i]) :
         /\ o \in Ordinals /\ o < mem[c].count /\ mem[c].flat[o] = i
         /\ o \notin Ret(hist, A) => mem[c].tuple[o] = i
    BY <1>4, <1>5, <1>7 DEF Written, Kept
<1> QED BY <1>0, <1>4, <1>6, <1>8, <1>9

(* Whatever a query's snapshot names, it can read: in the middle of a      *)
(* fan-out too, every live row of a collection that is in step has its     *)
(* vector and its values, both of one record.                              *)
THEOREM SnapshotsAreReadable == Spec => []SnapshotReadable
<1>1. Safe /\ InStep => SnapshotReadable
    <2> SUFFICES ASSUME Safe, InStep, Running, NEW c \in Collections, c \notin skewed,
                        NEW o \in mem[c].live
                 PROVE  /\ o < mem[c].count
                        /\ mem[c].flat[o] = mem[c].tuple[o] /\ mem[c].flat[o] # 0
        BY DEF SnapshotReadable, Running
    <2>1. PICK A : A = Applied(hist, c, applied)
        OBVIOUS
    <2>2. /\ mem[c].live = Alive(hist, A) /\ A \subseteq 1 .. applied /\ applied \in Nat
          /\ \A i \in A : \A x \in Installed(hist[i]) :
                /\ x \in Ordinals /\ x < mem[c].count /\ mem[c].flat[x] = i
                /\ x \notin Ret(hist, A) => mem[c].tuple[x] = i
        BY <2>1, WhatIsHeld
    <2>3. PICK i \in A : o \in Installed(hist[i]) /\ o \notin Ret(hist, A)
        BY <2>2 DEF Alive, Inst
    <2> QED BY <2>2, <2>3
<1> QED BY <1>1, InStepInvariance, PTL

(* Once the log is applied, the three stores of a collection that is in    *)
(* step hold the rows the acknowledged verdicts leave, whatever crashed    *)
(* and however far each store had got on disk.                             *)
THEOREM StoresConverge == Spec => []ConvergedInStep
<1>1. Safe /\ InStep => ConvergedInStep
    <2> SUFFICES ASSUME Safe, InStep, Settled, NEW c \in Collections, c \notin skewed
                 PROVE  Rows(mem[c]) = TrueRows(c)
        BY DEF ConvergedInStep
    <2>1. PICK A, m : A = Applied(hist, c, applied) /\ m = mem[c]
        OBVIOUS
    <2>2. Running /\ applied = Len(hist)
        BY DEF Settled, Running
    <2>3. /\ m.live = Alive(hist, A) /\ A \subseteq 1 .. applied /\ applied \in Nat
          /\ \A i \in A : \A o \in Installed(hist[i]) :
                /\ o \in Ordinals /\ o < m.count /\ m.flat[o] = i
                /\ m.post[o] = {hist[i].install[o]}
                /\ o \notin Ret(hist, A) => m.tuple[o] = i
          /\ truth[c] = TrueRowsOf(hist, A)
        BY <2>1, <2>2, WhatIsHeld
    <2> DEFINE Held(o) == [ord |-> o, vector |-> IF o < m.count THEN m.flat[o] ELSE 0,
                           values |-> m.tuple[o], keys |-> m.post[o]]
               True(p) == [ord |-> p[1], vector |-> p[2], values |-> p[2],
                           keys |-> {KeyAt(p[2], p[1])}]
    <2>4. Rows(mem[c]) = {Held(o) : o \in m.live} /\ TrueRows(c) = {True(p) : p \in truth[c]}
        BY <2>1 DEF Rows, TrueRows
    <2>5. ASSUME NEW o, NEW i \in A, o \in Installed(hist[i]) \ Ret(hist, A)
          PROVE  Held(o) = True(<<o, i>>) /\ o \in m.live /\ <<o, i>> \in truth[c]
        <3>1. /\ o \in Ordinals /\ o < m.count /\ m.flat[o] = i /\ m.tuple[o] = i
              /\ m.post[o] = {hist[i].install[o]}
            BY <2>3, <2>5
        <3>2. o \in m.live
            BY <2>3, <2>5, <3>1 DEF Alive, Inst
        <3>3. <<o, i>> \in truth[c]
            BY <2>3, <2>5, <3>1 DEF TrueRowsOf
        <3>4. Held(o) = True(<<o, i>>)
            BY <3>1 DEF KeyAt
        <3> QED BY <3>2, <3>3, <3>4
    <2> HIDE DEF Held, True
    <2>6. ASSUME NEW o \in m.live PROVE \E p \in truth[c] : Held(o) = True(p)
        <3>1. PICK i \in A : o \in Installed(hist[i]) \ Ret(hist, A)
            BY <2>3 DEF Alive, Inst
        <3> QED BY <2>5, <3>1
    <2>7. ASSUME NEW p \in truth[c] PROVE \E o \in m.live : Held(o) = True(p)
        <3>1. /\ p = <<p[1], p[2]>> /\ p[2] \in A
              /\ p[1] \in Installed(hist[p[2]]) \ Ret(hist, A)
            BY <2>3 DEF TrueRowsOf
        <3> QED BY <2>5, <3>1
    <2> QED BY <2>4, <2>6, <2>7
<1> QED BY <1>1, InStepInvariance, PTL

(* No two live rows of a keyed collection that is in step have one key:    *)
(* the verdicts keep keys apart although callers race.                     *)
THEOREM KeysAreUnique == Spec => []KeysUnique
<1>1. Safe /\ InStep => KeysUnique
    <2> SUFFICES ASSUME Safe, InStep, NEW c \in Keyed \ skewed,
                        NEW o \in mem[c].live, NEW p \in mem[c].live, Running, o # p
                 PROVE  KeyAt(mem[c].tuple[o], o) # KeyAt(mem[c].tuple[p], p)
        BY DEF KeysUnique, Running
    <2>1. PICK A : A = Applied(hist, c, applied)
        OBVIOUS
    <2>2. c \in Collections /\ c \notin skewed
        BY StoresAssumption
    <2>3. /\ mem[c].live = Alive(hist, A) /\ Apart(hist, A)
          /\ \A i \in A : \A x \in Installed(hist[i]) :
                x \notin Ret(hist, A) => mem[c].tuple[x] = i
        BY <2>1, <2>2, WhatIsHeld
    <2>4. PICK i \in A : o \in Installed(hist[i]) \ Ret(hist, A)
        BY <2>3 DEF Alive, Inst
    <2>5. PICK j \in A : p \in Installed(hist[j]) \ Ret(hist, A)
        BY <2>3 DEF Alive, Inst
    <2> QED BY <2>3, <2>4, <2>5 DEF Apart, KeyAt
<1> QED BY <1>1, InStepInvariance, PTL
=============================================================================
