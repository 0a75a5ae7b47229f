-------------------------- MODULE Compaction_proofs --------------------------
(***************************************************************************)
(* Theorems about Compaction, for any writers, queries and sizes: whatever *)
(* flips, rolls back, halts or crashes, the directories a crash may leave  *)
(* settle to one generation that holds the committed rows, and nobody sees *)
(* the flip halfway.                                                       *)
(*                                                                         *)
(* The argument: what recovery makes of the generation in memory (Folded)  *)
(* is the memory itself, with the record being applied.  The rebuild only  *)
(* touches the next generation, which no layout settles to until the       *)
(* second rename; by then its image is the copy, the log has nothing above *)
(* its watermark, and the copy holds the rows of memory, because ranks map *)
(* the ordinals of a set one to one onto its size.                         *)
(***************************************************************************)
EXTENDS Compaction, TLAPS, FiniteSetTheorems

Record == [retire : Nat, install : Nat, gen : Nat, victim : Nat]
Stores == [rows : Seq(Nat), live : SUBSET (Nat \ {0})]
Layout == [live : 0 .. MaxGen, staged : 0 .. MaxGen, retired : 0 .. MaxGen]

(* Types of what the flip is made of. *)
FlipType ==
    /\ up \in BOOLEAN /\ halted \in BOOLEAN
    /\ mem = [gen |-> mem.gen, s |-> mem.s] /\ mem.gen \in 0 .. MaxGen
    /\ dirs \in Layout /\ maybe \in SUBSET Layout
    /\ comp \in {"idle", "copy", "wait", "stage", "rename", "away", "second", "in",
                 "install", "swap", "even", "done"}
    /\ catalog \in 0 .. MaxGen /\ epoch \in Nat
    /\ qs \in [Queries -> [pc : {"out", "first", "second", "check", "open"},
                           seen : Nat, first : 0 .. MaxGen, second : 0 .. MaxGen]]

(* Types of the rows and records. *)
DataType ==
    /\ log \in Seq(Record) /\ base \in Nat /\ applied \in Nat
    /\ pending \in Writers \cup {None} /\ truth \in SUBSET Nat
    /\ wr \in [Writers -> [pc : {"out", "resolve", "resolved", "sent", "done", "conflict"},
                           try : Nat, rec : Record]]
    /\ next \in Nat
    /\ mem.s \in Stores
    /\ image \in [1 .. MaxGen -> [s : Stores, mark : Nat]]
    /\ liveX \in SUBSET (Nat \ {0}) /\ copy \in Stores

(* The epoch is odd while the catalog changes.  A query that still sees    *)
(* the epoch it began with has met one catalog only.                       *)
EpochInv ==
    /\ epoch % 2 = IF comp \in {"swap", "even"} THEN 1 ELSE 0
    /\ \A q \in Queries :
          /\ ~up => qs[q].pc = "out"
          /\ qs[q].pc # "out" => qs[q].seen % 2 = 0 /\ qs[q].seen <= epoch
          /\ qs[q].pc = "second" /\ qs[q].seen = epoch => qs[q].first = catalog
          /\ qs[q].pc = "check" /\ qs[q].seen = epoch => qs[q].first = qs[q].second
          /\ qs[q].pc = "open" => qs[q].first = qs[q].second

(* The generation settle makes of a layout. *)
Home(d) == Settled(d).live

(* Which layouts a crash may leave at which step of the flip. *)
DirInv ==
    /\ dirs \in maybe
    /\ \A d \in maybe : Home(d) \in 1 .. MaxGen
    /\ comp # "idle" => up
    /\ up => mem.gen \in 1 .. MaxGen
    /\ comp \notin {"idle", "swap", "even", "done"} => mem.gen + 1 \in 1 .. MaxGen
    /\ ~up => ~halted /\ \A d \in maybe : Home(d) = Home(dirs)
    /\ halted => comp \in {"idle", "done"} /\ \A d \in maybe : Home(d) \in {mem.gen, mem.gen + 1}
    /\ up /\ ~halted /\ comp \notin {"in", "install"} => \A d \in maybe : Home(d) = mem.gen
    /\ up /\ ~halted /\ comp \notin {"away", "second", "in", "install"} => dirs.live = mem.gen
    /\ comp \in {"away", "second"} => dirs.live = Absent /\ dirs.retired = mem.gen
    /\ comp \in {"wait", "stage", "rename", "away", "second"} => dirs.staged = mem.gen + 1
    /\ comp \in {"in", "install"} => dirs.live = mem.gen + 1
    /\ comp = "in" => \A d \in maybe : Home(d) \in {mem.gen, mem.gen + 1}
    /\ comp = "install" => \A d \in maybe : Home(d) = mem.gen + 1

(* Statements run while the gate lets them. *)
GateInv ==
    /\ \A w \in Writers : Inside(w) => up /\ comp \in {"idle", "copy", "wait"}
    /\ pending # None => wr[pending].pc = "sent" /\ up /\ ~halted

(* A generation's stores: a row is in one slot, and live slots hold rows   *)
(* of the log's first n records.                                           *)
Sound(s, n) ==
    /\ \A o \in DOMAIN s.rows : s.rows[o] <= n
    /\ \A o \in s.live : o \in DOMAIN s.rows /\ s.rows[o] # 0
    /\ \A o, p \in DOMAIN s.rows : s.rows[o] = s.rows[p] /\ s.rows[o] # 0 => o = p

Filled(s) == {o \in DOMAIN s.rows : s.rows[o] # 0}

(* What recovery would make of a generation now. *)
Folded(g) == Recovered(image[g].s, image[g].mark)

(* A generation the database may be opened from: with the log it holds     *)
(* the committed rows, and the log above its watermark speaks of it.       *)
Good(g) ==
    /\ base <= image[g].mark /\ image[g].mark <= Len(log)
    /\ Folded(g) \in Stores /\ Sound(Folded(g), Len(log)) /\ Rows(Folded(g)) = truth
    /\ \A l \in image[g].mark + 1 .. Len(log) : log[l].gen = g

FileInv == \A d \in maybe : Good(Home(d))

(* Memory is what recovery would make of its generation. *)
MemInv ==
    up => /\ Good(mem.gen) /\ Sound(mem.s, applied) /\ Len(mem.s.rows) <= next
          /\ applied = IF pending = None THEN Len(log) ELSE Len(log) - 1
          /\ pending = None => mem.s = Folded(mem.gen)
          /\ pending # None => /\ log[Len(log)] = wr[pending].rec
                               /\ Folded(mem.gen) = Absorb(mem.s, Len(log), log[Len(log)])

Carrying == {w \in Writers : wr[w].pc \in {"resolved", "sent"}}

(* A record names what memory has: the row it retires is where it says,    *)
(* and the slot it fills is its own.                                       *)
Fits(r, m, n) ==
    /\ r.gen = m.gen
    /\ r.retire = 0 => r.victim = 0
    /\ r.retire # 0 => r.retire \in Filled(m.s) /\ m.s.rows[r.retire] = r.victim
    /\ r.retire # 0 \/ r.install # 0
    /\ r.install # 0 => r.install <= n /\ r.install \notin Filled(m.s)

WriterInv ==
    /\ \A w \in Carrying : Fits(wr[w].rec, mem, next)
    /\ \A v, w \in Carrying :
          wr[v].rec.install = wr[w].rec.install /\ wr[v].rec.install # 0 => v = w

(* The live rows X of s, renumbered. *)
Built(X, s) ==
    [rows |-> [i \in 1 .. Cardinality(X) |-> s.rows[AtRank(X, i)]], live |-> 1 .. Cardinality(X)]

(* The copy is the rows of the snapshot in order, later the rows of memory.*)
CopyInv ==
    /\ comp \in {"copy", "wait", "stage"} => liveX \subseteq Filled(mem.s)
    /\ comp \in {"wait", "stage"} => copy = Built(liveX, mem.s)
    /\ comp \in {"rename", "away", "second", "in", "install"} =>
          /\ image[mem.gen + 1] = [s |-> copy, mark |-> Len(log)]
          /\ Sound(copy, Len(log)) /\ Rows(copy) = truth

FlipInv == FlipType /\ EpochInv /\ DirInv
RowsInv == DataType /\ GateInv /\ FileInv /\ MemInv /\ WriterInv /\ CopyInv
-----------------------------------------------------------------------------
(* Every non-empty set of naturals has a least element: what stands in for *)
(* induction below.                                                        *)
LEMMA LeastNatural ==
    ASSUME NEW T, T \subseteq Nat, T # {}
    PROVE  \E n \in T : \A m \in T : n <= m
<1>1. IsWellFoundedOn(OpToRel(<, Nat), Nat)
    BY NatLessThanWellFounded
<1>2. PICK n \in T : \A m \in T : ~(<<m, n>> \in OpToRel(<, Nat))
    BY <1>1, WFMin
<1>3. \A m \in T : ~(<<m, n>> \in {x \in Nat \X Nat : x[1] < x[2]})
    BY <1>2 DEF OpToRel
<1>4. \A m \in T : ~(m < n)
    BY <1>3
<1>5. \A m \in T : n <= m
    BY <1>4
<1> QED BY <1>5

(* The states a replay goes through, from the image at from on. *)
Run(r, l, s, from, n) ==
    r = [i \in from .. n |-> IF i = from THEN s ELSE Absorb(r[i - 1], i, l[i])]

LEMMA RunExists ==
    ASSUME NEW l, NEW s, NEW from \in Nat, NEW n \in Nat, from <= n
    PROVE  \E r : Run(r, l, s, from, n)
<1> DEFINE T == {k \in Nat : from <= k /\ ~(\E r : Run(r, l, s, from, k))}
<1>1. ASSUME T # {} PROVE FALSE
    <2>1. PICK k \in T : \A m \in T : k <= m
        BY <1>1, LeastNatural
    <2>2. CASE k = from
        <3>1. Run([i \in from .. k |-> s], l, s, from, k)
            BY <2>2 DEF Run
        <3> QED BY <2>1, <3>1
    <2>3. CASE k # from
        <3>1. k - 1 \in Nat /\ from <= k - 1 /\ k - 1 \notin T
            BY <2>1, <2>3
        <3>2. PICK q : Run(q, l, s, from, k - 1)
            BY <3>1
        <3> DEFINE r == [i \in from .. k |-> IF i = k THEN Absorb(q[k - 1], k, l[k]) ELSE q[i]]
        <3>3. ASSUME NEW i \in from .. k
              PROVE  r[i] = IF i = from THEN s ELSE Absorb(r[i - 1], i, l[i])
            <4>1. CASE i = k
                BY <2>3, <3>1, <4>1
            <4>2. CASE i = from
                BY <2>3, <3>1, <3>2, <4>2 DEF Run
            <4>3. CASE i # k /\ i # from
                <5>1. i \in from .. (k - 1) /\ i - 1 \in from .. k /\ i - 1 # k
                    BY <4>3, <3>1
                <5>2. r[i] = q[i] /\ r[i - 1] = q[i - 1]
                    BY <4>3, <5>1
                <5>3. q[i] = Absorb(q[i - 1], i, l[i])
                    BY <3>2, <4>3, <5>1 DEF Run
                <5> QED BY <4>3, <5>2, <5>3
            <4> QED BY <4>1, <4>2, <4>3
        <3> HIDE DEF r
        <3>4. r = [i \in from .. k |-> r[i]]
            BY DEF r
        <3>5. Run(r, l, s, from, k)
            BY <3>3, <3>4 DEF Run
        <3> QED BY <2>1, <3>5
    <2> QED BY <2>2, <2>3
<1> QED BY <1>1

LEMMA RunsAgree ==
    ASSUME NEW l, NEW k, NEW s, NEW from \in Nat, NEW n \in Nat, NEW m \in Nat, from <= n, n <= m,
           \A i \in from + 1 .. n : l[i] = k[i],
           NEW r, NEW q, Run(r, l, s, from, n), Run(q, k, s, from, m)
    PROVE  r[n] = q[n]
<1> DEFINE T == {i \in Nat : i \in from .. n /\ r[i] # q[i]}
<1>1. ASSUME T # {} PROVE FALSE
    <2>1. PICK i \in T : \A j \in T : i <= j
        BY <1>1, LeastNatural
    <2>2. i \in from .. n /\ i \in from .. m /\ r[i] # q[i]
        BY <2>1
    <2>3. i # from
        BY <2>2 DEF Run
    <2>4. i - 1 \in from .. n /\ i - 1 \notin T /\ l[i] = k[i]
        BY <2>1, <2>2, <2>3
    <2>5. r[i - 1] = q[i - 1]
        BY <2>4
    <2>6. r[i] = Absorb(r[i - 1], i, l[i]) /\ q[i] = Absorb(q[i - 1], i, k[i])
        BY <2>2, <2>3 DEF Run
    <2> QED BY <2>2, <2>4, <2>5, <2>6
<1>2. n \in from .. n
    OBVIOUS
<1> QED BY <1>1, <1>2

LEMMA ReplayRun ==
    ASSUME NEW l, NEW s, NEW from \in Nat, Len(l) \in Nat, from <= Len(l)
    PROVE  \E r : Run(r, l, s, from, Len(l)) /\ Replay(l, s, from) = r[Len(l)]
<1> DEFINE r == CHOOSE q : Run(q, l, s, from, Len(l))
<1>1. Run(r, l, s, from, Len(l))
    BY RunExists
<1>2. Replay(l, s, from) = r[Len(l)]
    BY DEF Replay, Run
<1> QED BY <1>1, <1>2

(* Nothing above the watermark: the image itself. *)
LEMMA ReplayNothing ==
    ASSUME NEW l, NEW s, Len(l) \in Nat
    PROVE  Replay(l, s, Len(l)) = s
<1>1. PICK r : Run(r, l, s, Len(l), Len(l)) /\ Replay(l, s, Len(l)) = r[Len(l)]
    BY ReplayRun
<1> QED BY <1>1 DEF Run

(* One more record at the end is one more step at the end. *)
LEMMA ReplayOneMore ==
    ASSUME NEW S, NEW l \in Seq(S), NEW e \in S, NEW s, NEW from \in Nat, from <= Len(l)
    PROVE  Replay(Append(l, e), s, from) = Absorb(Replay(l, s, from), Len(l) + 1, e)
<1> DEFINE k == Append(l, e)
<1>1. /\ Len(l) \in Nat /\ Len(k) = Len(l) + 1 /\ k[Len(k)] = e
      /\ \A i \in from + 1 .. Len(l) : l[i] = k[i]
    OBVIOUS
<1> HIDE DEF k
<1>2. PICK r : Run(r, l, s, from, Len(l)) /\ Replay(l, s, from) = r[Len(l)]
    BY <1>1, ReplayRun
<1>3. PICK q : Run(q, k, s, from, Len(k)) /\ Replay(k, s, from) = q[Len(k)]
    BY <1>1, ReplayRun
<1>4. q[Len(l)] = r[Len(l)]
    BY <1>1, <1>2, <1>3, RunsAgree
<1>5. q[Len(k)] = Absorb(q[Len(k) - 1], Len(k), k[Len(k)])
    BY <1>1, <1>3 DEF Run
<1> QED BY <1>1, <1>2, <1>3, <1>4, <1>5 DEF k

-----------------------------------------------------------------------------
(* Ranks number the elements of a finite set of naturals from 1 on.        *)
LEMMA Ranks ==
    ASSUME NEW S, S \subseteq Nat, IsFiniteSet(S)
    PROVE  /\ Cardinality(S) \in Nat
           /\ \A o \in S : RankIn(S, o) \in 1 .. Cardinality(S) /\ AtRank(S, RankIn(S, o)) = o
           /\ \A i \in 1 .. Cardinality(S) : AtRank(S, i) \in S /\ RankIn(S, AtRank(S, i)) = i
<1> DEFINE n == Cardinality(S)
           f == [o \in S |-> RankIn(S, o)]
<1>1. n \in Nat
    BY FS_CardinalityType
<1>2. ASSUME NEW o \in S PROVE RankIn(S, o) \in 1 .. n
    <2> DEFINE U == {x \in S : x <= o}
    <2>1. IsFiniteSet(U) /\ Cardinality(U) <= n
        BY FS_Subset
    <2>2. Cardinality(U) \in Nat
        BY <2>1, FS_CardinalityType
    <2>3. o \in U
        OBVIOUS
    <2>4. Cardinality(U) # 0
        BY <2>1, <2>3, FS_EmptySet
    <2> HIDE DEF U
    <2>5. Cardinality(U) \in 1 .. n
        BY <1>1, <2>1, <2>2, <2>4
    <2> QED BY <2>5 DEF RankIn, U
<1>3. ASSUME NEW o \in S, NEW p \in S, o < p PROVE RankIn(S, o) < RankIn(S, p)
    <2> DEFINE U == {x \in S : x <= o}
               V == {x \in S : x <= p}
    <2>1. IsFiniteSet(V)
        BY FS_Subset
    <2>2. U \in SUBSET V /\ U # V
        <3>1. o \in Nat /\ p \in Nat /\ \A x \in S : x \in Nat
            OBVIOUS
        <3>2. p \in V /\ p \notin U
            BY <1>3, <3>1
        <3>3. \A x \in U : x \in V
            BY <1>3, <3>1
        <3> QED BY <3>2, <3>3
    <2>3. Cardinality(U) <= Cardinality(V) /\ Cardinality(U) # Cardinality(V) /\ IsFiniteSet(U)
        BY <2>1, <2>2, FS_Subset
    <2>4. Cardinality(U) \in Nat /\ Cardinality(V) \in Nat
        BY <2>1, <2>3, FS_CardinalityType
    <2> HIDE DEF U, V
    <2>5. Cardinality(U) < Cardinality(V)
        BY <2>3, <2>4
    <2> QED BY <2>5 DEF RankIn, U, V
<1>4. ASSUME NEW o \in S, NEW p \in S, RankIn(S, o) = RankIn(S, p) PROVE o = p
    <2>1. o \in Nat /\ p \in Nat /\ RankIn(S, o) \in Nat
        BY <1>1, <1>2
    <2>2. ~(o < p) /\ ~(p < o)
        BY <1>3, <1>4, <2>1
    <2> QED BY <2>1, <2>2
<1> HIDE DEF f, n
<1>5. f \in [S -> 1 .. n] /\ \A o \in S : f[o] = RankIn(S, o)
    BY <1>2 DEF f
<1>6. f \in Injection(S, 1 .. n)
    BY <1>4, <1>5 DEF Injection, IsInjective
<1>7. IsFiniteSet(1 .. n) /\ Cardinality(1 .. n) = n
    BY <1>1, FS_Interval
<1>8. f \in Surjection(S, 1 .. n)
    BY <1>6, <1>7, FS_Injection DEF n
<1>9. \A i \in 1 .. n : \E o \in S : RankIn(S, o) = i
    BY <1>5, <1>8 DEF Surjection
<1>10. \A i \in 1 .. n : AtRank(S, i) \in S /\ RankIn(S, AtRank(S, i)) = i
    BY <1>9 DEF AtRank
<1>11. \A o \in S : AtRank(S, RankIn(S, o)) = o
    BY <1>2, <1>4, <1>10
<1> QED BY <1>1, <1>2, <1>10, <1>11 DEF n

-----------------------------------------------------------------------------
(* Applying a record that fits: it does to the rows what its statement     *)
(* says, and to the slots nothing but filling its own.                     *)
LEMMA AbsorbFits ==
    ASSUME NEW s \in Stores, NEW n \in Nat, Sound(s, n), NEW r \in Record,
           r.retire = 0 => r.victim = 0,
           r.retire # 0 => r.retire \in Filled(s) /\ s.rows[r.retire] = r.victim,
           r.install \notin Filled(s),
           NEW t, t = Absorb(s, n + 1, r)
    PROVE  /\ t \in Stores /\ Sound(t, n + 1) /\ Rows(t) = Effect(Rows(s), n + 1, r)
           /\ \A o \in Filled(s) : o \in Filled(t) /\ t.rows[o] = s.rows[o]
           /\ Filled(t) \subseteq Filled(s) \cup {r.install}
           /\ \A k \in Nat : Len(s.rows) <= k /\ r.install <= k => Len(t.rows) <= k
<1>0. /\ s.rows \in Seq(Nat) /\ s.live \in SUBSET (Nat \ {0}) /\ Len(s.rows) \in Nat
      /\ DOMAIN s.rows = 1 .. Len(s.rows) /\ s.live \subseteq Filled(s)
      /\ \A o \in DOMAIN s.rows : s.rows[o] \in Nat /\ s.rows[o] <= n
      /\ r.retire \in Nat /\ r.install \in Nat /\ r.victim \in Nat
      /\ s = [rows |-> s.rows, live |-> s.live]
    BY DEF Stores, Sound, Filled, Record
<1>4. /\ \A o, p \in Filled(s) : s.rows[o] = s.rows[p] => o = p
      /\ \A o \in Filled(s) : o \in 1 .. Len(s.rows) /\ s.rows[o] # 0
    BY <1>0 DEF Sound, Filled
<1>5. {s.rows[o] : o \in s.live \ {r.retire}} = Rows(s) \ {r.victim}
    <2>1. CASE r.retire = 0
        <3>1. r.victim = 0 /\ 0 \notin s.live
            BY <1>0, <2>1
        <3> QED BY <1>0, <1>4, <2>1, <3>1 DEF Rows
    <2>2. CASE r.retire # 0
        <3>1. r.retire \in Filled(s) /\ s.rows[r.retire] = r.victim
            BY <2>2
        <3>2. \A o \in s.live : s.rows[o] = r.victim <=> o = r.retire
            BY <1>0, <1>4, <3>1
        <3> QED BY <3>2 DEF Rows
    <2> QED BY <2>1, <2>2
<1>1. CASE Stale(s, r)
    <2>1. t = s
        BY <1>1 DEF Absorb
    <2>2. r.victim \notin Rows(s)
        <3>1. s.live \ {r.retire} = s.live
            BY <1>1 DEF Stale
        <3> QED BY <1>5, <3>1 DEF Rows
    <2>3. Effect(Rows(s), n + 1, r) = Rows(s)
        BY <1>1, <2>2 DEF Effect, Stale
    <2>4. Sound(s, n + 1)
        BY <1>0 DEF Sound
    <2> QED BY <1>0, <2>1, <2>3, <2>4
<1>2. CASE ~Stale(s, r) /\ r.install = 0
    <2>1. t = [rows |-> s.rows, live |-> s.live \ {r.retire}]
        BY <1>2 DEF Absorb
    <2>2. Rows(t) = Rows(s) \ {r.victim}
        BY <1>5, <2>1 DEF Rows
    <2>3. Effect(Rows(s), n + 1, r) = Rows(s) \ {r.victim}
        BY <1>2 DEF Effect
    <2>4. t.rows = s.rows /\ t.live \subseteq s.live /\ Filled(t) = Filled(s)
        BY <2>1 DEF Filled
    <2>5. Sound(t, n + 1)
        <3>1. \A o \in DOMAIN s.rows : s.rows[o] <= n + 1
            BY <1>0
        <3> QED BY <2>4, <3>1 DEF Sound
    <2>6. t \in Stores
        BY <1>0, <2>1 DEF Stores
    <2> QED BY <1>0, <2>2, <2>3, <2>4, <2>5, <2>6
<1>3. CASE ~Stale(s, r) /\ r.install # 0
    <2> DEFINE i == r.install
               q == Put(s.rows, i, n + 1)
               m == IF i > Len(s.rows) THEN i ELSE Len(s.rows)
    <2>1. t = [rows |-> q, live |-> (s.live \ {r.retire}) \cup {i}]
        BY <1>3 DEF Absorb
    <2>2. /\ q \in Seq(Nat) /\ Len(q) = m /\ m \in Nat /\ DOMAIN q = 1 .. m
          /\ \A o \in 1 .. m : q[o] = IF o = i THEN n + 1
                                   ELSE IF o <= Len(s.rows) THEN s.rows[o] ELSE 0
        <3>1. i \in Nat /\ m \in Nat /\ 1 .. m = 1 .. (IF i > Len(s.rows) THEN i ELSE Len(s.rows))
            BY <1>0
        <3>2. q = [o \in 1 .. m |-> IF o = i THEN n + 1
                                  ELSE IF o <= Len(s.rows) THEN s.rows[o] ELSE 0]
            BY <3>1 DEF Put
        <3>3. \A o \in 1 .. m : q[o] = IF o = i THEN n + 1
                                      ELSE IF o <= Len(s.rows) THEN s.rows[o] ELSE 0
            BY <3>2
        <3>4. \A o \in 1 .. m : q[o] \in Nat
            BY <1>0, <3>1, <3>3
        <3> HIDE DEF q, m
        <3>5. q \in [1 .. m -> Nat]
            BY <3>2, <3>4
        <3>6. q \in Seq(Nat) /\ Len(q) = m
            BY <3>1, <3>5
        <3> QED BY <3>1, <3>3, <3>5, <3>6
    <2> HIDE DEF q
    <2>3. i \in 1 .. m /\ q[i] = n + 1 /\ i \notin s.live
        BY <1>0, <1>3, <2>2
    <2>4. \A o \in Filled(s) : o \in 1 .. m /\ q[o] = s.rows[o] /\ q[o] # 0 /\ q[o] <= n /\ o # i
        BY <1>0, <2>2 DEF Filled
    <2>5. \A o \in 1 .. m : o = i \/ q[o] = 0 \/ o \in Filled(s)
        BY <1>0, <2>2 DEF Filled
    <2>6. \A o \in 1 .. m : q[o] <= n + 1
        BY <1>0, <2>2, <2>3, <2>4, <2>5
    <2>7. \A o \in t.live : o \in 1 .. m /\ q[o] # 0
        BY <1>0, <2>1, <2>3, <2>4
    <2>8. ASSUME NEW o \in 1 .. m, NEW p \in 1 .. m, q[o] = q[p], q[o] # 0 PROVE o = p
        <3>1. CASE o = i \/ p = i
            BY <2>3, <2>4, <2>5, <2>8, <3>1
        <3>2. CASE o # i /\ p # i
            BY <2>4, <2>5, <2>8, <3>2 DEF Sound, Filled
        <3> QED BY <3>1, <3>2
    <2>9. Sound(t, n + 1) /\ t \in Stores
        <3>1. t.live \in SUBSET (Nat \ {0})
            BY <1>0, <1>3, <2>1
        <3>2. t \in Stores /\ t.rows = q
            BY <2>1, <2>2, <3>1 DEF Stores
        <3> HIDE DEF m
        <3> QED BY <2>2, <2>6, <2>7, <2>8, <3>2 DEF Sound
    <2>10. Rows(t) = {s.rows[o] : o \in s.live \ {r.retire}} \cup {n + 1}
        <3>1. \A o \in s.live \ {r.retire} : q[o] = s.rows[o]
            BY <1>0, <2>4
        <3>2. t.live = (s.live \ {r.retire}) \cup {i} /\ t.rows = q
            BY <2>1
        <3> HIDE DEF i
        <3> QED BY <2>3, <3>1, <3>2 DEF Rows
    <2>12. Effect(Rows(s), n + 1, r) = (Rows(s) \ {r.victim}) \cup {n + 1}
        <3>1. r.retire # 0 => r.victim \in Rows(s)
            BY <1>0, <1>3, <2>3 DEF Stale, Rows
        <3> QED BY <1>3, <3>1 DEF Effect
    <2>13. Filled(t) = Filled(s) \cup {i}
        BY <1>0, <2>1, <2>2, <2>3, <2>4, <2>5 DEF Filled
    <2>14. \A k \in Nat : Len(s.rows) <= k /\ i <= k => Len(t.rows) <= k
        BY <2>1, <2>2
    <2>15. \A o \in Filled(s) : o \in Filled(t) /\ t.rows[o] = s.rows[o]
        BY <2>1, <2>4, <2>13
    <2>16. Rows(t) = Effect(Rows(s), n + 1, r)
        BY <1>5, <2>10, <2>12
    <2> QED BY <2>9, <2>13, <2>14, <2>15, <2>16
<1> QED BY <1>1, <1>2, <1>3

-----------------------------------------------------------------------------
LEMMA FunctionIsSequence ==
    ASSUME NEW S, NEW n \in Nat, NEW f \in [1 .. n -> S]
    PROVE  f \in Seq(S) /\ Len(f) = n
OBVIOUS

LEMMA Concatenation ==
    ASSUME NEW S, NEW a \in Seq(S), NEW b \in Seq(S), NEW q, q = a \o b
    PROVE  /\ q \in Seq(S) /\ Len(q) = Len(a) + Len(b) /\ DOMAIN q = 1 .. Len(a) + Len(b)
           /\ \A i \in 1 .. Len(a) + Len(b) :
                 q[i] = IF i <= Len(a) THEN a[i] ELSE b[i - Len(a)]
OBVIOUS

(* Renumbering: the copy, caught up with the writes made since the         *)
(* snapshot, holds the live rows of memory and no other.                   *)
THEOREM CaughtUpIsMemory ==
    ASSUME mem.s \in Stores, NEW k \in Nat, Sound(mem.s, k), liveX \subseteq Filled(mem.s),
           copy = Built(liveX, mem.s)
    PROVE  CaughtUp \in Stores /\ Sound(CaughtUp, k) /\ Rows(CaughtUp) = Rows(mem.s)
<1> DEFINE R == mem.s.rows
           X == liveX
           Y == Came
           n == Cardinality(X)
           m == Cardinality(Y)
           L == (1 .. n \ {RankIn(X, o) : o \in Gone}) \cup (n + 1 .. n + m)
           tail == [i \in 1 .. m |-> R[AtRank(Y, i)]]
           q == copy.rows \o tail
           row(i) == IF i <= n THEN AtRank(X, i) ELSE AtRank(Y, i - n)
<1>1. /\ R \in Seq(Nat) /\ Len(R) \in Nat /\ DOMAIN R = 1 .. Len(R)
      /\ \A o \in DOMAIN R : R[o] \in Nat /\ R[o] <= k
      /\ mem.s.live \subseteq Filled(mem.s)
      /\ Filled(mem.s) \subseteq 1 .. Len(R) /\ \A o \in Filled(mem.s) : R[o] # 0
      /\ \A o, p \in Filled(mem.s) : R[o] = R[p] => o = p
    BY DEF Stores, Sound, Filled
<1>2. X \subseteq Filled(mem.s) /\ Y \subseteq Filled(mem.s) /\ X \cap Y = {}
      /\ Y = mem.s.live \ X /\ Gone = X \ mem.s.live
    BY <1>1 DEF Came, Gone
<1>6. CaughtUp = [rows |-> q, live |-> L]
    BY DEF CaughtUp, Extended, Built
<1>7. copy.rows = [i \in 1 .. n |-> R[AtRank(X, i)]]
    BY DEF Built
<1> HIDE DEF X, Y, n, m, L, R
<1>3. X \subseteq Nat /\ Y \subseteq Nat /\ IsFiniteSet(X) /\ IsFiniteSet(Y)
    <2>1. IsFiniteSet(1 .. Len(R))
        BY <1>1, FS_Interval
    <2>2. X \in SUBSET (1 .. Len(R)) /\ Y \in SUBSET (1 .. Len(R))
        BY <1>1, <1>2
    <2>3. IsFiniteSet(X)
        BY <2>1, <2>2, FS_Subset
    <2>4. IsFiniteSet(Y)
        BY <2>1, <2>2, FS_Subset
    <2>5. X \subseteq Nat /\ Y \subseteq Nat
        BY <1>1, <2>2
    <2> QED BY <2>3, <2>4, <2>5
<1>4. /\ n \in Nat
      /\ \A o \in X : RankIn(X, o) \in 1 .. n /\ AtRank(X, RankIn(X, o)) = o
      /\ \A i \in 1 .. n : AtRank(X, i) \in X /\ RankIn(X, AtRank(X, i)) = i
    BY <1>3, Ranks DEF n
<1>5. /\ m \in Nat
      /\ \A o \in Y : RankIn(Y, o) \in 1 .. m /\ AtRank(Y, RankIn(Y, o)) = o
      /\ \A i \in 1 .. m : AtRank(Y, i) \in Y /\ RankIn(Y, AtRank(Y, i)) = i
    BY <1>3, Ranks DEF m
<1>8. \A o \in Filled(mem.s) : R[o] \in Nat
    BY <1>1
<1>9. copy.rows \in Seq(Nat) /\ Len(copy.rows) = n /\ \A i \in 1 .. n : copy.rows[i] = R[AtRank(X, i)]
    <2>1. \A i \in 1 .. n : R[AtRank(X, i)] \in Nat
        BY <1>2, <1>4, <1>8
    <2>2. copy.rows \in [1 .. n -> Nat]
        BY <1>7, <2>1
    <2> QED BY <1>4, <1>7, <2>2, FunctionIsSequence
<1>10. tail \in Seq(Nat) /\ Len(tail) = m /\ \A i \in 1 .. m : tail[i] = R[AtRank(Y, i)]
    <2>1. \A i \in 1 .. m : R[AtRank(Y, i)] \in Nat
        BY <1>2, <1>5, <1>8
    <2>2. tail \in [1 .. m -> Nat]
        BY <2>1
    <2> QED BY <1>5, <2>2, FunctionIsSequence
<1> HIDE DEF tail
<1>11. q \in Seq(Nat) /\ Len(q) = n + m /\ DOMAIN q = 1 .. n + m
       /\ \A i \in 1 .. n + m : q[i] = IF i <= n THEN copy.rows[i] ELSE tail[i - n]
    <2>1. q = copy.rows \o tail
        OBVIOUS
    <2>2. copy.rows \in Seq(Nat) /\ tail \in Seq(Nat)
        BY <1>9, <1>10
    <2> HIDE DEF q
    <2>3. /\ q \in Seq(Nat) /\ Len(q) = Len(copy.rows) + Len(tail)
          /\ DOMAIN q = 1 .. Len(copy.rows) + Len(tail)
          /\ \A i \in 1 .. Len(copy.rows) + Len(tail) :
                q[i] = IF i <= Len(copy.rows) THEN copy.rows[i] ELSE tail[i - Len(copy.rows)]
        BY ONLY <2>1, <2>2, Concatenation
    <2> QED BY <1>9, <1>10, <2>3
<1> HIDE DEF q
<1>12. \A i \in 1 .. n + m : q[i] = R[row(i)] /\ row(i) \in IF i <= n THEN X ELSE Y
    <2> TAKE i \in 1 .. n + m
    <2>1. CASE i <= n
        <3>1. i \in 1 .. n /\ row(i) = AtRank(X, i)
            BY <1>4, <1>5, <2>1
        <3> HIDE DEF row
        <3> QED BY <1>4, <1>9, <1>11, <2>1, <3>1
    <2>2. CASE ~(i <= n)
        <3>1. i - n \in 1 .. m
            BY <1>4, <1>5, <2>2
        <3> QED BY <1>5, <1>10, <1>11, <2>2, <3>1
    <2> QED BY <2>1, <2>2
<1>13. \A i, j \in 1 .. n + m : row(i) = row(j) => i = j
    <2> SUFFICES ASSUME NEW i \in 1 .. n + m, NEW j \in 1 .. n + m, row(i) = row(j) PROVE i = j
        OBVIOUS
    <2>1. CASE i <= n /\ j <= n
        BY <1>4, <2>1
    <2>2. CASE ~(i <= n) /\ ~(j <= n)
        <3>1. i - n \in 1 .. m /\ j - n \in 1 .. m
            BY <1>4, <1>5, <2>2
        <3>2. i - n = j - n
            BY <1>5, <2>2, <3>1
        <3> QED BY <1>4, <3>2
    <2>3. CASE i <= n /\ ~(j <= n)
        <3>1. row(i) \in X /\ row(j) \in Y
            BY <1>12, <2>3
        <3> HIDE DEF row
        <3> QED BY <1>2, <3>1
    <2>4. CASE j <= n /\ ~(i <= n)
        <3>1. row(j) \in X /\ row(i) \in Y
            BY <1>12, <2>4
        <3> HIDE DEF row
        <3> QED BY <1>2, <3>1
    <2> QED BY <2>1, <2>2, <2>3, <2>4
<1> HIDE DEF row
<1>14. \A i \in 1 .. n + m : row(i) \in Filled(mem.s) /\ q[i] = R[row(i)]
    BY <1>2, <1>12
<1>15. L \subseteq 1 .. n + m /\ L \subseteq Nat \ {0}
    BY <1>4, <1>5 DEF L
<1>16. Sound(CaughtUp, k)
    <2>1. \A i \in 1 .. n + m : q[i] <= k /\ q[i] # 0
        BY <1>1, <1>14
    <2>2. \A i, j \in 1 .. n + m : q[i] = q[j] => i = j
        BY <1>1, <1>13, <1>14
    <2> QED BY <1>6, <1>11, <1>15, <2>1, <2>2 DEF Sound
<1>17. CaughtUp \in Stores
    BY <1>6, <1>11, <1>15 DEF Stores
<1>18. \A i \in L : row(i) \in mem.s.live
    <2> TAKE i \in L
    <2>1. CASE i <= n
        <3>1. i \in 1 .. n /\ i \notin {RankIn(X, o) : o \in Gone}
            BY <1>4, <1>5, <2>1 DEF L
        <3>2. row(i) \in X /\ RankIn(X, row(i)) = i
            BY <1>4, <2>1, <3>1 DEF row
        <3> QED BY <1>2, <3>1, <3>2
    <2>2. CASE ~(i <= n)
        BY <1>2, <1>12, <1>15, <2>2
    <2> QED BY <2>1, <2>2
<1>19. \A o \in mem.s.live : \E i \in L : row(i) = o
    <2> TAKE o \in mem.s.live
    <2>1. CASE o \in X
        <3> DEFINE i == RankIn(X, o)
        <3>1. i \in 1 .. n /\ AtRank(X, i) = o
            BY <1>4, <2>1
        <3>2. i \notin {RankIn(X, p) : p \in Gone}
            <4> SUFFICES ASSUME NEW p \in Gone, RankIn(X, p) = i PROVE FALSE
                OBVIOUS
            <4>1. p \in X /\ AtRank(X, i) = p
                BY <1>2, <1>4
            <4> QED BY <1>2, <3>1, <4>1
        <3> HIDE DEF i
        <3>3. i \in L /\ i <= n
            BY <1>4, <3>1, <3>2 DEF L
        <3>4. row(i) = o
            BY <3>1, <3>3 DEF row
        <3> QED BY <3>3, <3>4
    <2>2. CASE o \notin X
        <3> DEFINE i == RankIn(Y, o)
        <3>1. o \in Y
            BY <1>2, <2>2
        <3>2. i \in 1 .. m /\ AtRank(Y, i) = o
            BY <1>5, <3>1
        <3> HIDE DEF i
        <3>3. i + n \in L /\ ~(i + n <= n) /\ (i + n) - n = i
            BY <1>4, <1>5, <3>2 DEF L
        <3>4. row(i + n) = o
            BY <3>2, <3>3 DEF row
        <3> QED BY <3>3, <3>4
    <2> QED BY <2>1, <2>2
<1>20. Rows(CaughtUp) = {R[o] : o \in mem.s.live}
    <2>1. Rows(CaughtUp) = {q[i] : i \in L}
        BY <1>6 DEF Rows
    <2>2. \A i \in L : q[i] = R[row(i)]
        BY <1>14, <1>15
    <2> QED BY <1>18, <1>19, <2>1, <2>2
<1> QED BY <1>16, <1>17, <1>20 DEF Rows, R

-----------------------------------------------------------------------------
(* The steps that touch neither the flip nor what queries see. *)
Statement == (\E w \in Writers : Enter(w) \/ WriterStep(w) \/ Taken(w)) \/ Checkpoint

LEMMA StatementsLeaveTheFlip ==
    Statement => UNCHANGED <<up, halted, mem, dirs, maybe, rebuild, reading>>
BY DEF Statement, Enter, WriterStep, Resolve, NothingToDo, Send, Leave, Taken, Log, LogFails,
       Refuse, Checkpoint, disk

LEMMA ApplyLeavesTheFlip ==
    FlipType /\ Apply => /\ UNCHANGED <<up, halted, dirs, maybe, rebuild, reading>>
                        /\ mem' = [gen |-> mem.gen, s |-> mem'.s]
BY DEF FlipType, Apply, disk

(* What becomes of the directories. *)
LEMMA ChangeOne ==
    ASSUME NEW a, Change(<<a>>)
    PROVE  dirs' = a /\ maybe' = maybe \cup {a}
BY DEF Change

LEMMA ChangeTwo ==
    ASSUME NEW a, NEW b, Change(<<a, b>>)
    PROVE  dirs' = b /\ maybe' = maybe \cup {a, b}
<1>1. /\ Len(<<a, b>>) = 2 /\ <<a, b>>[1] = a /\ <<a, b>>[2] = b
      /\ DOMAIN <<a, b>> = {1, 2}
    OBVIOUS
<1> QED BY <1>1 DEF Change

LEMMA DropLayout ==
    ASSUME NEW d \in Layout, NEW n \in {"live", "staged", "retired"}
    PROVE  /\ Drop(d, n) \in Layout /\ Drop(d, n)[n] = 0
           /\ \A k \in {"live", "staged", "retired"} \ {n} : Drop(d, n)[k] = d[k]
BY CompactionAssumption DEF Layout, Drop, Absent

LEMMA RenameLayout ==
    ASSUME NEW d \in Layout, NEW from \in {"live", "staged", "retired"},
           NEW to \in {"live", "staged", "retired"}, from # to
    PROVE  /\ Rename(d, from, to) \in Layout
           /\ Rename(d, from, to)[from] = 0 /\ Rename(d, from, to)[to] = d[from]
           /\ \A k \in {"live", "staged", "retired"} \ {from, to} : Rename(d, from, to)[k] = d[k]
BY CompactionAssumption DEF Layout, Rename, Absent

(* What settle and recovery would find after each of the changes.          *)
LEMMA Layouts ==
    ASSUME NEW d \in Layout
    PROVE  /\ Home(d) = IF d.live = 0 THEN d.retired ELSE d.live
           /\ LET e == Drop(d, "staged")
              IN  e \in Layout /\ e.live = d.live /\ e.staged = 0 /\ e.retired = d.retired
           /\ LET e == Drop(d, "retired")
              IN  e \in Layout /\ e.live = d.live /\ e.staged = d.staged /\ e.retired = 0
           /\ LET e == Rename(d, "live", "retired")
              IN  e \in Layout /\ e.live = 0 /\ e.staged = d.staged /\ e.retired = d.live
           /\ LET e == Rename(d, "retired", "live")
              IN  e \in Layout /\ e.live = d.retired /\ e.staged = d.staged /\ e.retired = 0
           /\ LET e == Rename(d, "staged", "live")
              IN  e \in Layout /\ e.live = d.staged /\ e.staged = 0 /\ e.retired = d.retired
           /\ \A g \in 0 .. MaxGen :
                 LET e == [d EXCEPT !.staged = g]
                 IN  e \in Layout /\ e.live = d.live /\ e.staged = g /\ e.retired = d.retired
<1>1. Home(d) = IF d.live = 0 THEN d.retired ELSE d.live
    BY DEF Home, Settled, Absent
<1>2. ASSUME NEW g \in 0 .. MaxGen
      PROVE  LET e == [d EXCEPT !.staged = g]
             IN  e \in Layout /\ e.live = d.live /\ e.staged = g /\ e.retired = d.retired
    BY DEF Layout
<1>3. LET e == Drop(d, "staged")
      IN  e \in Layout /\ e.live = d.live /\ e.staged = 0 /\ e.retired = d.retired
    BY DropLayout
<1>4. LET e == Drop(d, "retired")
      IN  e \in Layout /\ e.live = d.live /\ e.staged = d.staged /\ e.retired = 0
    BY DropLayout
<1>5. LET e == Rename(d, "live", "retired")
      IN  e \in Layout /\ e.live = 0 /\ e.staged = d.staged /\ e.retired = d.live
    BY RenameLayout
<1>6. LET e == Rename(d, "retired", "live")
      IN  e \in Layout /\ e.live = d.retired /\ e.staged = d.staged /\ e.retired = 0
    BY RenameLayout
<1>7. LET e == Rename(d, "staged", "live")
      IN  e \in Layout /\ e.live = d.staged /\ e.staged = 0 /\ e.retired = d.retired
    BY RenameLayout
<1> QED BY <1>1, <1>2, <1>3, <1>4, <1>5, <1>6, <1>7

(* Each change keeps the layouts' type. *)
LEMMA LayoutsStep ==
    ASSUME FlipType, DirInv, Next
    PROVE  dirs' \in Layout /\ maybe' \in SUBSET Layout
<1> USE DEF FlipType
<1>1. ASSUME NEW a \in Layout, Change(<<a>>) PROVE dirs' \in Layout /\ maybe' \in SUBSET Layout
    BY <1>1, ChangeOne
<1>2. ASSUME NEW a \in Layout, NEW b \in Layout, Change(<<a, b>>)
      PROVE  dirs' \in Layout /\ maybe' \in SUBSET Layout
    BY <1>2, ChangeTwo
<1>3. \A d \in Layout : /\ Drop(d, "staged") \in Layout /\ Drop(d, "retired") \in Layout
                        /\ Rename(d, "live", "retired") \in Layout
                        /\ Rename(d, "retired", "live") \in Layout
                        /\ Rename(d, "staged", "live") \in Layout
                        /\ \A g \in 0 .. MaxGen : [d EXCEPT !.staged = g] \in Layout
    BY Layouts
<1>4. CASE Statement \/ Start
    BY <1>4, StatementsLeaveTheFlip DEF Start, disk
<1>5. CASE Apply
    BY <1>5, ApplyLeavesTheFlip
<1>6. CASE Build
    <2>1. mem.gen + 1 \in 0 .. MaxGen
        BY <1>6 DEF Build, DirInv
    <2> QED BY <1>2, <1>3, <1>6, <2>1 DEF Build
<1>7. CASE BuildFails \/ StageFails \/ RenameAway \/ RenameIn \/ PutBack \/ Clean
    BY <1>1, <1>3, <1>7 DEF BuildFails, StageFails, RenameAway, RenameIn, PutBack, Clean
<1>8. CASE RollBack
    BY <1>2, <1>3, <1>8 DEF RollBack
<1>9. CASE SyncIn \/ SyncAway
    BY <1>3, <1>9 DEF SyncIn, SyncAway
<1>10. CASE CloseGate \/ Reopen \/ Stage \/ Halt \/ Install \/ Swap \/ Published
    BY <1>10 DEF CloseGate, Reopen, Stage, Halt, Install, Swap, Published, disk
<1>11. ASSUME NEW q \in Queries, QueryStep(q) PROVE dirs' \in Layout /\ maybe' \in SUBSET Layout
    BY <1>11 DEF QueryStep, Begin, TakeFirst, TakeSecond, Check, EndQuery, Unread, disk
<1>12. CASE Crash \/ Open
    BY <1>12 DEF Crash, Open
<1> QED BY <1>4, <1>5, <1>6, <1>7, <1>8, <1>9, <1>10, <1>11, <1>12
        DEF Next, CommitStep, CompactorStep, FlipStep, Statement

LEMMA TypeStep == FlipType /\ DirInv /\ Next => FlipType'
<1> SUFFICES ASSUME FlipType, DirInv, Next PROVE FlipType'
    OBVIOUS
<1> USE DEF FlipType
<1>1. CASE Statement
    BY <1>1, StatementsLeaveTheFlip DEF rebuild, reading
<1>2. CASE Apply
    BY <1>2, ApplyLeavesTheFlip DEF rebuild, reading
<1>3. CASE Start
    BY <1>3 DEF Start, disk, reading
<1>4. CASE CompactorStep /\ ~Install
    <2>1. up' = up /\ mem' = mem /\ qs' = qs /\ epoch' \in {epoch, epoch + 1}
          /\ catalog' \in {catalog, mem.gen} /\ halted' \in BOOLEAN
        BY <1>4 DEF CompactorStep, FlipStep, Build, BuildFails, CloseGate, Reopen, Stage, StageFails,
            RenameAway, SyncAway, RenameIn, SyncIn, RollBack, Halt, Swap, Published, reading
    <2>2. comp' \in {"idle", "copy", "wait", "stage", "rename", "away", "second", "in",
                 "install", "swap", "even", "done"}
        BY <1>4 DEF CompactorStep, FlipStep, Build, BuildFails, CloseGate, Reopen, Stage, StageFails,
            RenameAway, SyncAway, RenameIn, SyncIn, RollBack, Halt, Swap, Published, rebuild
    <2> QED BY <2>1, <2>2, LayoutsStep
<1>5. CASE Install
    BY <1>5 DEF Install, disk, reading, DirInv
<1>6. ASSUME NEW q \in Queries, QueryStep(q) PROVE FlipType'
    <2> DEFINE Q == [pc : {"out", "first", "second", "check", "open"},
                     seen : Nat, first : 0 .. MaxGen, second : 0 .. MaxGen]
    <2>1. UNCHANGED <<up, halted, mem, dirs, maybe, comp, catalog, epoch>>
        BY <1>6 DEF QueryStep, Begin, TakeFirst, TakeSecond, Check, EndQuery, Unread, disk, rebuild
    <2>2. qs[q] \in Q /\ NoQuery \in Q
        BY CompactionAssumption DEF NoQuery
    <2>3. \E to \in Q : qs' = [qs EXCEPT ![q] = to]
        <3>1. CASE Begin(q)
            <4>1. [NoQuery EXCEPT !.pc = "first"] \in Q
                BY <2>2
            <4>2. [NoQuery EXCEPT !.pc = "first", !.seen = epoch] \in Q
                BY <2>2, <4>1
            <4> QED BY <3>1, <4>2 DEF Begin, InQuery
        <3>2. CASE TakeFirst(q)
            <4>1. [qs[q] EXCEPT !.pc = "second", !.first = catalog] \in Q
                BY <2>2
            <4> QED BY <3>2, <4>1 DEF TakeFirst, InQuery
        <3>3. CASE TakeSecond(q)
            <4>1. [qs[q] EXCEPT !.pc = "check", !.second = catalog] \in Q
                BY <2>2
            <4> QED BY <3>3, <4>1 DEF TakeSecond, InQuery
        <3>4. CASE Check(q)
            <4>1. [qs[q] EXCEPT !.pc = "open"] \in Q
                BY <2>2
            <4> QED BY <2>2, <3>4, <4>1 DEF Check, InQuery
        <3>5. CASE EndQuery(q)
            BY <2>2, <3>5 DEF EndQuery, InQuery
        <3> QED BY <1>6, <3>1, <3>2, <3>3, <3>4, <3>5 DEF QueryStep
    <2> HIDE DEF Q
    <2>4. qs' \in [Queries -> Q]
        BY <2>3 DEF Q
    <2> QED BY <2>1, <2>4 DEF Q
<1>7. CASE Crash
    <2>1. [pc |-> "out", seen |-> 0, first |-> 0, second |-> 0]
            \in [pc : {"out", "first", "second", "check", "open"},
                 seen : Nat, first : 0 .. MaxGen, second : 0 .. MaxGen]
        BY CompactionAssumption
    <2> QED BY <1>7, <2>1, CompactionAssumption, LayoutsStep DEF Crash, NoQuery
<1>8. CASE PutBack \/ Clean
    BY <1>8, LayoutsStep DEF PutBack, Clean, rebuild, reading
<1>9. CASE Open
    BY <1>9 DEF Open, rebuild, Layout
<1> QED BY <1>1, <1>2, <1>3, <1>4, <1>5, <1>6, <1>7, <1>8, <1>9
        DEF Next, CommitStep, CompactorStep, FlipStep, Statement

LEMMA EpochStep == FlipType /\ EpochInv /\ DirInv /\ Next => EpochInv'
<1> SUFFICES ASSUME FlipType, EpochInv, DirInv, Next PROVE EpochInv'
    OBVIOUS
<1> USE DEF FlipType, EpochInv
<1>1. CASE Statement
    BY <1>1, StatementsLeaveTheFlip DEF rebuild, reading
<1>2. CASE Apply
    BY <1>2, ApplyLeavesTheFlip DEF rebuild, reading
<1>3. CASE Start
    BY <1>3 DEF Start, disk, reading
<1>4. CASE CompactorStep /\ ~Install /\ ~Swap /\ ~Published
    BY <1>4 DEF CompactorStep, FlipStep, Build, BuildFails, CloseGate, Reopen, Stage, StageFails,
        RenameAway, SyncAway, RenameIn, SyncIn, RollBack, Halt, reading, rebuild
<1>5. CASE Install \/ Published
    <2>1. epoch' = epoch + 1 /\ catalog' = catalog /\ qs' = qs /\ up' = up
          /\ comp \in {"install", "even"}
          /\ comp' = IF comp = "install" THEN "swap" ELSE "done"
        BY <1>5 DEF Install, Published
    <2>2. epoch' % 2 = IF comp' \in {"swap", "even"} THEN 1 ELSE 0
        BY <2>1
    <2> QED BY <2>1, <2>2
<1>6. CASE Swap
    <2>1. \A q \in Queries : qs[q].pc # "out" => qs[q].seen # epoch
        BY <1>6 DEF Swap
    <2> QED BY <1>6, <2>1 DEF Swap
<1>7. ASSUME NEW q \in Queries, QueryStep(q) PROVE EpochInv'
    <2>1. UNCHANGED <<up, catalog, epoch, comp>> /\ up
        BY <1>7 DEF QueryStep, Begin, TakeFirst, TakeSecond, Check, EndQuery, InQuery, Unread, rebuild
    <2>2. \A p \in Queries \ {q} : qs'[p] = qs[p]
        BY <1>7 DEF QueryStep, Begin, TakeFirst, TakeSecond, Check, EndQuery, InQuery
    <2>3. /\ qs'[q].pc # "out" => qs'[q].seen % 2 = 0 /\ qs'[q].seen <= epoch
          /\ qs'[q].pc = "second" /\ qs'[q].seen = epoch => qs'[q].first = catalog
          /\ qs'[q].pc = "check" /\ qs'[q].seen = epoch => qs'[q].first = qs'[q].second
          /\ qs'[q].pc = "open" => qs'[q].first = qs'[q].second
        <3>1. CASE Begin(q)
            BY <3>1 DEF Begin, InQuery, NoQuery
        <3>2. CASE TakeFirst(q)
            BY <3>2 DEF TakeFirst, InQuery
        <3>3. CASE TakeSecond(q)
            BY <3>3 DEF TakeSecond, InQuery
        <3>4. CASE Check(q)
            BY <3>4 DEF Check, InQuery, NoQuery
        <3>5. CASE EndQuery(q)
            BY <3>5 DEF EndQuery, InQuery, NoQuery
        <3> QED BY <1>7, <3>1, <3>2, <3>3, <3>4, <3>5 DEF QueryStep
    <2> QED BY <2>1, <2>2, <2>3
<1>8. CASE Crash
    BY <1>8 DEF Crash, NoQuery
<1>9. CASE PutBack \/ Clean
    BY <1>9 DEF PutBack, Clean, rebuild, reading
<1>10. CASE Open
    BY <1>10 DEF Open, rebuild
<1> QED BY <1>1, <1>2, <1>3, <1>4, <1>5, <1>6, <1>7, <1>8, <1>9, <1>10
        DEF Next, CommitStep, CompactorStep, FlipStep, Statement

(* Which generation the layouts settle to, step by step.                   *)
LEMMA DirStep == FlipType /\ DirInv /\ Next => DirInv'
<1> SUFFICES ASSUME FlipType, DirInv, Next PROVE DirInv'
    OBVIOUS
<1> USE DEF FlipType, DirInv
<1>0. /\ MaxGen \in Nat \ {0} /\ mem.gen \in Nat /\ Absent = 0
      /\ \A d \in Layout : Home(d) = IF d.live = 0 THEN d.retired ELSE d.live
    BY CompactionAssumption, Layouts DEF Absent
<1>1. CASE Statement
    BY <1>1, StatementsLeaveTheFlip DEF rebuild
<1>2. CASE Apply
    BY <1>2, ApplyLeavesTheFlip DEF rebuild
<1>3. CASE Start
    BY <1>0, <1>3 DEF Start, disk
<1>4. CASE Build
    <2> DEFINE a == Drop(dirs, "staged")
               b == [dirs EXCEPT !.staged = mem.gen + 1]
    <2>1. dirs' = b /\ maybe' = maybe \cup {a, b}
        BY <1>4, ChangeTwo DEF Build
    <2>2. /\ a \in Layout /\ b \in Layout /\ a.live = dirs.live /\ b.live = dirs.live
          /\ b.staged = mem.gen + 1
        BY <1>0, <1>4, Layouts DEF Build
    <2> HIDE DEF a, b
    <2>3. comp = "copy" /\ comp' = "wait" /\ UNCHANGED <<up, halted, mem>>
        BY <1>4 DEF Build
    <2>4. dirs.live = mem.gen /\ mem.gen # 0 /\ Home(a) = mem.gen /\ Home(b) = mem.gen
        BY <1>0, <2>2, <2>3
    <2> QED BY <2>1, <2>2, <2>3, <2>4
<1>5. CASE BuildFails \/ StageFails
    <2> DEFINE a == Drop(dirs, "staged")
    <2>1. dirs' = a /\ maybe' = maybe \cup {a}
        BY <1>5, ChangeOne DEF BuildFails, StageFails
    <2>2. a \in Layout /\ a.live = dirs.live
        BY Layouts
    <2> HIDE DEF a
    <2>3. comp \in {"copy", "stage"} /\ comp' \in {"idle", "done"} /\ UNCHANGED <<up, halted, mem>>
        BY <1>5 DEF BuildFails, StageFails
    <2>4. dirs.live = mem.gen /\ mem.gen # 0 /\ Home(a) = mem.gen
        BY <1>0, <2>2, <2>3
    <2> QED BY <2>1, <2>2, <2>3, <2>4
<1>6. CASE CloseGate \/ Reopen \/ Stage
    BY <1>6 DEF CloseGate, Reopen, Stage, disk
<1>7. CASE RenameAway
    <2> DEFINE a == Rename(dirs, "live", "retired")
    <2>1. dirs' = a /\ maybe' = maybe \cup {a}
        BY <1>7, ChangeOne DEF RenameAway
    <2>2. a \in Layout /\ a.live = 0 /\ a.retired = dirs.live /\ a.staged = dirs.staged
        BY Layouts
    <2> HIDE DEF a
    <2>3. comp = "rename" /\ comp' = "away" /\ UNCHANGED <<up, halted, mem>>
        BY <1>7 DEF RenameAway
    <2>4. dirs.live = mem.gen /\ Home(a) = mem.gen
        BY <1>0, <2>2, <2>3
    <2> QED BY <1>0, <2>1, <2>2, <2>3, <2>4
<1>8. CASE SyncAway
    BY <1>8 DEF SyncAway
<1>9. CASE RenameIn
    <2> DEFINE a == Rename(dirs, "staged", "live")
    <2>1. dirs' = a /\ maybe' = maybe \cup {a}
        BY <1>9, ChangeOne DEF RenameIn
    <2>2. a \in Layout /\ a.live = dirs.staged
        BY Layouts
    <2> HIDE DEF a
    <2>3. comp = "second" /\ comp' = "in" /\ UNCHANGED <<up, halted, mem>>
        BY <1>9 DEF RenameIn
    <2>4. dirs.staged = mem.gen + 1 /\ Home(a) = mem.gen + 1
        BY <1>0, <2>2, <2>3
    <2> QED BY <1>0, <2>1, <2>2, <2>3, <2>4
<1>10. CASE SyncIn
    <2>1. comp = "in" /\ comp' = "install" /\ UNCHANGED <<up, halted, mem>>
        BY <1>10 DEF SyncIn
    <2>2. dirs' \in Layout /\ dirs'.live = dirs.live /\ maybe' = {dirs, dirs'}
        BY <1>10, Layouts DEF SyncIn
    <2>3. Home(dirs) = mem.gen + 1 /\ Home(dirs') = mem.gen + 1
        BY <1>0, <2>1, <2>2
    <2> QED BY <2>1, <2>2, <2>3
<1>11. CASE RollBack
    <2> DEFINE back == IF dirs.live = 0 THEN Rename(dirs, "retired", "live") ELSE dirs
               b == Drop(back, "staged")
    <2>1. dirs' = b /\ maybe' = maybe \cup {back, b}
        BY <1>0, <1>11, ChangeTwo DEF RollBack
    <2>2. comp \in {"rename", "away", "second"} /\ comp' = "done" /\ UNCHANGED <<up, halted, mem>>
        BY <1>11 DEF RollBack
    <2>3. back \in Layout /\ back.live = mem.gen
        BY <1>0, <2>2, Layouts
    <2> HIDE DEF back
    <2>4. b \in Layout /\ b.live = mem.gen
        BY <2>3, Layouts
    <2> HIDE DEF b
    <2>5. mem.gen # 0 /\ Home(back) = mem.gen /\ Home(b) = mem.gen
        BY <1>0, <2>2, <2>3, <2>4
    <2> QED BY <2>1, <2>2, <2>4, <2>5
<1>12. CASE Halt
    <2>1. \A d \in maybe : Home(d) \in {mem.gen, mem.gen + 1}
        BY <1>12 DEF Halt
    <2> QED BY <1>12, <2>1 DEF Halt, disk
<1>13. CASE Install
    BY <1>0, <1>13 DEF Install, disk
<1>14. CASE Swap \/ Published
    BY <1>14 DEF Swap, Published, disk
<1>15. ASSUME NEW q \in Queries, QueryStep(q) PROVE DirInv'
    BY <1>15 DEF QueryStep, Begin, TakeFirst, TakeSecond, Check, EndQuery, Unread, disk, rebuild
<1>16. CASE Crash
    BY <1>16 DEF Crash
<1>17. CASE PutBack
    <2> DEFINE a == Rename(dirs, "retired", "live")
    <2>1. dirs' = a /\ maybe' = maybe \cup {a}
        BY <1>17, ChangeOne DEF PutBack
    <2>2. a \in Layout /\ a.live = dirs.retired /\ dirs.live = 0 /\ dirs.retired # 0
        BY <1>0, <1>17, Layouts DEF PutBack
    <2> HIDE DEF a
    <2>3. Home(a) = Home(dirs)
        BY <1>0, <2>2
    <2> QED BY <1>17, <2>1, <2>2, <2>3 DEF PutBack, rebuild
<1>18. CASE Clean
    <2>1. PICK a \in {Drop(dirs, "staged"), Drop(dirs, "retired")} : Change(<<a>>)
        BY <1>18 DEF Clean
    <2>2. dirs' = a /\ maybe' = maybe \cup {a}
        BY <2>1, ChangeOne
    <2>3. a \in Layout /\ a.live = dirs.live /\ dirs.live # 0
        BY <1>0, <1>18, Layouts DEF Clean
    <2>4. Home(a) = Home(dirs)
        BY <1>0, <2>3
    <2> QED BY <1>18, <2>2, <2>3, <2>4 DEF Clean, rebuild
<1>19. CASE Open
    <2>1. Home(dirs) = dirs.live
        BY <1>0, <1>19 DEF Open
    <2> QED BY <1>0, <1>19, <2>1 DEF Open, rebuild
<1> QED BY <1>1, <1>2, <1>3, <1>4, <1>5, <1>6, <1>7, <1>8, <1>9, <1>10, <1>11, <1>12, <1>13, <1>14,
           <1>15, <1>16, <1>17, <1>18, <1>19
        DEF Next, CommitStep, CompactorStep, FlipStep, Statement

(* At every step of a compaction and after every crash, each layout of     *)
(* directories settles to the generation it should, the epoch is odd only  *)
(* while the serving one is exchanged, and a query that has read one epoch *)
(* twice has read one catalog (compact.rs: the flip, settle, Epoch).       *)
THEOREM FlipInvariance == Spec => []FlipInv
<1>1. Init => FlipInv
    <2> SUFFICES ASSUME Init PROVE FlipInv
        OBVIOUS
    <2>1. dirs = [live |-> 1, staged |-> 0, retired |-> 0] /\ maybe = {dirs} /\ mem.gen = 1
          /\ MaxGen \in Nat \ {0}
        BY CompactionAssumption DEF Init, Absent
    <2>2. dirs \in Layout /\ Home(dirs) = 1
        BY <2>1 DEF Layout, Home, Settled, Absent
    <2>3. FlipType
        <3>1. NoQuery \in [pc : {"out", "first", "second", "check", "open"},
                           seen : Nat, first : 0 .. MaxGen, second : 0 .. MaxGen]
            BY <2>1 DEF NoQuery
        <3>2. qs \in [Queries -> [pc : {"out", "first", "second", "check", "open"},
                                seen : Nat, first : 0 .. MaxGen, second : 0 .. MaxGen]]
            BY <3>1 DEF Init
        <3>3. mem = [gen |-> mem.gen, s |-> mem.s] /\ up \in BOOLEAN /\ halted \in BOOLEAN
            BY DEF Init
        <3>4. maybe \in SUBSET Layout
            BY <2>1, <2>2
        <3>5. comp = "idle" /\ catalog = 1 /\ epoch = 0
            BY DEF Init
        <3>6. 1 \in 0 .. MaxGen /\ 0 \in Nat
            BY <2>1
        <3> QED BY <2>1, <2>2, <3>2, <3>3, <3>4, <3>5, <3>6 DEF FlipType
    <2>4. EpochInv
        BY DEF Init, EpochInv, NoQuery
    <2>5. DirInv
        BY <2>1, <2>2 DEF Init, DirInv
    <2> QED BY <2>3, <2>4, <2>5 DEF FlipInv
<1>2. FlipInv /\ [Next]_vars => FlipInv'
    <2>1. CASE Next
        BY <2>1, TypeStep, EpochStep, DirStep DEF FlipInv
    <2>2. CASE UNCHANGED vars
        BY <2>2 DEF FlipInv, FlipType, EpochInv, DirInv, vars, disk, rebuild, reading
    <2> QED BY <2>1, <2>2
<1> QED BY <1>1, <1>2, PTL DEF Spec

(* HaltedOrAgreed for every instance: after a compaction that could not    *)
(* tell which generation survives, the database goes on only read-only.    *)
THEOREM AgreesOrHalts == Spec => []HaltedOrAgreed
<1>1. FlipInv => HaltedOrAgreed
    BY DEF FlipInv, DirInv, HaltedOrAgreed
<1> QED BY <1>1, FlipInvariance, PTL

(* QueriesCoherent for every instance: the epoch a query compares tells it *)
(* of every flip between the first and the last handle it took.            *)
THEOREM QueriesSeeOneGeneration == Spec => []QueriesCoherent
<1>1. FlipInv => QueriesCoherent
    BY DEF FlipInv, EpochInv, QueriesCoherent
<1> QED BY <1>1, FlipInvariance, PTL

-----------------------------------------------------------------------------
(* From here on no fsync fails and leaves its frame (SyncMayFail).         *)

(* The next generation, once staged, can be opened. *)
LEMMA StagedIsGood ==
    ASSUME FlipInv, RowsInv, comp \in {"rename", "away", "second", "in", "install"}
    PROVE  /\ Good(mem.gen + 1) /\ Folded(mem.gen + 1) = copy /\ mem.gen + 1 \in 1 .. MaxGen
           /\ pending = None /\ applied = Len(log) /\ up
<1>1. Len(log) \in Nat /\ base \in Nat /\ copy \in Stores
    BY DEF RowsInv, DataType
<1>2. image[mem.gen + 1].s = copy /\ image[mem.gen + 1].mark = Len(log)
    BY DEF RowsInv, CopyInv
<1>3. Folded(mem.gen + 1) = copy
    BY <1>1, <1>2, ReplayNothing DEF Folded, Recovered
<1>4. up /\ mem.gen + 1 \in 1 .. MaxGen
    BY DEF FlipInv, DirInv
<1>5. pending = None
    BY DEF RowsInv, GateInv, DataType, Inside
<1>6. base <= Len(log)
    <2>1. Good(mem.gen) /\ image[mem.gen].mark \in Nat
        BY <1>4 DEF RowsInv, MemInv, DataType, FlipInv, DirInv
    <2> QED BY <1>1, <2>1 DEF Good
<1>7. Sound(copy, Len(log)) /\ Rows(copy) = truth
    BY DEF RowsInv, CopyInv
<1>8. Good(mem.gen + 1)
    BY <1>1, <1>2, <1>3, <1>6, <1>7 DEF Good
<1>9. applied = Len(log)
    BY <1>4, <1>5 DEF RowsInv, MemInv
<1> QED BY <1>3, <1>4, <1>5, <1>8, <1>9

(* Steps that move directories, the flip or a query, and no row.           *)
FlipOnly ==
    \/ BuildFails \/ CloseGate \/ Reopen \/ StageFails \/ RenameAway \/ SyncAway \/ RenameIn
    \/ SyncIn \/ RollBack \/ Halt \/ Swap \/ Published \/ PutBack \/ Clean \/ Start
    \/ \E q \in Queries : QueryStep(q)

LEMMA FlipOnlyStep ==
    ASSUME FlipInv, FlipInv', RowsInv, FlipOnly
    PROVE  RowsInv'
<1>1. UNCHANGED <<up, log, base, applied, pending, truth, wr, next, mem, image>>
    BY DEF FlipOnly, BuildFails, CloseGate, Reopen, StageFails, RenameAway, SyncAway, RenameIn, SyncIn,
       RollBack, Halt, Swap, Published, PutBack, Clean, Start, QueryStep, Begin, TakeFirst, TakeSecond,
       Check, EndQuery, InQuery, Unread, logState, statements, disk
<1>2. \/ liveX' = liveX /\ copy' = copy
      \/ Reopen /\ liveX' = {} /\ copy' = Empty
      \/ Start /\ liveX' = mem.s.live /\ copy' = copy
    BY DEF FlipOnly, BuildFails, CloseGate, Reopen, StageFails, RenameAway, SyncAway, RenameIn, SyncIn,
       RollBack, Halt, Swap, Published, PutBack, Clean, Start, QueryStep, Begin, TakeFirst, TakeSecond,
       Check, EndQuery, InQuery, Unread, rebuild
<1>3. \/ comp' = comp
      \/ CloseGate
      \/ comp' \in {"idle", "done"}
      \/ comp = "idle" /\ comp' = "copy" /\ Start
      \/ comp \in {"rename", "away", "second", "in"} /\ comp' \in {"away", "second", "in", "install"}
      \/ comp = "swap" /\ comp' = "even"
    BY DEF FlipOnly, BuildFails, Reopen, StageFails, RenameAway, SyncAway, RenameIn, SyncIn,
       RollBack, Halt, Swap, Published, PutBack, Clean, Start, QueryStep, Begin, TakeFirst, TakeSecond,
       Check, EndQuery, InQuery, Unread, rebuild
<1>4. DataType'
    <2>1. Empty \in Stores
        BY DEF Empty, Stores
    <2> QED BY <1>1, <1>2, <2>1 DEF RowsInv, DataType, Stores
<1>5. GateInv'
    <2>1. \A w \in Writers : Inside(w)' => Inside(w)
        BY <1>1 DEF Inside
    <2>2. \A w \in Writers : Inside(w) => comp' \in {"idle", "copy", "wait"}
        <3> SUFFICES ASSUME NEW w \in Writers, Inside(w) PROVE comp' \in {"idle", "copy", "wait"}
            OBVIOUS
        <3>1. comp \in {"idle", "copy", "wait"} /\ ~CloseGate
            BY DEF RowsInv, GateInv, CloseGate
        <3>2. comp' # "done"
            BY <3>1 DEF FlipOnly, BuildFails, Reopen, StageFails, RenameAway, SyncAway, RenameIn, SyncIn,
               RollBack, Halt, Swap, Published, PutBack, Clean, Start, QueryStep, Begin, TakeFirst,
               TakeSecond, Check, EndQuery, InQuery, Unread, rebuild
        <3> QED BY <1>3, <3>1, <3>2
    <2>3. pending # None => halted' = halted
        <3> SUFFICES ASSUME pending # None PROVE halted' = halted
            OBVIOUS
        <3>1. pending \in Writers /\ Inside(pending)
            BY DEF RowsInv, DataType, GateInv, Inside
        <3>2. ~Halt
            BY <3>1 DEF RowsInv, GateInv, Halt
        <3> QED BY <3>2 DEF FlipOnly, BuildFails, CloseGate, Reopen, StageFails, RenameAway, SyncAway,
               RenameIn, SyncIn, RollBack, Swap, Published, PutBack, Clean, Start, QueryStep, Begin,
               TakeFirst, TakeSecond, Check, EndQuery, InQuery, Unread
    <2> QED BY <1>1, <2>1, <2>2, <2>3 DEF RowsInv, GateInv
<1>6. \A g : Good(g) => Good(g)'
    BY <1>1 DEF Good, Folded, Recovered
<1>7. FileInv'
    <2>1. CASE maybe' = maybe
        BY <1>6, <2>1 DEF RowsInv, FileInv, Home
    <2>2. CASE comp \in {"second", "in"}
        <3>1. ~halted' \/ maybe' = maybe
            BY <2>2 DEF FlipOnly, FlipInv, DirInv, BuildFails, CloseGate, Reopen, StageFails, RenameAway,
               SyncAway, RenameIn, SyncIn, RollBack, Halt, Swap, Published, PutBack, Clean, Start,
               QueryStep, Begin, TakeFirst, TakeSecond, Check, EndQuery, Unread, disk
        <3>2. CASE ~halted'
            <4>1. \A d \in maybe' : Home(d) \in {mem.gen, mem.gen + 1}
                BY <1>1, <2>2, <3>2 DEF FlipInv, DirInv, Home
            <4>2. Good(mem.gen) /\ Good(mem.gen + 1)
                BY <2>2, StagedIsGood DEF RowsInv, MemInv
            <4> QED BY <1>6, <4>1, <4>2 DEF FileInv, Home
        <3> QED BY <2>1, <3>1, <3>2
    <2>3. CASE up /\ comp \notin {"second", "in"} /\ maybe' # maybe
        <3>1. BuildFails \/ StageFails \/ RenameAway \/ SyncAway \/ RollBack
            BY <2>3 DEF FlipOnly, CloseGate, Reopen, RenameIn, SyncIn, Halt, Swap, Published, PutBack,
               Clean, Start, QueryStep, Begin, TakeFirst, TakeSecond, Check, EndQuery, Unread, disk
        <3>2. /\ comp \in {"copy", "stage", "rename", "away"} /\ halted' = halted
              /\ comp' \in {"idle", "done", "away", "second"}
            BY <2>3, <3>1 DEF BuildFails, StageFails, RenameAway, SyncAway, RollBack
        <3>3. ~halted' /\ comp' \notin {"in", "install"}
            BY <3>2 DEF FlipInv, FlipType, DirInv
        <3>4. \A d \in maybe' : Home(d) = mem.gen
            BY <1>1, <2>3, <3>3 DEF FlipInv, DirInv, Home
        <3> QED BY <1>6, <2>3, <3>4 DEF RowsInv, MemInv, FileInv, Home
    <2>4. CASE ~up /\ maybe' # maybe
        <3>1. maybe \subseteq maybe' /\ dirs \in maybe
            BY <2>4, ChangeOne DEF FlipOnly, FlipInv, DirInv, BuildFails, CloseGate, Reopen, StageFails,
               RenameAway, SyncAway, RenameIn, SyncIn, RollBack, Halt, Swap, Published, PutBack, Clean,
               Start, QueryStep, Begin, TakeFirst, TakeSecond, Check, EndQuery, Unread, disk
        <3>2. \A d \in maybe' : Home(d) = Home(dirs)
            BY <1>1, <2>4, <3>1 DEF FlipInv, DirInv, Home
        <3> QED BY <1>6, <3>1, <3>2 DEF RowsInv, FileInv, Home
    <2> QED BY <2>1, <2>2, <2>3, <2>4
<1>8. MemInv'
    BY <1>1, <1>6 DEF RowsInv, MemInv, Folded, Recovered
<1>9. WriterInv'
    BY <1>1 DEF RowsInv, WriterInv, Carrying, Fits
<1>10. CopyInv'
    <2>1. CASE Start
        <3>1. up /\ Sound(mem.s, applied) /\ comp' = "copy" /\ liveX' = mem.s.live
            BY <2>1 DEF Start, RowsInv, MemInv
        <3>2. mem.s.live \subseteq Filled(mem.s)
            BY <3>1 DEF Sound, Filled
        <3> QED BY <1>1, <3>1, <3>2 DEF CopyInv, Filled
    <2>2. CASE Reopen
        BY <2>2 DEF Reopen, CopyInv
    <2>3. CASE ~Start /\ ~Reopen
        <3>1. liveX' = liveX /\ copy' = copy
            BY <1>2, <2>3
        <3>2. \/ comp' = comp
              \/ comp = "wait" /\ comp' = "stage"
              \/ comp' \in {"idle", "done"}
              \/ /\ comp \in {"rename", "away", "second", "in"}
                 /\ comp' \in {"away", "second", "in", "install"}
              \/ comp = "swap" /\ comp' = "even"
            <4>1. CloseGate => comp = "wait" /\ comp' = "stage"
                BY DEF CloseGate
            <4> QED BY ONLY <1>3, <2>3, <4>1
        <3>3. CASE comp' \in {"copy", "wait", "stage"}
            <4>1. comp \in {"copy", "wait", "stage"} /\ (comp' = "copy" <=> comp = "copy")
                BY <3>2, <3>3
            <4>2. Built(liveX', mem.s') = Built(liveX, mem.s)
                BY <1>1, <3>1
            <4> QED BY <1>1, <3>1, <3>3, <4>1, <4>2 DEF RowsInv, CopyInv, Filled
        <3>4. CASE comp' \in {"rename", "away", "second", "in", "install"}
            BY <1>1, <3>1, <3>2, <3>4 DEF RowsInv, CopyInv
        <3>5. CASE comp' \in {"idle", "done", "swap", "even"}
            BY <3>5 DEF CopyInv
        <3>6. comp' \in {"idle", "copy", "wait", "stage", "rename", "away", "second", "in",
                        "install", "swap", "even", "done"}
            BY DEF FlipInv, FlipType
        <3> QED BY <3>3, <3>4, <3>5, <3>6
    <2> QED BY <2>1, <2>2, <2>3
<1> QED BY <1>4, <1>5, <1>7, <1>8, <1>9, <1>10 DEF RowsInv

(* Between its begin and its end a statement changes nothing but its own   *)
(* place and the allocator.                                                *)
LEMMA StatementStep ==
    ASSUME FlipInv, RowsInv, NEW w \in Writers, Enter(w) \/ WriterStep(w) \/ Refuse(w)
    PROVE  RowsInv'
<1>0. /\ mem.gen \in Nat /\ next \in Nat /\ mem.s \in Stores
      /\ wr[w] \in [pc : {"out", "resolve", "resolved", "sent", "done", "conflict"},
                    try : Nat, rec : Record]
    BY CompactionAssumption DEF FlipInv, FlipType, RowsInv, DataType
<1>1. UNCHANGED <<up, halted, log, base, applied, pending, truth, mem, image, dirs, maybe, comp, liveX,
                  copy>>
    BY DEF Enter, WriterStep, Resolve, NothingToDo, Send, Leave, Refuse, logState, disk, rebuild
<1>2. next' \in Nat /\ next <= next'
    BY <1>0 DEF Enter, WriterStep, Resolve, NothingToDo, Send, Leave, Refuse
<1>3. NoRecord \in Record
    BY DEF NoRecord, Record
<1> DEFINE W == [pc : {"out", "resolve", "resolved", "sent", "done", "conflict"},
                 try : Nat, rec : Record]
<1>4. \E to \in W :
         /\ wr' = [wr EXCEPT ![w] = to]
         /\ to.pc # "out" => up /\ comp \in {"idle", "copy", "wait"}
         /\ to.pc \in {"resolved", "sent"} =>
               \/ wr[w].pc = "resolved" /\ to.rec = wr[w].rec
               \/ /\ Fits(to.rec, mem, next')
                  /\ to.rec.install # 0 => to.rec.install = next + 1
    <2>0. wr[w].pc # "out" => up /\ comp \in {"idle", "copy", "wait"}
        BY DEF RowsInv, GateInv, Inside
    <2>00. OutOfGate \in W /\ OutOfGate.pc = "out"
        BY <1>3 DEF OutOfGate
    <2>1. CASE Enter(w)
        <3>1. [pc |-> "resolve", try |-> 1, rec |-> NoRecord] \in W
            BY <1>3
        <3> QED BY <2>1, <3>1 DEF Enter, GateOpen
    <2>2. CASE Resolve(w)
        <3>1. PICK retire \in {0} \cup mem.s.live, installs \in BOOLEAN :
                 /\ retire # 0 \/ installs
                 /\ wr' = [wr EXCEPT ![w].pc = "resolved",
                           ![w].rec = [retire |-> retire, install |-> IF installs THEN next + 1 ELSE 0,
                                       gen |-> mem.gen,
                                       victim |-> IF retire = 0 THEN 0 ELSE mem.s.rows[retire]]]
                 /\ next' = IF installs THEN next + 1 ELSE next
            BY <2>2 DEF Resolve
        <3> DEFINE r == [retire |-> retire, install |-> IF installs THEN next + 1 ELSE 0,
                         gen |-> mem.gen, victim |-> IF retire = 0 THEN 0 ELSE mem.s.rows[retire]]
                   to == [[wr[w] EXCEPT !.pc = "resolved"] EXCEPT !.rec = r]
        <3>2. wr[w].pc = "resolve" /\ up
            BY <2>0, <2>2 DEF Resolve
        <3>3. Sound(mem.s, applied) /\ Len(mem.s.rows) <= next
            BY <3>2 DEF RowsInv, MemInv
        <3>4. /\ Len(mem.s.rows) \in Nat /\ DOMAIN mem.s.rows = 1 .. Len(mem.s.rows)
              /\ \A o \in DOMAIN mem.s.rows : mem.s.rows[o] \in Nat
              /\ mem.s.live \subseteq Nat \ {0}
            BY <1>0 DEF Stores
        <3>5. mem.s.live \subseteq Filled(mem.s) /\ Filled(mem.s) \subseteq 1 .. next
            BY <1>0, <3>3, <3>4 DEF Sound, Filled
        <3>6. r \in Record
            <4>1. retire \in Nat
                BY <3>4
            <4>2. (IF installs THEN next + 1 ELSE 0) \in Nat
                BY <1>0
            <4>3. (IF retire = 0 THEN 0 ELSE mem.s.rows[retire]) \in Nat
                BY <3>4, <3>5 DEF Filled
            <4> QED BY <1>0, <4>1, <4>2, <4>3 DEF Record
        <3>7. to \in W /\ to.pc = "resolved" /\ to.rec = r
            <4> HIDE DEF r
            <4> QED BY <1>0, <3>6
        <3>8. wr' = [wr EXCEPT ![w] = to]
            <4> HIDE DEF r
            <4>1. wr \in [Writers -> W]
                BY DEF RowsInv, DataType
            <4>2. wr' = [wr EXCEPT ![w].pc = "resolved", ![w].rec = r]
                BY <3>1 DEF r
            <4> HIDE DEF W
            <4>3. wr' = [wr EXCEPT ![w] = [[wr[w] EXCEPT !.pc = "resolved"] EXCEPT !.rec = r]]
                BY <4>1, <4>2
            <4> QED BY <4>3
        <3>9. Fits(r, mem, next')
            <4>1. /\ r.gen = mem.gen /\ r.retire = retire
                  /\ r.victim = (IF retire = 0 THEN 0 ELSE mem.s.rows[retire])
                  /\ r.install = IF installs THEN next + 1 ELSE 0
                OBVIOUS
            <4> HIDE DEF r
            <4>2. r.install # 0 => r.install = next' /\ r.install \notin Filled(mem.s)
                BY <1>0, <3>1, <3>5, <4>1
            <4>3. r.retire # 0 => r.retire \in Filled(mem.s) /\ mem.s.rows[r.retire] = r.victim
                BY <3>5, <4>1
            <4>4. r.retire # 0 \/ r.install # 0
                BY <1>0, <3>1, <4>1
            <4> QED BY <1>0, <1>2, <4>1, <4>2, <4>3, <4>4 DEF Fits
        <3> QED BY <2>0, <3>2, <3>7, <3>8, <3>9
    <2>3. CASE NothingToDo(w)
        BY <2>00, <2>3 DEF NothingToDo
    <2>4. CASE Send(w)
        <3>1. wr' = [wr EXCEPT ![w] = [wr[w] EXCEPT !.pc = "sent"]] /\ wr[w].pc = "resolved"
            BY <2>4 DEF Send
        <3>2. [wr[w] EXCEPT !.pc = "sent"] \in W
            BY <1>0
        <3> QED BY <1>0, <2>0, <3>1, <3>2
    <2>5. CASE Leave(w)
        <3>1. [pc |-> "resolve", try |-> wr[w].try + 1, rec |-> NoRecord] \in W
            BY <1>0, <1>3
        <3>2. wr[w].pc # "out"
            BY <2>5 DEF Leave
        <3> QED BY <2>0, <2>00, <2>5, <3>1, <3>2 DEF Leave
    <2>6. CASE Refuse(w)
        <3>1. wr' = [wr EXCEPT ![w] = [wr[w] EXCEPT !.pc = "done"]] /\ wr[w].pc = "sent"
            BY <2>6 DEF Refuse
        <3>2. [wr[w] EXCEPT !.pc = "done"] \in W
            BY <1>0
        <3> QED BY <1>0, <2>0, <3>1, <3>2
    <2> QED BY <2>1, <2>2, <2>3, <2>4, <2>5, <2>6 DEF WriterStep
<1>5. PICK to \in W :
         /\ wr' = [wr EXCEPT ![w] = to]
         /\ to.pc # "out" => up /\ comp \in {"idle", "copy", "wait"}
         /\ to.pc \in {"resolved", "sent"} =>
               \/ wr[w].pc = "resolved" /\ to.rec = wr[w].rec
               \/ /\ Fits(to.rec, mem, next')
                  /\ to.rec.install # 0 => to.rec.install = next + 1
    BY <1>4
<1>6. /\ wr \in [Writers -> W] /\ wr' \in [Writers -> W]
      /\ wr'[w] = to /\ \A v \in Writers \ {w} : wr'[v] = wr[v]
    BY <1>5 DEF RowsInv, DataType
<1>7. pending # w
    <2>1. wr[w].pc = "sent" => Refuse(w)
        BY DEF Enter, WriterStep, Resolve, NothingToDo, Send, Leave
    <2>2. pending # None => wr[pending].pc = "sent"
        BY DEF RowsInv, GateInv
    <2>3. Refuse(w) => pending = None
        BY DEF Refuse, CommitFree
    <2> QED BY <2>1, <2>2, <2>3, CompactionAssumption
<1> HIDE DEF W
<1>8. DataType'
    BY <1>1, <1>2, <1>6 DEF RowsInv, DataType, W
<1>9. GateInv'
    <2>1. pending # None => wr'[pending] = wr[pending]
        BY <1>6, <1>7 DEF RowsInv, DataType
    <2>2. \A v \in Writers : wr'[v].pc # "out" => up /\ comp \in {"idle", "copy", "wait"}
        BY <1>5, <1>6 DEF RowsInv, GateInv, Inside
    <2> QED BY <1>1, <2>1, <2>2 DEF RowsInv, GateInv, Inside
<1>10. \A g : Good(g) => Good(g)'
    BY <1>1 DEF Good, Folded, Recovered
<1>11. FileInv'
    BY <1>1, <1>10 DEF RowsInv, FileInv, Home
<1>12. MemInv'
    <2>1. pending # None => wr'[pending] = wr[pending]
        BY <1>6, <1>7 DEF RowsInv, DataType
    <2>2. up => Len(mem.s.rows) <= next'
        <3>1. Len(mem.s.rows) \in Nat
            BY <1>0 DEF Stores
        <3> QED BY <1>0, <1>2, <3>1 DEF RowsInv, MemInv
    <2> QED BY <1>1, <1>10, <2>1, <2>2 DEF RowsInv, MemInv, Folded, Recovered
<1>13. WriterInv'
    <2>1. \A v \in Carrying : wr[v].rec \in Record /\ v \in Writers
        BY <1>6 DEF Carrying, W
    <2>2. \A v \in Carrying : Fits(wr[v].rec, mem, next') /\ (wr[v].rec.install # 0 => wr[v].rec.install <= next)
        <3> TAKE v \in Carrying
        <3>1. Fits(wr[v].rec, mem, next) /\ wr[v].rec.install \in Nat
            BY <2>1 DEF RowsInv, WriterInv, Record
        <3> QED BY <1>0, <1>2, <3>1 DEF Fits
    <2>3. \A v \in Carrying' : v # w => v \in Carrying /\ wr'[v] = wr[v]
        BY <1>6 DEF Carrying
    <2>4. w \in Carrying' => \/ w \in Carrying /\ to.rec = wr[w].rec
                             \/ Fits(to.rec, mem, next') /\ (to.rec.install # 0 => to.rec.install = next + 1)
        <3> SUFFICES ASSUME w \in Carrying'
                     PROVE  \/ w \in Carrying /\ to.rec = wr[w].rec
                            \/ Fits(to.rec, mem, next') /\ (to.rec.install # 0 => to.rec.install = next + 1)
            OBVIOUS
        <3>1. to.pc \in {"resolved", "sent"}
            BY <1>6 DEF Carrying
        <3>2. wr[w].pc = "resolved" => w \in Carrying
            BY DEF Carrying
        <3> QED BY <1>1, <1>5, <3>1, <3>2
    <2>5. \A v \in Carrying' : Fits(wr'[v].rec, mem, next')
        BY <1>6, <2>2, <2>3, <2>4
    <2>6. ASSUME NEW v \in Carrying', NEW x \in Carrying', v # x,
                 wr'[v].rec.install = wr'[x].rec.install, wr'[v].rec.install # 0
          PROVE  FALSE
        <3>1. \A y \in Carrying' \ {w} :
                 wr'[y].rec.install # 0 => wr'[y].rec.install \in Nat /\ wr'[y].rec.install <= next
            BY <2>1, <2>2, <2>3 DEF Record
        <3>2. CASE w \in Carrying' /\ to.rec.install = next + 1
            <4>1. ASSUME NEW y \in Carrying', y # w, wr'[y].rec.install = next + 1 PROVE FALSE
                <5>1. wr'[y].rec.install \in Nat /\ wr'[y].rec.install <= next
                    BY <1>0, <3>1, <4>1
                <5> QED BY <1>0, <4>1, <5>1
            <4>2. wr'[w].rec.install = next + 1
                BY <1>6, <3>2
            <4>3. v = w \/ x = w \/ (v # w /\ x # w)
                OBVIOUS
            <4>4. CASE v # w /\ x # w
                BY <2>3, <2>6, <4>4 DEF RowsInv, WriterInv
            <4> QED BY <2>6, <4>1, <4>2, <4>3, <4>4
        <3>3. CASE w \in Carrying /\ to.rec = wr[w].rec
            BY <1>6, <2>3, <2>6, <3>3 DEF RowsInv, WriterInv
        <3>4. CASE w \notin Carrying'
            BY <2>3, <2>6, <3>4 DEF RowsInv, WriterInv
        <3>5. CASE to.rec.install = 0
            BY <1>6, <2>3, <2>6, <3>5 DEF RowsInv, WriterInv
        <3> QED BY <2>4, <3>2, <3>3, <3>4, <3>5
    <2>7. \A v, x \in Carrying' :
             wr'[v].rec.install = wr'[x].rec.install /\ wr'[v].rec.install # 0 => v = x
        BY <2>6
    <2> QED BY <1>1, <2>5, <2>7 DEF WriterInv
<1>14. CopyInv'
    <2>1. Built(liveX, mem.s)' = Built(liveX, mem.s)
        BY <1>1
    <2> QED BY <1>1, <2>1 DEF RowsInv, CopyInv, Filled
<1> QED BY <1>8, <1>9, <1>11, <1>12, <1>13, <1>14 DEF RowsInv

(* While records can be logged every layout settles to the generation in   *)
(* memory.                                                                 *)
LEMMA OneHome ==
    ASSUME FlipInv, CommitFree, ~halted
    PROVE  /\ comp \in {"idle", "copy", "wait", "done"}
           /\ \A d \in maybe : Home(d) = mem.gen
           /\ mem.gen \in 1 .. MaxGen
BY DEF FlipInv, FlipType, DirInv, CommitFree, Flipping

LEMMA DataFacts ==
    ASSUME FlipInv, RowsInv
    PROVE  /\ Len(log) \in Nat /\ log \in Seq(Record) /\ mem.s \in Stores /\ next \in Nat
           /\ base \in Nat /\ applied \in Nat /\ mem.gen \in Nat
           /\ \A w \in Writers : wr[w].rec \in Record
           /\ \A g \in 1 .. MaxGen : image[g].mark \in Nat /\ image[g].s \in Stores
BY CompactionAssumption DEF FlipInv, FlipType, RowsInv, DataType

(* A record in flight can be applied to memory. *)
LEMMA RecordApplies ==
    ASSUME FlipInv, RowsInv, NEW w \in Carrying, NEW t, NEW n \in Nat, Sound(mem.s, n), up,
           t = Absorb(mem.s, n + 1, wr[w].rec)
    PROVE  /\ t \in Stores /\ Sound(t, n + 1) /\ Rows(t) = Effect(Rows(mem.s), n + 1, wr[w].rec)
           /\ \A o \in Filled(mem.s) : o \in Filled(t) /\ t.rows[o] = mem.s.rows[o]
           /\ Filled(t) \subseteq Filled(mem.s) \cup {wr[w].rec.install}
           /\ Len(t.rows) <= next
<1> DEFINE r == wr[w].rec
<1>1. r \in Record /\ mem.s \in Stores /\ next \in Nat /\ r.install \in Nat
    BY DataFacts DEF Carrying, Record
<1>2. Fits(r, mem, next)
    BY DEF RowsInv, WriterInv
<1> HIDE DEF r
<1>3. /\ r.retire = 0 => r.victim = 0
      /\ r.retire # 0 => r.retire \in Filled(mem.s) /\ mem.s.rows[r.retire] = r.victim
      /\ r.install <= next
    BY <1>1, <1>2 DEF Fits
<1>4. 0 \notin Filled(mem.s)
    BY <1>1 DEF Stores, Filled
<1>5. r.install \notin Filled(mem.s)
    BY <1>2, <1>4 DEF Fits
<1>6. Len(mem.s.rows) <= next
    BY DEF RowsInv, MemInv
<1>7. t = Absorb(mem.s, n + 1, r)
    BY DEF r
<1>8. /\ t \in Stores /\ Sound(t, n + 1) /\ Rows(t) = Effect(Rows(mem.s), n + 1, r)
      /\ \A o \in Filled(mem.s) : o \in Filled(t) /\ t.rows[o] = mem.s.rows[o]
      /\ Filled(t) \subseteq Filled(mem.s) \cup {r.install}
      /\ \A k \in Nat : Len(mem.s.rows) <= k /\ r.install <= k => Len(t.rows) <= k
    BY <1>1, <1>3, <1>5, <1>7, AbsorbFits
<1> QED BY <1>1, <1>3, <1>6, <1>8 DEF r

LEMMA LogStep ==
    ASSUME FlipInv, RowsInv, NEW w \in Writers, Log(w)
    PROVE  RowsInv'
<1>0. PICK g, r, n, t : /\ g = mem.gen /\ r = wr[w].rec /\ n = Len(log)
                       /\ t = Absorb(mem.s, n + 1, r)
    OBVIOUS
<1>1. /\ UNCHANGED <<up, halted, base, applied, wr, next, mem, image, dirs, maybe, comp, liveX, copy>>
      /\ log' = Append(log, r) /\ truth' = Effect(truth, n + 1, r) /\ pending' = w
      /\ up /\ ~halted /\ pending = None /\ wr[w].pc = "sent" /\ CommitFree
    BY <1>0 DEF Log, CommitFree, statements, disk, rebuild
<1>2. g \in 1 .. MaxGen /\ \A d \in maybe : Home(d) = g
    BY <1>0, <1>1, OneHome
<1>3. comp \in {"idle", "copy", "wait"}
    BY <1>1 DEF RowsInv, GateInv, Inside
<1>4. /\ n \in Nat /\ log \in Seq(Record) /\ mem.s \in Stores /\ base \in Nat /\ r \in Record
      /\ image[g].mark \in Nat
    BY <1>0, <1>2, DataFacts
<1>5. Good(g) /\ applied = n /\ mem.s = Folded(g) /\ Sound(mem.s, n)
    BY <1>0, <1>1 DEF RowsInv, MemInv
<1>6. w \in Carrying /\ r.gen = g
    BY <1>0, <1>1 DEF Carrying, RowsInv, WriterInv, Fits
<1>7. t \in Stores /\ Sound(t, n + 1) /\ Rows(t) = Effect(Rows(mem.s), n + 1, r)
    BY <1>0, <1>1, <1>4, <1>5, <1>6, RecordApplies
<1>8. /\ Len(log') = n + 1 /\ log'[n + 1] = r /\ \A l \in 1 .. n : log'[l] = log[l]
      /\ log' \in Seq(Record)
    BY <1>0, <1>1, <1>4
<1>9. Folded(g)' = t
    <2>1. Folded(g)' = Replay(log', image[g].s, image[g].mark)
        BY <1>1 DEF Folded, Recovered
    <2>2. image[g].mark <= n /\ Replay(log, image[g].s, image[g].mark) = mem.s
        BY <1>0, <1>5 DEF Good, Folded, Recovered
    <2> QED BY <1>0, <1>1, <1>4, <2>1, <2>2, ReplayOneMore
<1>10. Good(g)'
    <2>1. base' <= image'[g].mark /\ image'[g].mark <= Len(log')
        <3>1. base <= image[g].mark /\ image[g].mark <= n
            BY <1>0, <1>5 DEF Good
        <3> QED BY <1>1, <1>4, <1>8, <3>1
    <2>2. Rows(t) = truth'
        BY <1>1, <1>5, <1>7 DEF Good
    <2>3. \A l \in image[g].mark + 1 .. n + 1 : log'[l].gen = g
        <3> TAKE l \in image[g].mark + 1 .. n + 1
        <3>1. CASE l = n + 1
            BY <1>6, <1>8, <3>1
        <3>2. CASE l # n + 1
            <4>1. l \in image[g].mark + 1 .. n /\ l \in 1 .. n
                BY <1>4, <3>2
            <4> QED BY <1>0, <1>5, <1>8, <4>1 DEF Good
        <3> QED BY <3>1, <3>2
    <2> QED BY <1>1, <1>7, <1>8, <1>9, <2>1, <2>2, <2>3 DEF Good
<1>11. DataType'
    <2>1. truth' \in SUBSET Nat
        <3>1. truth' \subseteq truth \cup {n + 1}
            BY <1>1 DEF Effect
        <3>2. truth \subseteq Nat /\ n + 1 \in Nat
            BY <1>4 DEF RowsInv, DataType
        <3> QED BY <3>1, <3>2
    <2> QED BY <1>1, <1>8, <2>1 DEF RowsInv, DataType
<1>12. GateInv'
    BY <1>1, <1>3 DEF RowsInv, GateInv, Inside
<1>13. FileInv'
    BY <1>1, <1>2, <1>10 DEF FileInv, Home
<1>14. MemInv'
    <2>1. Len(log') - 1 = applied
        BY <1>4, <1>5, <1>8
    <2>2. pending' # None
        BY <1>1, CompactionAssumption
    <2>3. Folded(mem.gen)' = Absorb(mem.s, Len(log'), log'[Len(log')])
        BY <1>0, <1>1, <1>8, <1>9
    <2>4. Sound(mem.s, applied) /\ Len(mem.s.rows) <= next
        BY <1>1 DEF RowsInv, MemInv
    <2> QED BY <1>0, <1>1, <1>8, <1>10, <2>1, <2>2, <2>3, <2>4 DEF MemInv
<1>15. WriterInv'
    BY <1>1 DEF RowsInv, WriterInv, Carrying
<1>16. CopyInv'
    <2>1. Built(liveX, mem.s)' = Built(liveX, mem.s)
        BY <1>1
    <2> QED BY <1>1, <1>3, <2>1 DEF RowsInv, CopyInv, Filled
<1> QED BY <1>11, <1>12, <1>13, <1>14, <1>15, <1>16 DEF RowsInv

(* A row stays where the copy saw it. *)
LEMMA BuiltStays ==
    ASSUME NEW s \in Stores, NEW t \in Stores, NEW X, X \subseteq Filled(s),
           \A o \in Filled(s) : t.rows[o] = s.rows[o]
    PROVE  Built(X, t) = Built(X, s)
<1>1. X \in SUBSET (1 .. Len(s.rows)) /\ Len(s.rows) \in Nat
    BY DEF Stores, Filled
<1>2. IsFiniteSet(X) /\ X \subseteq Nat
    <2>1. IsFiniteSet(1 .. Len(s.rows))
        BY <1>1, FS_Interval
    <2>2. IsFiniteSet(X)
        BY <1>1, <2>1, FS_Subset
    <2> QED BY <1>1, <2>2
<1>3. \A i \in 1 .. Cardinality(X) : AtRank(X, i) \in X
    BY <1>2, Ranks
<1>4. \A i \in 1 .. Cardinality(X) : t.rows[AtRank(X, i)] = s.rows[AtRank(X, i)]
    BY <1>3
<1> QED BY <1>4 DEF Built

LEMMA BuiltType ==
    ASSUME NEW s \in Stores, NEW X, X \subseteq Filled(s)
    PROVE  Built(X, s) \in Stores
<1>1. X \in SUBSET (1 .. Len(s.rows)) /\ Len(s.rows) \in Nat
      /\ \A o \in Filled(s) : s.rows[o] \in Nat
    BY DEF Stores, Filled
<1>2. IsFiniteSet(X) /\ X \subseteq Nat
    <2>1. IsFiniteSet(1 .. Len(s.rows))
        BY <1>1, FS_Interval
    <2>2. IsFiniteSet(X)
        BY <1>1, <2>1, FS_Subset
    <2> QED BY <1>1, <2>2
<1>3. /\ Cardinality(X) \in Nat
      /\ \A i \in 1 .. Cardinality(X) : AtRank(X, i) \in X
    BY <1>2, Ranks
<1>4. [i \in 1 .. Cardinality(X) |-> s.rows[AtRank(X, i)]] \in [1 .. Cardinality(X) -> Nat]
    BY <1>1, <1>3
<1>5. [i \in 1 .. Cardinality(X) |-> s.rows[AtRank(X, i)]] \in Seq(Nat)
    BY <1>3, <1>4, FunctionIsSequence
<1>6. 1 .. Cardinality(X) \subseteq Nat \ {0}
    BY <1>3
<1> QED BY <1>5, <1>6 DEF Built, Stores

LEMMA ApplyStep ==
    ASSUME FlipInv, RowsInv, Apply
    PROVE  RowsInv'
<1>0. PICK p, g, r, n, t : /\ p = pending /\ g = mem.gen /\ r = wr[p].rec /\ n = Len(log)
                          /\ t = Absorb(mem.s, n, r)
    OBVIOUS
<1>1. /\ p \in Writers /\ wr[p].pc = "sent" /\ up /\ ~halted /\ comp \in {"idle", "copy", "wait"}
    BY <1>0 DEF Apply, RowsInv, DataType, GateInv, Inside
<1>2. /\ n \in Nat /\ mem.s \in Stores /\ r \in Record /\ applied \in Nat
    BY <1>0, <1>1, DataFacts
<1>3. /\ Good(g) /\ Sound(mem.s, n - 1) /\ log[n] = r /\ Folded(g) = t /\ n - 1 \in Nat
    BY <1>0, <1>1, <1>2 DEF Apply, RowsInv, MemInv
<1>4. p \in Carrying
    BY <1>1 DEF Carrying
<1>5. /\ t \in Stores /\ Sound(t, n)
      /\ \A o \in Filled(mem.s) : o \in Filled(t) /\ t.rows[o] = mem.s.rows[o]
      /\ Filled(t) \subseteq Filled(mem.s) \cup {r.install}
      /\ Len(t.rows) <= next
    <2>1. t = Absorb(mem.s, (n - 1) + 1, wr[p].rec) /\ (n - 1) + 1 = n
        BY <1>0, <1>2
    <2> QED BY <1>0, <1>1, <1>3, <1>4, <2>1, RecordApplies
<1>6. /\ UNCHANGED <<up, halted, log, base, truth, next, image, dirs, maybe, comp, liveX, copy>>
      /\ mem' = [gen |-> g, s |-> t] /\ applied' = n /\ pending' = None
      /\ wr' = [wr EXCEPT ![p].pc = IF Stale(mem.s, r) THEN "conflict" ELSE "done"]
    <2>1. mem = [gen |-> mem.gen, s |-> mem.s]
        BY DEF FlipInv, FlipType
    <2>2. log[Len(log)] = r
        BY <1>0, <1>3
    <2> QED BY <1>0, <2>1, <2>2 DEF Apply, disk, rebuild
<1>7. /\ \A v \in Writers : wr'[v].rec = wr[v].rec /\ (wr'[v].pc # "out" <=> wr[v].pc # "out")
      /\ \A v \in Writers \ {p} : wr'[v] = wr[v]
      /\ wr'[p].pc \in {"conflict", "done"}
      /\ wr' \in [Writers -> [pc : {"out", "resolve", "resolved", "sent", "done", "conflict"},
                              try : Nat, rec : Record]]
    BY <1>1, <1>6 DEF RowsInv, DataType
<1>8. Good(g)' /\ Folded(g)' = t
    BY <1>3, <1>6 DEF Good, Folded, Recovered
<1>9. DataType'
    BY <1>2, <1>5, <1>6, <1>7 DEF RowsInv, DataType
<1>10. GateInv'
    BY <1>6, <1>7 DEF RowsInv, GateInv, Inside
<1>11. FileInv'
    BY <1>6 DEF RowsInv, FileInv, Home, Good, Folded, Recovered
<1>12. MemInv'
    BY <1>0, <1>5, <1>6, <1>8 DEF MemInv
<1>13. WriterInv'
    <2>1. Carrying' \subseteq Carrying \ {p}
        BY <1>6, <1>7 DEF Carrying
    <2>2. ASSUME NEW v \in Carrying \ {p} PROVE Fits(wr[v].rec, mem', next)
        <3>1. Fits(wr[v].rec, mem, next)
            BY DEF RowsInv, WriterInv
        <3>2. wr[v].rec.install # 0 => wr[v].rec.install # r.install
            BY <1>0, <1>4 DEF RowsInv, WriterInv
        <3> QED BY <1>0, <1>5, <1>6, <3>1, <3>2 DEF Fits
    <2>3. Carrying \subseteq Writers
        BY DEF Carrying
    <2>4. \A v \in Carrying' : Fits(wr'[v].rec, mem', next')
        BY <1>6, <1>7, <2>1, <2>2, <2>3
    <2>5. \A v, x \in Carrying' :
             wr'[v].rec.install = wr'[x].rec.install /\ wr'[v].rec.install # 0 => v = x
        BY <1>7, <2>1, <2>3 DEF RowsInv, WriterInv
    <2> QED BY <2>4, <2>5 DEF WriterInv
<1>14. CopyInv'
    <2>1. comp \in {"copy", "wait"} => liveX \subseteq Filled(mem.s) /\ liveX \subseteq Filled(t)
        BY <1>5 DEF RowsInv, CopyInv
    <2>2. comp = "wait" => copy = Built(liveX, mem.s) /\ Built(liveX, t) = Built(liveX, mem.s)
        BY <1>2, <1>5, <2>1, BuiltStays DEF RowsInv, CopyInv
    <2>3. mem'.s = t /\ comp' = comp /\ liveX' = liveX /\ copy' = copy
        BY <1>6
    <2> QED BY <1>1, <2>1, <2>2, <2>3 DEF CopyInv
<1> QED BY <1>9, <1>10, <1>11, <1>12, <1>13, <1>14 DEF RowsInv

LEMMA CheckpointStep ==
    ASSUME FlipInv, RowsInv, Checkpoint
    PROVE  RowsInv'
<1>0. PICK g, n : g = mem.gen /\ n = Len(log)
    OBVIOUS
<1>1. /\ UNCHANGED <<up, halted, log, applied, pending, truth, wr, next, mem, dirs, maybe, comp, liveX,
                     copy>>
      /\ up /\ ~halted /\ pending = None /\ CommitFree
      /\ image' = [image EXCEPT ![g] = [s |-> mem.s, mark |-> applied]]
      /\ base' \in {base, applied}
    BY <1>0 DEF Checkpoint, CommitFree, statements, rebuild
<1>2. /\ comp \in {"idle", "copy", "wait", "done"} /\ g \in 1 .. MaxGen
      /\ \A d \in maybe : Home(d) = g
    BY <1>0, <1>1, OneHome
<1>3. /\ n \in Nat /\ mem.s \in Stores /\ base \in Nat /\ image[g].mark \in Nat /\ log \in Seq(Record)
    BY <1>0, <1>2, DataFacts
<1>4. Good(g) /\ applied = n /\ mem.s = Folded(g) /\ Sound(mem.s, n) /\ Len(mem.s.rows) <= next
    BY <1>0, <1>1 DEF RowsInv, MemInv
<1>5. DataType'
    <2>1. [s |-> mem.s, mark |-> applied] \in [s : Stores, mark : Nat]
        BY <1>3, <1>4
    <2> QED BY <1>1, <1>3, <1>4, <2>1 DEF RowsInv, DataType
<1>6. image'[g].s = mem.s /\ image'[g].mark = n
    BY <1>1, <1>2, <1>4 DEF RowsInv, DataType
<1>7. Folded(g)' = mem.s
    BY <1>0, <1>1, <1>3, <1>6, ReplayNothing DEF Folded, Recovered
<1>8. Good(g)'
    <2>1. base' <= n
        BY <1>0, <1>1, <1>3, <1>4 DEF Good
    <2>2. Rows(mem.s) = truth
        BY <1>4 DEF Good
    <2>3. n + 1 .. n = {}
        BY <1>3
    <2> QED BY <1>0, <1>1, <1>3, <1>4, <1>6, <1>7, <2>1, <2>2, <2>3 DEF Good
<1>9. GateInv'
    BY <1>1 DEF RowsInv, GateInv, Inside
<1>10. FileInv'
    BY <1>1, <1>2, <1>8 DEF FileInv, Home
<1>11. MemInv'
    BY <1>0, <1>1, <1>4, <1>7, <1>8 DEF MemInv
<1>12. WriterInv'
    BY <1>1 DEF RowsInv, WriterInv, Carrying
<1>13. CopyInv'
    <2>1. Built(liveX, mem.s)' = Built(liveX, mem.s)
        BY <1>1
    <2> QED BY <1>1, <1>2, <2>1 DEF RowsInv, CopyInv, Filled
<1> QED BY <1>5, <1>9, <1>10, <1>11, <1>12, <1>13 DEF RowsInv

LEMMA BuildStep ==
    ASSUME FlipInv, FlipInv', RowsInv, Build
    PROVE  RowsInv'
<1>0. PICK g : g = mem.gen
    OBVIOUS
<1>1. /\ UNCHANGED <<up, halted, log, base, applied, pending, truth, wr, next, mem, liveX>>
      /\ comp = "copy" /\ comp' = "wait" /\ copy' = Built(liveX, mem.s)
      /\ image' = [image EXCEPT ![g + 1] = [s |-> Empty, mark |-> 0]]
    BY <1>0 DEF Build, logState, statements, Built
<1>2. up /\ ~halted /\ g \in 1 .. MaxGen /\ g + 1 # g
    BY <1>0, <1>1, CompactionAssumption DEF FlipInv, FlipType, DirInv
<1>3. \A d \in maybe' : Home(d) = g
    BY <1>0, <1>1, <1>2 DEF FlipInv, DirInv, Home
<1>4. mem.s \in Stores /\ liveX \subseteq Filled(mem.s) /\ Empty \in Stores
    BY <1>1 DEF RowsInv, DataType, CopyInv, Empty, Stores
<1>5. DataType'
    <2>1. copy' \in Stores
        BY <1>1, <1>4, BuiltType
    <2>2. [s |-> Empty, mark |-> 0] \in [s : Stores, mark : Nat]
        BY <1>4
    <2> QED BY <1>1, <2>1, <2>2 DEF RowsInv, DataType
<1>6. image'[g] = image[g]
    BY <1>1, <1>2 DEF RowsInv, DataType
<1>7. Good(g)' /\ Folded(g)' = Folded(g)
    BY <1>0, <1>1, <1>2, <1>6 DEF RowsInv, MemInv, Good, Folded, Recovered
<1>8. GateInv'
    BY <1>1 DEF RowsInv, GateInv, Inside
<1>9. FileInv'
    BY <1>3, <1>7 DEF FileInv, Home
<1>10. MemInv'
    BY <1>0, <1>1, <1>7 DEF RowsInv, MemInv
<1>11. WriterInv'
    BY <1>1 DEF RowsInv, WriterInv, Carrying
<1>12. CopyInv'
    BY <1>1, <1>4 DEF CopyInv
<1> QED BY <1>5, <1>8, <1>9, <1>10, <1>11, <1>12 DEF RowsInv

LEMMA StageStep ==
    ASSUME FlipInv, FlipInv', RowsInv, Stage
    PROVE  RowsInv'
<1>0. PICK g, n : g = mem.gen /\ n = Len(log)
    OBVIOUS
<1>1. /\ UNCHANGED <<up, halted, log, base, applied, pending, truth, wr, next, mem, dirs, maybe, liveX>>
      /\ comp = "stage" /\ comp' = "rename" /\ copy' = CaughtUp
      /\ image' = [image EXCEPT ![g + 1] = [s |-> copy', mark |-> applied]]
    BY <1>0 DEF Stage, logState, statements
<1>2. up /\ ~halted /\ g \in 1 .. MaxGen /\ g + 1 \in 1 .. MaxGen /\ g + 1 # g
    BY <1>0, <1>1, CompactionAssumption DEF FlipInv, FlipType, DirInv
<1>3. \A d \in maybe' : Home(d) = g
    BY <1>0, <1>1, <1>2 DEF FlipInv, DirInv, Home
<1>4. pending = None
    BY <1>1 DEF RowsInv, DataType, GateInv, Inside
<1>5. /\ n \in Nat /\ applied = n /\ mem.s = Folded(g) /\ Sound(mem.s, n) /\ Good(g)
      /\ mem.s \in Stores
    BY <1>0, <1>2, <1>4, DataFacts DEF RowsInv, MemInv
<1>6. copy' \in Stores /\ Sound(copy', n) /\ Rows(copy') = truth
    <2>1. liveX \subseteq Filled(mem.s) /\ copy = Built(liveX, mem.s)
        BY <1>1 DEF RowsInv, CopyInv
    <2>2. CaughtUp \in Stores /\ Sound(CaughtUp, n) /\ Rows(CaughtUp) = Rows(mem.s)
        BY <1>5, <2>1, CaughtUpIsMemory
    <2> QED BY <1>1, <1>5, <2>2 DEF Good
<1>7. DataType'
    <2>1. [s |-> copy', mark |-> applied] \in [s : Stores, mark : Nat]
        BY <1>5, <1>6
    <2> QED BY <1>1, <1>6, <2>1 DEF RowsInv, DataType
<1>8. image'[g] = image[g] /\ image'[g + 1] = [s |-> copy', mark |-> n]
    BY <1>1, <1>2, <1>5 DEF RowsInv, DataType
<1>9. Good(g)' /\ Folded(g)' = Folded(g)
    BY <1>1, <1>5, <1>8 DEF Good, Folded, Recovered
<1>10. GateInv'
    BY <1>1, <1>4 DEF RowsInv, GateInv, Inside
<1>11. FileInv'
    BY <1>3, <1>9 DEF FileInv, Home
<1>12. MemInv'
    BY <1>0, <1>1, <1>9 DEF RowsInv, MemInv
<1>13. WriterInv'
    BY <1>1 DEF RowsInv, WriterInv, Carrying
<1>14. CopyInv'
    BY <1>0, <1>1, <1>6, <1>8 DEF CopyInv
<1> QED BY <1>7, <1>10, <1>11, <1>12, <1>13, <1>14 DEF RowsInv

LEMMA InstallStep ==
    ASSUME FlipInv, FlipInv', RowsInv, Install
    PROVE  RowsInv'
<1>0. PICK g : g = mem.gen + 1
    OBVIOUS
<1>1. /\ UNCHANGED <<up, halted, log, base, applied, pending, truth, wr, image, dirs, maybe, liveX, copy>>
      /\ comp = "install" /\ comp' = "swap"
      /\ mem' = [gen |-> g, s |-> copy] /\ next' = Len(copy.rows)
    BY <1>0 DEF Install, logState, disk
<1>2. /\ Good(g) /\ Folded(g) = copy /\ g \in 1 .. MaxGen /\ pending = None /\ applied = Len(log) /\ up
    BY <1>0, <1>1, StagedIsGood
<1>3. \A d \in maybe : Home(d) = g
    BY <1>0, <1>1 DEF FlipInv, DirInv
<1>4. \A w \in Writers : ~Inside(w)
    BY <1>1 DEF RowsInv, GateInv
<1>5. DataType'
    <2>1. copy \in Stores /\ Len(copy.rows) \in Nat
        BY DEF RowsInv, DataType, Stores
    <2> QED BY <1>1, <2>1 DEF RowsInv, DataType
<1>6. \A x : Good(x)' = Good(x) /\ Folded(x)' = Folded(x)
    BY <1>1 DEF Good, Folded, Recovered
<1>7. GateInv'
    BY <1>1, <1>2, <1>4 DEF GateInv, Inside
<1>8. FileInv'
    BY <1>1, <1>2, <1>3, <1>6 DEF FileInv, Home
<1>9. MemInv'
    <2>1. Sound(copy, applied)
        BY <1>2 DEF Good
    <2>2. Len(copy.rows) <= Len(copy.rows)
        BY <1>5 DEF DataType, Stores
    <2> QED BY <1>1, <1>2, <1>6, <2>1, <2>2, <1>5 DEF MemInv, DataType, Stores
<1>10. WriterInv'
    BY <1>1, <1>4 DEF WriterInv, Carrying, Inside
<1>11. CopyInv'
    BY <1>1 DEF CopyInv
<1> QED BY <1>5, <1>7, <1>8, <1>9, <1>10, <1>11 DEF RowsInv

LEMMA CrashStep ==
    ASSUME FlipInv, FlipInv', RowsInv, Crash
    PROVE  RowsInv'
<1>1. /\ UNCHANGED <<log, base, truth, image>> /\ up' = FALSE /\ pending' = None /\ applied' = 0
      /\ wr' = [w \in Writers |-> OutOfGate] /\ next' = 0 /\ mem' = [gen |-> 0, s |-> Empty]
      /\ comp' = "idle" /\ liveX' = {} /\ copy' = Empty /\ maybe' \subseteq maybe
    BY DEF Crash
<1>2. \A x : Good(x)' = Good(x)
    BY <1>1 DEF Good, Folded, Recovered
<1>3. DataType'
    <2>1. Empty \in Stores /\ OutOfGate.rec \in Record
        BY DEF Empty, Stores, OutOfGate, NoRecord, Record
    <2>2. OutOfGate \in [pc : {"out", "resolve", "resolved", "sent", "done", "conflict"},
                         try : Nat, rec : Record]
        BY <2>1 DEF OutOfGate
    <2> QED BY <1>1, <2>1, <2>2 DEF RowsInv, DataType
<1>4. \A w \in Writers : wr'[w].pc = "out"
    BY <1>1 DEF OutOfGate
<1>5. GateInv'
    BY <1>1, <1>4 DEF GateInv, Inside
<1>6. FileInv'
    BY <1>1, <1>2 DEF RowsInv, FileInv, Home
<1>7. MemInv'
    BY <1>1 DEF MemInv
<1>8. WriterInv'
    BY <1>4 DEF WriterInv, Carrying
<1>9. CopyInv'
    BY <1>1 DEF CopyInv
<1> QED BY <1>3, <1>5, <1>6, <1>7, <1>8, <1>9 DEF RowsInv

LEMMA OpenStep ==
    ASSUME FlipInv, FlipInv', RowsInv, Open
    PROVE  RowsInv'
<1>0. PICK g : g = dirs.live
    OBVIOUS
<1>1. /\ UNCHANGED <<halted, log, base, pending, truth, wr, image, dirs, comp, liveX, copy>>
      /\ ~up /\ up' /\ g # Absent /\ dirs = Settled(dirs) /\ maybe' = {dirs}
      /\ mem' = [gen |-> g, s |-> Recovered(image[g].s, Later(image[g].mark, base))]
      /\ next' = Len(mem'.s.rows) /\ applied' = Len(log)
    BY <1>0 DEF Open, rebuild
<1>2. Home(dirs) = g /\ dirs \in maybe /\ g \in 1 .. MaxGen /\ comp = "idle"
    BY <1>0, <1>1 DEF FlipInv, DirInv, FlipType, Home
<1>3. Good(g)
    BY <1>2 DEF RowsInv, FileInv
<1>4. Later(image[g].mark, base) = image[g].mark
    <2>1. image[g].mark \in Nat /\ base \in Nat
        BY <1>2, DataFacts
    <2> QED BY <1>3, <2>1 DEF Later, Good
<1>5. mem'.gen = g /\ mem'.s = Folded(g)
    BY <1>1, <1>4 DEF Folded
<1>6. Folded(g) \in Stores /\ Sound(Folded(g), Len(log)) /\ Len(Folded(g).rows) \in Nat
    BY <1>3 DEF Good, Stores
<1>7. \A x : Good(x)' = Good(x) /\ Folded(x)' = Folded(x)
    BY <1>1 DEF Good, Folded, Recovered
<1>8. pending = None /\ \A w \in Writers : ~Inside(w)
    BY <1>1 DEF RowsInv, GateInv
<1>9. DataType'
    BY <1>1, <1>5, <1>6, DataFacts DEF RowsInv, DataType
<1>10. GateInv'
    BY <1>1, <1>8 DEF GateInv, Inside
<1>11. FileInv'
    BY <1>1, <1>2, <1>3, <1>7 DEF FileInv, Home
<1>12. MemInv'
    BY <1>1, <1>3, <1>5, <1>6, <1>7, <1>8 DEF MemInv
<1>13. WriterInv'
    BY <1>1, <1>8 DEF WriterInv, Carrying, Inside
<1>14. CopyInv'
    BY <1>1, <1>2 DEF CopyInv
<1> QED BY <1>9, <1>10, <1>11, <1>12, <1>13, <1>14 DEF RowsInv

LEMMA SeedIsGood == Init => RowsInv
<1> SUFFICES ASSUME Init PROVE RowsInv
    OBVIOUS
<1>1. MaxGen \in Nat \ {0} /\ 1 \in 1 .. MaxGen /\ maybe = {dirs} /\ Home(dirs) = 1
    BY CompactionAssumption DEF Init, Home, Settled, Absent
<1>2. Seed \in Seq(Record) /\ Len(Seed) = 3
    <2>1. NoRecord \in Record
        BY DEF NoRecord, Record
    <2>2. ASSUME NEW r \in Record, NEW n \in Nat
          PROVE  /\ [r EXCEPT !.install = n] \in Record /\ [r EXCEPT !.retire = n] \in Record
                 /\ [r EXCEPT !.gen = n] \in Record /\ [r EXCEPT !.victim = n] \in Record
        BY DEF Record
    <2> DEFINE a(n) == [[NoRecord EXCEPT !.install = n] EXCEPT !.gen = 1]
               b == [[[NoRecord EXCEPT !.retire = 1] EXCEPT !.gen = 1] EXCEPT !.victim = 1]
    <2>3. a(1) \in Record /\ a(2) \in Record /\ b \in Record
        BY <2>1, <2>2
    <2>4. Seed = <<a(1), a(2), b>>
        BY DEF Seed
    <2> HIDE DEF a, b
    <2> QED BY <2>3, <2>4
<1>3. SeedStores \in Stores /\ Empty \in Stores
    BY DEF SeedStores, Empty, Stores
<1>4. Sound(SeedStores, 3) /\ Rows(SeedStores) = {2} /\ Len(SeedStores.rows) = 2
    <2>1. /\ DOMAIN SeedStores.rows = {1, 2} /\ SeedStores.rows[1] = 1 /\ SeedStores.rows[2] = 2
          /\ SeedStores.live = {2} /\ Len(SeedStores.rows) = 2
        BY DEF SeedStores
    <2> QED BY <2>1 DEF Sound, Rows
<1>5. image[1].s = SeedStores /\ image[1].mark = 3
    BY <1>1, <1>2 DEF Init
<1>6. Folded(1) = SeedStores
    <2>1. log = Seed /\ Len(Seed) \in Nat
        BY <1>2 DEF Init
    <2>2. Replay(Seed, SeedStores, Len(Seed)) = SeedStores
        BY <2>1, ReplayNothing
    <2> QED BY <1>2, <1>5, <2>1, <2>2 DEF Folded, Recovered
<1>7. Good(1)
    <2>1. base = 3 /\ Len(log) = 3 /\ truth = {2} /\ 3 + 1 .. 3 = {}
        BY <1>2 DEF Init
    <2> QED BY <1>3, <1>4, <1>5, <1>6, <2>1 DEF Good
<1>8. DataType
    <2>1. \A w \in Writers : wr[w] = OutOfGate
        BY DEF Init
    <2>2. OutOfGate \in [pc : {"out", "resolve", "resolved", "sent", "done", "conflict"},
                         try : Nat, rec : Record]
        BY DEF OutOfGate, NoRecord, Record
    <2>3. image \in [1 .. MaxGen -> [s : Stores, mark : Nat]]
        BY <1>2, <1>3 DEF Init
    <2> QED BY <1>2, <1>3, <2>1, <2>2, <2>3 DEF Init, DataType
<1>9. \A w \in Writers : wr[w].pc = "out"
    BY DEF Init, OutOfGate
<1>10. GateInv
    BY <1>9 DEF Init, GateInv, Inside
<1>11. FileInv
    BY <1>1, <1>7 DEF FileInv
<1>12. MemInv
    <2>1. /\ mem.gen = 1 /\ mem.s = SeedStores /\ next = 2 /\ pending = None /\ applied = 3
          /\ Len(log) = 3
        BY <1>2 DEF Init
    <2>2. Good(mem.gen) /\ Sound(mem.s, applied) /\ mem.s = Folded(mem.gen)
        BY <1>4, <1>6, <1>7, <2>1
    <2>3. Len(mem.s.rows) <= next /\ applied = Len(log)
        <3>1. Len(mem.s.rows) = 2
            BY <1>4, <2>1
        <3>2. Len(mem.s.rows) <= next
            BY <2>1, <3>1
        <3> QED BY <2>1, <3>2
    <2> QED BY <2>1, <2>2, <2>3 DEF MemInv
<1>13. WriterInv
    BY <1>9 DEF WriterInv, Carrying
<1>14. CopyInv
    BY DEF Init, CopyInv
<1> QED BY <1>8, <1>10, <1>11, <1>12, <1>13, <1>14 DEF RowsInv

(* The inductive invariant of the rows, when no failed fsync leaves its    *)
(* frame behind: such a frame has no caller the gate could wait for, and a *)
(* flip may come between it and its replay.                                *)
THEOREM RowsInvariance ==
    ASSUME SyncMayFail = FALSE
    PROVE  Spec => []RowsInv
<1>1. Init => RowsInv
    BY SeedIsGood
<1>2. FlipInv /\ FlipInv' /\ RowsInv /\ [Next]_vars => RowsInv'
    <2> SUFFICES ASSUME FlipInv, FlipInv', RowsInv, [Next]_vars PROVE RowsInv'
        OBVIOUS
    <2>1. ASSUME NEW w \in Writers, Enter(w) \/ WriterStep(w) \/ Refuse(w) PROVE RowsInv'
        BY <2>1, StatementStep
    <2>2. ASSUME NEW w \in Writers, Log(w) PROVE RowsInv'
        BY <2>2, LogStep
    <2>3. \A w \in Writers : ~LogFails(w)
        BY DEF LogFails
    <2>4. CASE Apply
        BY <2>4, ApplyStep
    <2>5. CASE Checkpoint
        BY <2>5, CheckpointStep
    <2>6. CASE Build
        BY <2>6, BuildStep
    <2>7. CASE Stage
        BY <2>7, StageStep
    <2>8. CASE Install
        BY <2>8, InstallStep
    <2>9. CASE FlipOnly
        BY <2>9, FlipOnlyStep
    <2>10. CASE Crash
        BY <2>10, CrashStep
    <2>11. CASE Open
        BY <2>11, OpenStep
    <2>12. CASE UNCHANGED vars
        <3>1. UNCHANGED <<up, halted, log, base, applied, pending, truth, wr, next, mem, image, dirs,
                          maybe, comp, liveX, copy>>
            BY <2>12 DEF vars, logState, statements, disk, rebuild
        <3>2. \A x : Good(x)' = Good(x) /\ Folded(x)' = Folded(x)
            BY <3>1 DEF Good, Folded, Recovered
        <3>3. Built(liveX, mem.s)' = Built(liveX, mem.s)
            BY <3>1
        <3>4. DataType' /\ GateInv' /\ WriterInv'
            BY <3>1 DEF RowsInv, DataType, GateInv, Inside, WriterInv, Carrying
        <3>5. FileInv' /\ MemInv'
            BY <3>1, <3>2 DEF RowsInv, FileInv, MemInv, Home
        <3>6. CopyInv'
            BY <3>1, <3>3 DEF RowsInv, CopyInv
        <3> QED BY <3>4, <3>5, <3>6 DEF RowsInv
    <2> QED BY <2>1, <2>2, <2>3, <2>4, <2>5, <2>6, <2>7, <2>8, <2>9, <2>10, <2>11, <2>12
            DEF Next, CommitStep, Taken, CompactorStep, FlipStep, FlipOnly
<1> QED BY <1>1, <1>2, FlipInvariance, PTL DEF Spec

(* RowsKept for every instance: whatever flips, rollbacks and restarts     *)
(* came between, the live rows of memory are those the statements left.    *)
THEOREM RowsAreKept ==
    ASSUME SyncMayFail = FALSE
    PROVE  Spec => []RowsKept
<1>1. RowsInv => RowsKept
    BY DEF RowsInv, MemInv, Good, RowsKept
<1> QED BY <1>1, RowsInvariance, PTL

(* CrashSafe for every instance: settle finds one generation in whatever a *)
(* crash leaves, and recovery makes the committed rows of it.              *)
THEOREM CrashesAreSafe ==
    ASSUME SyncMayFail = FALSE
    PROVE  Spec => []CrashSafe
<1>1. FlipInv /\ RowsInv => CrashSafe
    <2> SUFFICES ASSUME FlipInv, RowsInv, NEW d \in maybe
                 PROVE  /\ Home(d) # Absent /\ base <= image[Home(d)].mark
                        /\ Rows(Recovered(image[Home(d)].s, image[Home(d)].mark)) = truth
        BY DEF CrashSafe, Home
    <2>1. Home(d) \in 1 .. MaxGen /\ Good(Home(d))
        BY DEF FlipInv, DirInv, RowsInv, FileInv
    <2> QED BY <2>1 DEF Good, Folded, Absent
<1> QED BY <1>1, FlipInvariance, RowsInvariance, PTL

(* OrdinalsCurrent for every instance: no record is applied to, or         *)
(* replayed over, a generation whose ordinals it does not name.            *)
THEOREM OrdinalsAreCurrent ==
    ASSUME SyncMayFail = FALSE
    PROVE  Spec => []OrdinalsCurrent
<1>1. FlipInv /\ RowsInv => OrdinalsCurrent
    <2> SUFFICES ASSUME FlipInv, RowsInv PROVE OrdinalsCurrent
        OBVIOUS
    <2>1. ASSUME pending # None PROVE log[Len(log)].gen = mem.gen
        <3>1. up /\ pending \in Writers /\ wr[pending].pc = "sent"
            BY <2>1 DEF RowsInv, DataType, GateInv
        <3>2. pending \in Carrying /\ log[Len(log)] = wr[pending].rec
            BY <2>1, <3>1 DEF Carrying, RowsInv, MemInv
        <3> QED BY <3>2 DEF RowsInv, WriterInv, Fits
    <2>2. \A d \in maybe : \A l \in image[Home(d)].mark + 1 .. Len(log) : log[l].gen = Home(d)
        BY DEF RowsInv, FileInv, Good
    <2> QED BY <2>1, <2>2 DEF OrdinalsCurrent, Home
<1> QED BY <1>1, FlipInvariance, RowsInvariance, PTL

=============================================================================
