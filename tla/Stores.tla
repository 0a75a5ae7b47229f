------------------------------- MODULE Stores -------------------------------
(***************************************************************************)
(* The three stores of every collection behind the write-ahead log: the    *)
(* flat vector index, the metadata index (liveness and key postings) and   *)
(* the tuple store, as the commit thread folds records into them, makes    *)
(* them durable one at a time and replays the log into them at open        *)
(* (src/src/engine/mod.rs).                                                *)
(*                                                                         *)
(* The log itself is CommitLog's: here a record is in `hist` once it is    *)
(* durable, and nothing below `base` is left in the file.  What a row      *)
(* holds is the LSN of the record that wrote it, and its primary key.      *)
(* Collections are fixed (DDL is not part of this module), compaction is   *)
(* off, so ordinals keep their meaning.                                    *)
(***************************************************************************)
EXTENDS Naturals, Sequences, FiniteSets, FiniteSetsExt, Functions

CONSTANTS
    Collections,  \* collection ids
    Keyed,        \* the collections that declare a primary key
    Keys,         \* primary-key values
    Capacity,     \* ordinals of a collection: 0 .. Capacity-1
    MaxLog        \* bound: records ever logged

ASSUME StoresAssumption ==
    /\ IsFiniteSet(Collections) /\ Keyed \subseteq Collections
    /\ Capacity \in Nat \ {0}
    /\ MaxLog \in Nat

VARIABLES
    hist,     \* every durable record, its LSN its position
    base,     \* the file holds the records above base
    pc,       \* "down" | "replay" | "idle" | "apply" | "checkpoint"
    applied,  \* last_applied
    step,     \* how many stores the current record has reached
    pending,  \* the collections the checkpoint has left, in the order it takes
    synced,   \* how many stores of the first of them are durable
    mem,      \* the stores as the commit thread and the readers see them
    disk,     \* the stores as a restart finds them
    catalog,  \* the watermark in catalog.snap
    floors,   \* per collection, the watermark below which apply skips
    free,     \* ordinals no record of this session has used
    seen,     \* ordinals some snapshot of this session has held
    truth,    \* history: the rows the acknowledged verdicts leave live
    skewed    \* history: collections replayed against a newer liveness

vars == <<hist, base, pc, applied, step, pending, synced, mem, disk, catalog,
          floors, free, seen, truth, skewed>>

Ordinals == 0 .. Capacity - 1
Lsn == 0 .. MaxLog

EmptyStores == [flat  |-> [o \in Ordinals |-> 0], count |-> 0,
                live  |-> {}, post |-> [o \in Ordinals |-> {}],
                tuple |-> [o \in Ordinals |-> 0],
                flatLsn |-> 0, metaLsn |-> 0, tupleLsn |-> 0]

\* A record retires ordinals and installs rows; a row is its key here.
InsertRecord(c, o, k) == [kind |-> "insert", coll |-> c, retire |-> {},
                          install |-> [x \in {o} |-> k]]
DeleteRecord(c, R)    == [kind |-> "delete", coll |-> c, retire |-> R,
                          install |-> [x \in {} |-> 0]]
UpdateRecord(c, R, I) == [kind |-> "update", coll |-> c, retire |-> R,
                          install |-> I]
Installed(r) == DOMAIN r.install
KeyAt(l, o) == hist[l].install[o]

(***************************************************************************)
(* What the commit thread decides about a record before it writes it, from *)
(* the live ordinals and the keys posted for each.                         *)
(***************************************************************************)
\* Variant: only the caller's own check.
DuplicateKey_CallerOnly(live, post, r) == FALSE

DuplicateKey(live, post, r) ==
    /\ r.kind = "insert"
    /\ r.coll \in Keyed
    /\ \E o \in live, x \in Installed(r) : r.install[x] \in post[o]

IsStale(live, r) ==
    /\ r.kind = "update"
    /\ ~ r.retire \subseteq live
    /\ Installed(r) \cap live = {}

Refused(live, post, r) == DuplicateKey(live, post, r) \/ IsStale(live, r)
Verdict(m, r) == IF Refused(m.live, m.post, r) THEN "refused" ELSE "applied"

\* The verdict a record gets where the rows of `truth` are the live ones.
TruePosts(c) == [o \in Ordinals |-> {KeyAt(p[2], o) : p \in {q \in truth[c] : q[1] = o}}]
TrueLive(c) == {p[1] : p \in truth[c]}

\* Variant: liveness is published before the data is there.
FanOut_LivenessFirst == <<"meta", "flat", "tuple">>

\* The fan-out of record r at LSN l, store by store.
FanOut == <<"flat", "tuple", "meta">>

WriteAt(m, r, l) ==
    [m EXCEPT !.flat = [o \in Ordinals |-> IF o \in Installed(r) THEN l ELSE @[o]],
              !.count = Max({@} \cup {o + 1 : o \in Installed(r)})]
WriteRow(m, r, l) ==
    [m EXCEPT !.tuple = [o \in Ordinals |-> IF o \in Installed(r) THEN l ELSE @[o]]]
ApplyMutation(m, r) ==
    [m EXCEPT !.live = (@ \cup Installed(r)) \ r.retire,
              !.post = [o \in Ordinals |->
                           IF o \in Installed(r) THEN @[o] \cup {r.install[o]} ELSE @[o]]]
Absorb(m, store, r, l) ==
    CASE store = "flat"  -> WriteAt(m, r, l)
      [] store = "tuple" -> WriteRow(m, r, l)
      [] store = "meta"  -> ApplyMutation(m, r)
Advance(m, l) == [m EXCEPT !.flatLsn = Max({@, l}), !.metaLsn = Max({@, l}),
                           !.tupleLsn = Max({@, l})]

\* The whole fan-out of one record, verdict first.
Fold(m, r, l) ==
    IF Verdict(m, r) = "refused" THEN Advance(m, l)
    ELSE Advance(Absorb(Absorb(Absorb(m, FanOut[1], r, l), FanOut[2], r, l), FanOut[3], r, l), l)

\* Variant: the furthest store speaks for all three.
Watermark_Furthest(s) == Max({s.flatLsn, s.metaLsn, s.tupleLsn})

Watermark(s) == Min({s.flatLsn, s.metaLsn, s.tupleLsn})

Init ==
    /\ hist = <<>> /\ base = 0 /\ pc = "idle" /\ applied = 0
    /\ step = 0 /\ pending = <<>> /\ synced = 0
    /\ mem = [c \in Collections |-> EmptyStores]
    /\ disk = [c \in Collections |-> EmptyStores]
    /\ catalog = 0
    /\ floors = [c \in Collections |-> 0]
    /\ free = [c \in Collections |-> Ordinals]
    /\ seen = [c \in Collections |-> {}]
    /\ truth = [c \in Collections |-> {}]
    /\ skewed = {}

(***************************************************************************)
(* Statements.  Callers run concurrently with each other, so a record may  *)
(* use any ordinal the allocator could have handed out before, and may     *)
(* name any row some snapshot of this session has held.  A batch is the    *)
(* run of records committed before the thread starts applying.             *)
(***************************************************************************)
Commit(r) ==
    /\ pc = "idle" /\ Len(hist) < MaxLog
    /\ LET v == IF Refused(TrueLive(r.coll), TruePosts(r.coll), r)
                THEN "refused" ELSE "applied"
           l == Len(hist) + 1
           now == IF v = "refused" THEN truth[r.coll]
                  ELSE {p \in truth[r.coll] \cup (Installed(r) \X {l}) : p[1] \notin r.retire}
       IN  /\ hist' = Append(hist, [kind |-> r.kind, coll |-> r.coll, retire |-> r.retire,
                                    install |-> r.install, verdict |-> v])
           /\ truth' = [truth EXCEPT ![r.coll] = now]
    /\ free' = [free EXCEPT ![r.coll] = @ \ Installed(r)]
    /\ UNCHANGED <<base, pc, applied, step, pending, synced, mem, disk, catalog,
                   floors, seen, skewed>>

\* Db::insert; the caller's own key check is a diagnostic, not a guard.
Insert(c, o, k) == o \in free[c] /\ Commit(InsertRecord(c, o, k))

\* Db::delete and a DELETE statement.
Delete(c, R) == R # {} /\ R \subseteq seen[c] /\ Commit(DeleteRecord(c, R))

\* Db::update_rows: a consecutive run of fresh ordinals takes a copy of every
\* matched row, in order; an UPDATE cannot change the key.
Copies(c, R, first) ==
    [o \in first .. first + Cardinality(R) - 1 |->
        LET source == CHOOSE x \in R : Cardinality({y \in R : y < x}) = o - first
        IN  KeyAt(mem[c].tuple[source], source)]

Update(c, R, first) ==
    /\ R # {} /\ R \subseteq seen[c] /\ \A o \in R : mem[c].tuple[o] # 0
    /\ first .. first + Cardinality(R) - 1 \subseteq free[c]
    /\ Commit(UpdateRecord(c, R, Copies(c, R, first)))

(***************************************************************************)
(* IndexApplier::apply on the commit thread, one store at a time: readers  *)
(* run beside it.                                                          *)
(***************************************************************************)
BeginApply ==
    /\ pc = "idle" /\ applied < Len(hist)
    /\ pc' = "apply"
    /\ UNCHANGED <<hist, base, applied, step, pending, synced, mem, disk, catalog,
                   floors, free, seen, truth, skewed>>

ApplyDone(l) == /\ applied' = l /\ step' = 0
                /\ pc' = IF l = Len(hist) THEN "idle" ELSE "apply"

Refuse ==
    /\ pc = "apply" /\ step = 0
    /\ LET l == applied + 1
           r == hist[l]
       IN  /\ Verdict(mem[r.coll], r) = "refused"
           /\ mem' = [mem EXCEPT ![r.coll] = Advance(@, l)]
           /\ ApplyDone(l)
    /\ UNCHANGED <<hist, base, pending, synced, disk, catalog, floors, free, seen,
                   truth, skewed>>

Reach ==
    /\ pc = "apply"
    /\ LET l == applied + 1
           r == hist[l]
           m == Absorb(mem[r.coll], FanOut[step + 1], r, l)
       IN  /\ step = 0 => Verdict(mem[r.coll], r) = "applied"
           /\ IF step + 1 = Len(FanOut)
              THEN mem' = [mem EXCEPT ![r.coll] = Advance(m, l)] /\ ApplyDone(l)
              ELSE /\ mem' = [mem EXCEPT ![r.coll] = m]
                   /\ step' = step + 1
                   /\ UNCHANGED <<applied, pc>>
           /\ seen' = [seen EXCEPT ![r.coll] = @ \cup m.live]
    /\ UNCHANGED <<hist, base, pending, synced, disk, catalog, floors, free, truth, skewed>>

(***************************************************************************)
(* IndexApplier::checkpoint: the collections in any order, the stores of   *)
(* each in this order, then the catalog, then the log is truncated to the  *)
(* lowest of all these watermarks.                                         *)
(***************************************************************************)
SyncOrder == <<"flat", "meta", "tuple">>

Orders == {q \in [1 .. Cardinality(Collections) -> Collections] : IsInjective(q)}

BeginCheckpoint ==
    /\ pc = "idle" /\ applied = Len(hist)
    /\ pc' = "checkpoint" /\ pending' \in Orders /\ synced' = 0
    /\ UNCHANGED <<hist, base, applied, step, mem, disk, catalog, floors, free, seen,
                   truth, skewed>>

MakeDurable(d, store, m) ==
    CASE store = "flat"  -> [d EXCEPT !.flat = m.flat, !.count = m.count, !.flatLsn = m.flatLsn]
      [] store = "meta"  -> [d EXCEPT !.live = m.live, !.post = m.post, !.metaLsn = m.metaLsn]
      [] store = "tuple" -> [d EXCEPT !.tuple = m.tuple, !.tupleLsn = m.tupleLsn]

SyncStore ==
    /\ pc = "checkpoint" /\ pending # <<>>
    /\ LET c == Head(pending)
       IN  disk' = [disk EXCEPT ![c] = MakeDurable(@, SyncOrder[synced + 1], mem[c])]
    /\ IF synced + 1 = Len(SyncOrder)
       THEN synced' = 0 /\ pending' = Tail(pending)
       ELSE synced' = synced + 1 /\ pending' = pending
    /\ UNCHANGED <<hist, base, pc, applied, step, mem, catalog, floors, free, seen,
                   truth, skewed>>

\* catalog.snap, stamped with last_applied.
SyncCatalog ==
    /\ pc = "checkpoint" /\ pending = <<>> /\ synced = 0
    /\ catalog' = applied /\ synced' = 1
    /\ UNCHANGED <<hist, base, pc, applied, step, pending, mem, disk, floors, free,
                   seen, truth, skewed>>

\* Variant: the global high-water mark.
DurableThrough_Highest == Max({Watermark(disk[c]) : c \in Collections} \cup {catalog})

DurableThrough == Min({Watermark(disk[c]) : c \in Collections} \cup {catalog})

Truncate ==
    /\ pc = "checkpoint" /\ pending = <<>> /\ synced = 1
    /\ base' = Max({base, DurableThrough})
    /\ pc' = "idle" /\ synced' = 0
    /\ UNCHANGED <<hist, applied, step, pending, mem, disk, catalog, floors, free,
                   seen, truth, skewed>>

\* Any step of it fails: what is durable so far stays, nothing is truncated.
CheckpointFails ==
    /\ pc = "checkpoint" /\ ~ (pending = <<>> /\ synced = 1)
    /\ pc' = "idle" /\ pending' = <<>> /\ synced' = 0
    /\ UNCHANGED <<hist, base, applied, step, mem, disk, catalog, floors, free, seen,
                   truth, skewed>>

(***************************************************************************)
(* A crash loses the memory.  The vector file is a memory map: any of the  *)
(* slots written since its last checkpoint may have reached the disk, its  *)
(* header has not.                                                         *)
(***************************************************************************)
Crash ==
    /\ pc # "down"
    /\ pc' = "down"
    /\ disk' \in {[c \in Collections |->
                     [disk[c] EXCEPT !.flat = [o \in Ordinals |->
                         IF o \in S[c] THEN mem[c].flat[o] ELSE @[o]]]] :
                  S \in [Collections -> SUBSET Ordinals]}
    /\ mem' = [c \in Collections |-> EmptyStores]
    /\ step' = 0 /\ pending' = <<>> /\ synced' = 0 /\ applied' = 0
    /\ floors' = [c \in Collections |-> 0]
    /\ free' = [c \in Collections |-> {}] /\ seen' = [c \in Collections |-> {}]
    /\ UNCHANGED <<hist, base, catalog, truth, skewed>>

\* Records a replay judges again although the liveness it judges them by is
\* already newer than they are.
Rejudged(c) == {l \in disk[c].tupleLsn + 1 .. disk[c].metaLsn :
                  /\ hist[l].coll = c
                  /\ \/ hist[l].kind = "insert" /\ c \in Keyed
                     \/ hist[l].kind = "update" /\ Cardinality(hist[l].retire) > 1
                     \/ hist[l].kind = "update" /\ hist[l].verdict = "refused"}

\* Db::open up to Wal::start.
Open ==
    /\ pc = "down"
    /\ pc' = "replay"
    /\ mem' = disk
    /\ floors' = [c \in Collections |-> Watermark(disk[c])]
    /\ applied' = DurableThrough
    /\ skewed' = skewed \cup {c \in Collections : Rejudged(c) # {}}
    /\ UNCHANGED <<hist, base, step, pending, synced, disk, catalog, free, seen, truth>>

\* Recovery hands the applier each record of the file above skip_through.
NextFrame == Max({applied, base}) + 1
Replay ==
    /\ pc = "replay" /\ NextFrame <= Len(hist)
    /\ LET l == NextFrame
           r == hist[l]
       IN  mem' = IF l <= floors[r.coll] THEN mem
                  ELSE [mem EXCEPT ![r.coll] = Fold(@, r, l)]
    /\ applied' = NextFrame
    /\ UNCHANGED <<hist, base, pc, step, pending, synced, disk, catalog, floors, free,
                   seen, truth, skewed>>

\* Variant: the allocators start at the number of live rows.
Ready_SeedsFromLive ==
    /\ pc = "replay" /\ NextFrame > Len(hist)
    /\ pc' = "idle"
    /\ free' = [c \in Collections |-> {o \in Ordinals : o >= Cardinality(mem[c].live)}]
    /\ seen' = [c \in Collections |-> mem[c].live]
    /\ UNCHANGED <<hist, base, applied, step, pending, synced, mem, disk, catalog,
                   floors, truth, skewed>>

\* The end of Db::open: the allocators start at the vector count.
Ready ==
    /\ pc = "replay" /\ NextFrame > Len(hist)
    /\ pc' = "idle"
    /\ free' = [c \in Collections |-> {o \in Ordinals : o >= mem[c].count}]
    /\ seen' = [c \in Collections |-> mem[c].live]
    /\ UNCHANGED <<hist, base, applied, step, pending, synced, mem, disk, catalog,
                   floors, truth, skewed>>

Statement ==
    \E c \in Collections :
        \/ \E o \in Ordinals, k \in Keys : Insert(c, o, k)
        \/ \E R \in SUBSET Ordinals : Delete(c, R)
        \/ \E R \in SUBSET Ordinals, first \in Ordinals : Update(c, R, first)

Next ==
    \/ Statement
    \/ BeginApply \/ Refuse \/ Reach
    \/ BeginCheckpoint \/ SyncStore \/ SyncCatalog \/ Truncate \/ CheckpointFails
    \/ Crash \/ Open \/ Replay \/ Ready

Spec == Init /\ [][Next]_vars
-----------------------------------------------------------------------------
\* A row as the three stores give it to a query: its vector, its values, and
\* the keys that find it.
Rows(m) == {[ord |-> o, vector |-> IF o < m.count THEN m.flat[o] ELSE 0,
             values |-> m.tuple[o], keys |-> m.post[o]] : o \in m.live}
TrueRows(c) == {[ord |-> p[1], vector |-> p[2], values |-> p[2],
                 keys |-> {KeyAt(p[2], p[1])}] : p \in truth[c]}
Settled == pc \in {"idle", "checkpoint"} /\ applied = Len(hist)

\* Three-store convergence: whatever crashed, and however far each store had
\* got on disk, once the log is applied the three stores hold the rows the
\* acknowledged verdicts leave, all three the same rows.  The code breaks
\* this after a replay judged by newer liveness; the README has the run.
Converged == Settled => \A c \in Collections : Rows(mem[c]) = TrueRows(c)

\* The same, leaving out the collections a replay judged by newer liveness.
ConvergedInStep ==
    Settled => \A c \in Collections \ skewed : Rows(mem[c]) = TrueRows(c)

\* A query that takes a snapshot at any moment, in the middle of a fan-out
\* included, finds every row of it in the vector file and the tuple store,
\* both written by one record.
SnapshotReadable ==
    pc \in {"idle", "apply", "checkpoint"} =>
        \A c \in Collections \ skewed : \A o \in mem[c].live :
            /\ o < mem[c].count
            /\ mem[c].flat[o] = mem[c].tuple[o] /\ mem[c].flat[o] # 0

\* A record leaves the log only when every store of its collection is durable
\* past it, after checkpoints that stop half-way too.
TruncationSafe ==
    \A l \in 1 .. base : l <= Watermark(disk[hist[l].coll])

\* No two live rows of a keyed collection hold the same key, although
\* callers race on it and updates copy rows that may be gone.
KeysUnique ==
    \A c \in Keyed \ skewed : \A o, p \in mem[c].live :
        pc \in {"idle", "apply", "checkpoint"} /\ o # p
            => KeyAt(mem[c].tuple[o], o) # KeyAt(mem[c].tuple[p], p)

\* The data of a row a snapshot has held is never overwritten while the
\* database is open, so a query keeps reading the row it was promised.
RowsStable ==
    [][pc # "down" /\ pc' # "down" =>
        \A c \in Collections : \A o \in seen[c] :
            mem'[c].flat[o] = mem[c].flat[o] /\ mem'[c].tuple[o] = mem[c].tuple[o]]_vars

\* Every replay of a record reaches the verdict its caller was given (the code
\* breaks this for a skewed collection; the README has the run).
SameVerdict ==
    [][pc = "replay" /\ pc' = "replay" =>
        LET r == hist[NextFrame]
        IN  NextFrame > floors[r.coll] => Verdict(mem[r.coll], r) = r.verdict]_vars
=============================================================================
