----------------------------- MODULE Compaction -----------------------------
(***************************************************************************)
(* Compaction of one collection (src/src/engine/compact.rs) against the    *)
(* statements and queries of src/src/query.rs: the write gate, the rebuild *)
(* beside running writes, the flip on the commit thread with its two       *)
(* renames, the epoch a query checks, and what settle makes of the         *)
(* directories a crash leaves.                                             *)
(*                                                                         *)
(* A row is the LSN of the record that installed it.  Ordinals count from  *)
(* 1 (the code's from 0), so a row's rank is its new ordinal.  A directory *)
(* is the number of the generation in it, 0 when it is absent.  The log is *)
(* durable once written (CommitLog) and a checkpoint is one step (Stores). *)
(***************************************************************************)
EXTENDS Integers, Sequences, FiniteSets

CONSTANTS
    Writers,     \* threads running a statement
    Queries,     \* threads opening a query
    Capacity,    \* ordinals of the collection
    MaxAttempts, \* MAX_WRITE_ATTEMPTS
    SyncMayFail, \* whether a failed fsync may leave its frame in the log
    MaxLog,      \* bound: records ever logged
    MaxGen       \* bound: generations

None == "none"

ASSUME CompactionAssumption ==
    /\ Capacity \in Nat /\ MaxAttempts \in Nat \ {0} /\ SyncMayFail \in BOOLEAN
    /\ MaxLog \in Nat /\ MaxGen \in Nat \ {0}
    /\ None \notin Writers

VARIABLES
    up,      \* whether the database is open
    halted,  \* the log refuses everything until reopened
    log,     \* every record written, its LSN its position
    base,    \* records up to base are truncated away
    applied, \* last_applied
    pending, \* the writer whose record is logged and not applied, or None
    truth,   \* the rows the log, read as statements about rows, leaves live
    wr,      \* per writer: its place in the statement, attempt and record
    next,    \* ordinals allocated
    mem,     \* the generation the commit thread writes
    image,   \* per generation, what is durable of it, and its watermark
    dirs,    \* the directories
    maybe,   \* the directories a crash may leave
    comp,    \* where the compactor, or the commit thread for it, stands
    liveX,   \* the liveness snapshot it copies
    copy,    \* the staged generation
    catalog, \* the generation readers are given
    epoch,   \* the flip epoch
    qs       \* per query: its place, the epoch it saw, the handles it holds

statements == <<wr, next>>
logState == <<log, base, applied, pending, truth>>
disk == <<image, dirs, maybe>>
rebuild == <<comp, liveX, copy>>
reading == <<catalog, epoch, qs>>
vars == <<up, halted, logState, statements, mem, disk, rebuild, reading>>

Absent == 0

\* A mutation retires the row it found at an ordinal and installs a row at a
\* fresh one; 0 stands for neither.  gen and victim say what it meant.
NoRecord == [retire |-> 0, install |-> 0, gen |-> 0, victim |-> 0]

Rows(s) == {s.rows[o] : o \in s.live}

Put(rows, o, row) ==
    [i \in 1 .. (IF o > Len(rows) THEN o ELSE Len(rows)) |->
        IF i = o THEN row ELSE IF i <= Len(rows) THEN rows[i] ELSE 0]

\* is_stale: the row to replace is gone and the replacement is not in place.
Stale(s, r) ==
    /\ r.retire # 0 /\ r.install # 0
    /\ r.retire \notin s.live /\ r.install \notin s.live

Absorb(s, lsn, r) ==
    IF Stale(s, r) THEN s
    ELSE [rows |-> IF r.install = 0 THEN s.rows ELSE Put(s.rows, r.install, lsn),
          live |-> (s.live \ {r.retire}) \cup ({r.install} \ {0})]

\* The records of l above from, in order.
Replay(l, s, from) ==
    LET r[i \in from .. Len(l)] == IF i = from THEN s ELSE Absorb(r[i - 1], i, l[i])
    IN  r[Len(l)]

\* Recovery: the records above the generation's own watermark.
Recovered(s, from) == Replay(log, s, from)

\* The same record read as a statement about rows.
Effect(rows, lsn, r) ==
    IF r.retire # 0 /\ r.install # 0 /\ r.victim \notin rows THEN rows
    ELSE (rows \ {r.victim}) \cup (IF r.install = 0 THEN {} ELSE {lsn})

\* A collection whose first row was deleted, checkpointed and truncated.
Seed == <<[NoRecord EXCEPT !.install = 1, !.gen = 1],
          [NoRecord EXCEPT !.install = 2, !.gen = 1],
          [NoRecord EXCEPT !.retire = 1, !.gen = 1, !.victim = 1]>>
SeedStores == [rows |-> <<1, 2>>, live |-> {2}]
Empty == [rows |-> <<>>, live |-> {}]
OutOfGate == [pc |-> "out", try |-> 0, rec |-> NoRecord]
NoQuery == [pc |-> "out", seen |-> 0, first |-> 0, second |-> 0]

Init ==
    /\ up = TRUE /\ halted = FALSE
    /\ log = Seed /\ base = Len(Seed) /\ applied = Len(Seed) /\ pending = None /\ truth = {2}
    /\ wr = [w \in Writers |-> OutOfGate] /\ next = 2
    /\ mem = [gen |-> 1, s |-> SeedStores]
    /\ image = [g \in 1 .. MaxGen |->
                   [s |-> IF g = 1 THEN SeedStores ELSE Empty, mark |-> IF g = 1 THEN Len(Seed) ELSE 0]]
    /\ dirs = [live |-> 1, staged |-> Absent, retired |-> Absent] /\ maybe = {dirs}
    /\ comp = "idle" /\ liveX = {} /\ copy = Empty
    /\ catalog = 1 /\ epoch = 0 /\ qs = [q \in Queries |-> NoQuery]

(***************************************************************************)
(* Statements.  A statement holds the gate shared from before it resolves  *)
(* its ordinals until its record is acknowledged, over every attempt.      *)
(***************************************************************************)
GateOpen == comp \in {"idle", "copy"}
Inside(w) == wr[w].pc # "out"

\* WriteGate::enter, outermost: waits while a flip holds or wants the gate.
Enter(w) ==
    /\ up /\ GateOpen /\ wr[w].pc = "out"
    /\ wr' = [wr EXCEPT ![w] = [pc |-> "resolve", try |-> 1, rec |-> NoRecord]]
    /\ UNCHANGED <<up, halted, logState, next, mem, disk, rebuild, reading>>

Budget == Len(log) + Cardinality({w \in Writers : wr[w].pc \in {"resolved", "sent"}}) < MaxLog

\* An INSERT, DELETE or UPDATE reads the rows it names and takes an ordinal.
Resolve(w) ==
    /\ wr[w].pc = "resolve" /\ Budget
    /\ \E retire \in {0} \cup mem.s.live, installs \in BOOLEAN :
          /\ retire # 0 \/ installs
          /\ installs => next < Capacity
          /\ LET r == [retire |-> retire, install |-> IF installs THEN next + 1 ELSE 0,
                       gen |-> mem.gen, victim |-> IF retire = 0 THEN 0 ELSE mem.s.rows[retire]]
             IN  wr' = [wr EXCEPT ![w].pc = "resolved", ![w].rec = r]
          /\ next' = IF installs THEN next + 1 ELSE next
    /\ UNCHANGED <<up, halted, logState, mem, disk, rebuild, reading>>

\* Nothing matches, no ordinal is left, or the log is halted.
NothingToDo(w) ==
    /\ wr[w].pc = "resolve"
    /\ wr' = [wr EXCEPT ![w] = OutOfGate]
    /\ UNCHANGED <<up, halted, logState, next, mem, disk, rebuild, reading>>

\* Variant: the inner call takes the lock a second time.
Send_Locks(w) ==
    /\ wr[w].pc = "resolved" /\ GateOpen
    /\ wr' = [wr EXCEPT ![w].pc = "sent"]
    /\ UNCHANGED <<up, halted, logState, next, mem, disk, rebuild, reading>>

\* The Db call under the statement enters the gate again, which takes no
\* lock, and hands its record to the log.
Send(w) ==
    /\ wr[w].pc = "resolved"
    /\ wr' = [wr EXCEPT ![w].pc = "sent"]
    /\ UNCHANGED <<up, halted, logState, next, mem, disk, rebuild, reading>>

\* Acknowledged: done, or read again after a conflict.
Leave(w) ==
    /\ wr[w].pc \in {"done", "conflict"}
    /\ wr' = [wr EXCEPT ![w] =
                 IF @.pc = "conflict" /\ @.try < MaxAttempts
                 THEN [pc |-> "resolve", try |-> @.try + 1, rec |-> NoRecord]
                 ELSE OutOfGate]
    /\ UNCHANGED <<up, halted, logState, next, mem, disk, rebuild, reading>>

(***************************************************************************)
(* The commit thread between control jobs.                                 *)
(***************************************************************************)
Flipping == comp \notin {"idle", "copy", "wait", "done"}
CommitFree == up /\ ~Flipping /\ pending = None

Log(w) ==
    /\ CommitFree /\ ~halted /\ wr[w].pc = "sent"
    /\ log' = Append(log, wr[w].rec)
    /\ truth' = Effect(truth, Len(log) + 1, wr[w].rec)
    /\ pending' = w
    /\ UNCHANGED <<up, halted, base, applied, statements, mem, disk, rebuild, reading>>

\* commit_batch fails: the caller is told, the frame may be in the file.
LogFails(w) ==
    /\ SyncMayFail /\ CommitFree /\ ~halted /\ wr[w].pc = "sent"
    /\ log' \in {log, Append(log, wr[w].rec)}
    /\ wr' = [wr EXCEPT ![w].pc = "done"]
    /\ UNCHANGED <<up, halted, base, applied, pending, truth, next, mem, disk, rebuild, reading>>

Refuse(w) ==
    /\ CommitFree /\ halted /\ wr[w].pc = "sent"
    /\ wr' = [wr EXCEPT ![w].pc = "done"]
    /\ UNCHANGED <<up, halted, logState, next, mem, disk, rebuild, reading>>

Apply ==
    /\ pending # None
    /\ LET r == log[Len(log)]
       IN  /\ mem' = [mem EXCEPT !.s = Absorb(@, Len(log), r)]
           /\ wr' = [wr EXCEPT ![pending].pc = IF Stale(mem.s, r) THEN "conflict" ELSE "done"]
    /\ applied' = Len(log) /\ pending' = None
    /\ UNCHANGED <<up, halted, log, base, truth, next, disk, rebuild, reading>>

\* Truncation is a minimum over all collections, so it may stop anywhere
\* below this one's watermark.
Checkpoint ==
    /\ CommitFree /\ ~halted /\ image[mem.gen].mark < applied
    /\ image' = [image EXCEPT ![mem.gen] = [s |-> mem.s, mark |-> applied]]
    /\ base' \in {base, applied}
    /\ UNCHANGED <<up, halted, log, applied, pending, truth, statements, mem, dirs, maybe,
                   rebuild, reading>>

(***************************************************************************)
(* The compactor's thread: Shared::compact and build.                      *)
(***************************************************************************)
\* A halted log would refuse the job; rebuilding for it is left out.
Start ==
    /\ up /\ comp = "idle" /\ ~halted /\ mem.gen < MaxGen
    /\ Cardinality(mem.s.live) # next
    /\ liveX' = mem.s.live /\ comp' = "copy"
    /\ UNCHANGED <<up, halted, logState, statements, mem, disk, copy, reading>>

\* An ordinal's place among those of S, and the ordinal at a place.
RankIn(S, o) == Cardinality({x \in S : x <= o})
AtRank(S, i) == CHOOSE o \in S : RankIn(S, o) = i
Change(ds) == dirs' = ds[Len(ds)] /\ maybe' = maybe \cup {ds[i] : i \in DOMAIN ds}
Drop(d, name) == [d EXCEPT ![name] = Absent]
Rename(d, from, to) == [d EXCEPT ![to] = d[from], ![from] = Absent]

Build ==
    /\ comp = "copy"
    /\ copy' = [rows |-> [i \in 1 .. Cardinality(liveX) |-> mem.s.rows[AtRank(liveX, i)]],
                live |-> 1 .. Cardinality(liveX)]
    /\ image' = [image EXCEPT ![mem.gen + 1] = [s |-> Empty, mark |-> 0]]
    /\ Change(<<Drop(dirs, "staged"), [dirs EXCEPT !.staged = mem.gen + 1]>>)
    /\ comp' = "wait"
    /\ UNCHANGED <<up, halted, logState, statements, mem, liveX, reading>>

BuildFails ==
    /\ comp = "copy"
    /\ Change(<<Drop(dirs, "staged")>>)
    /\ comp' = "idle"
    /\ UNCHANGED <<up, halted, logState, statements, mem, image, liveX, copy, reading>>

\* Variant: the gate closes to new writes without waiting for the old.
CloseGate_NoWait ==
    /\ comp = "wait" /\ pending = None
    /\ comp' = "stage"
    /\ UNCHANGED <<up, halted, logState, statements, mem, disk, liveX, copy, reading>>

\* WriteGate::close waits out every write in flight.
CloseGate ==
    /\ comp = "wait" /\ \A w \in Writers : ~Inside(w)
    /\ comp' = "stage"
    /\ UNCHANGED <<up, halted, logState, statements, mem, disk, liveX, copy, reading>>

Reopen ==
    /\ comp = "done"
    /\ comp' = "idle" /\ liveX' = {} /\ copy' = Empty
    /\ UNCHANGED <<up, halted, logState, statements, mem, disk, reading>>

(***************************************************************************)
(* The flip, on the commit thread with the gate closed: stage, swap_dirs,  *)
(* install.                                                                *)
(***************************************************************************)
Gone == liveX \ mem.s.live

Came == mem.s.live \ liveX
Extended(live) ==
    LET n == Cardinality(liveX)
        m == Cardinality(Came)
    IN  [rows |-> copy.rows \o [i \in 1 .. m |-> mem.s.rows[AtRank(Came, i)]],
         live |-> live \cup (n + 1 .. n + m)]

\* Variant: rows retired during the build stay.
CaughtUp_KeepsGone == Extended(copy.live)

\* Catch up with the writes made during the build: a row retired since is
\* at its rank in the copy, a row installed since goes to the end.
CaughtUp == Extended(copy.live \ {RankIn(liveX, o) : o \in Gone})

\* Variant: the copy is not made durable.
Stage_Volatile ==
    /\ comp = "stage"
    /\ copy' = CaughtUp
    /\ comp' = "rename"
    /\ UNCHANGED <<up, halted, logState, statements, mem, disk, liveX, reading>>

\* Make the copy durable, stamped with the flip's LSN.
Stage ==
    /\ comp = "stage"
    /\ copy' = CaughtUp
    /\ image' = [image EXCEPT ![mem.gen + 1] = [s |-> copy', mark |-> applied]]
    /\ comp' = "rename"
    /\ UNCHANGED <<up, halted, logState, statements, mem, dirs, maybe, liveX, reading>>

StageFails ==
    /\ comp = "stage"
    /\ Change(<<Drop(dirs, "staged")>>)
    /\ comp' = "done"
    /\ UNCHANGED <<up, halted, logState, statements, mem, image, liveX, copy, reading>>

RenameAway ==
    /\ comp = "rename" /\ dirs.retired = Absent
    /\ Change(<<Rename(dirs, "live", "retired")>>)
    /\ comp' = "away"
    /\ UNCHANGED <<up, halted, logState, statements, mem, image, liveX, copy, reading>>

SyncAway ==
    /\ comp = "away"
    /\ maybe' = {dirs} /\ comp' = "second"
    /\ UNCHANGED <<up, halted, logState, statements, mem, image, dirs, liveX, copy, reading>>

RenameIn ==
    /\ comp = "second"
    /\ Change(<<Rename(dirs, "staged", "live")>>)
    /\ comp' = "in"
    /\ UNCHANGED <<up, halted, logState, statements, mem, image, liveX, copy, reading>>

\* Committed; the old directory goes, or stays for settle.
SyncIn ==
    /\ comp = "in"
    /\ dirs' \in {dirs, Drop(dirs, "retired")} /\ maybe' = {dirs, dirs'}
    /\ comp' = "install"
    /\ UNCHANGED <<up, halted, logState, statements, mem, image, liveX, copy, reading>>

\* A rename or the first directory flush fails: the old directory is put
\* back and the copy dropped.
RollBack ==
    /\ comp \in {"rename", "away", "second"}
    /\ LET back == IF dirs.live = Absent THEN Rename(dirs, "retired", "live") ELSE dirs
       IN  Change(<<back, Drop(back, "staged")>>)
    /\ comp' = "done"
    /\ UNCHANGED <<up, halted, logState, statements, mem, image, liveX, copy, reading>>

\* Variant: the failure of the last flush is only reported.
Halt_RestoreOnly ==
    /\ comp \in {"away", "second", "in"}
    /\ halted' = (comp # "in") /\ comp' = "done"
    /\ UNCHANGED <<up, logState, statements, mem, disk, liveX, copy, reading>>

\* It cannot be put back, or the last flush fails: memory and disk may
\* disagree about which generation is the collection.
Halt ==
    /\ comp \in {"away", "second", "in"}
    /\ halted' = TRUE /\ comp' = "done"
    /\ UNCHANGED <<up, logState, statements, mem, disk, liveX, copy, reading>>

\* install, up to Epoch::publish's first increment.
Install ==
    /\ comp = "install"
    /\ mem' = [gen |-> mem.gen + 1, s |-> copy] /\ next' = Len(copy.rows)
    /\ epoch' = epoch + 1
    /\ comp' = "swap"
    /\ UNCHANGED <<up, halted, logState, wr, disk, liveX, copy, catalog, qs>>

Swap ==
    /\ comp = "swap"
    /\ catalog' = mem.gen /\ comp' = "even"
    /\ UNCHANGED <<up, halted, logState, statements, mem, disk, liveX, copy, epoch, qs>>

Published ==
    /\ comp = "even"
    /\ epoch' = epoch + 1 /\ comp' = "done"
    /\ UNCHANGED <<up, halted, logState, statements, mem, disk, liveX, copy, catalog, qs>>

(***************************************************************************)
(* Queries: the handles of one collection are resolved one at a time.      *)
(***************************************************************************)
InQuery(q, from, to) == up /\ qs[q].pc = from /\ qs' = [qs EXCEPT ![q] = to]
Unread == <<up, halted, logState, statements, mem, disk, rebuild, catalog, epoch>>

Begin(q) ==
    /\ epoch % 2 = 0
    /\ InQuery(q, "out", [NoQuery EXCEPT !.pc = "first", !.seen = epoch])
    /\ UNCHANGED Unread

TakeFirst(q) ==
    /\ InQuery(q, "first", [qs[q] EXCEPT !.pc = "second", !.first = catalog])
    /\ UNCHANGED Unread

TakeSecond(q) ==
    /\ InQuery(q, "second", [qs[q] EXCEPT !.pc = "check", !.second = catalog])
    /\ UNCHANGED Unread

\* Variant: the query compares parities only.
Check_Parity(q) ==
    /\ InQuery(q, "check", IF epoch % 2 = 0 THEN [qs[q] EXCEPT !.pc = "open"] ELSE NoQuery)
    /\ UNCHANGED Unread

\* Epoch::unchanged: keep the handles, or start again.
Check(q) ==
    /\ InQuery(q, "check", IF epoch = qs[q].seen THEN [qs[q] EXCEPT !.pc = "open"] ELSE NoQuery)
    /\ UNCHANGED Unread

EndQuery(q) ==
    /\ InQuery(q, "open", NoQuery)
    /\ UNCHANGED Unread

(***************************************************************************)
(* A crash leaves one of the layouts since the last flush of the           *)
(* directory; settle and recovery bring the collection back.               *)
(***************************************************************************)
Crash ==
    /\ up' = FALSE /\ halted' = FALSE
    /\ dirs' \in maybe /\ maybe' = {dirs'}
    /\ pending' = None /\ applied' = 0
    /\ wr' = [w \in Writers |-> OutOfGate] /\ next' = 0
    /\ mem' = [gen |-> 0, s |-> Empty]
    /\ comp' = "idle" /\ liveX' = {} /\ copy' = Empty
    /\ catalog' = 0 /\ epoch' = 0 /\ qs' = [q \in Queries |-> NoQuery]
    /\ UNCHANGED <<log, base, truth, image>>

\* The layout settle makes of d; no live directory means it refuses.
Settled(d) ==
    [live |-> IF d.live = Absent THEN d.retired ELSE d.live, staged |-> Absent, retired |-> Absent]

PutBack ==
    /\ ~up /\ dirs.live = Absent /\ dirs.retired # Absent
    /\ Change(<<Rename(dirs, "retired", "live")>>)
    /\ UNCHANGED <<up, halted, logState, statements, mem, image, rebuild, reading>>

Clean ==
    /\ ~up /\ dirs.live # Absent
    /\ \/ dirs.staged # Absent /\ Change(<<Drop(dirs, "staged")>>)
       \/ dirs.staged = Absent /\ dirs.retired # Absent /\ Change(<<Drop(dirs, "retired")>>)
    /\ UNCHANGED <<up, halted, logState, statements, mem, image, rebuild, reading>>

Later(i, j) == IF i > j THEN i ELSE j

Open ==
    /\ ~up /\ dirs.live # Absent /\ dirs = Settled(dirs)
    /\ LET g == dirs.live
       IN  /\ mem' = [gen |-> g, s |-> Recovered(image[g].s, Later(image[g].mark, base))]
           /\ catalog' = g
    /\ next' = Len(mem'.s.rows) /\ applied' = Len(log)
    /\ maybe' = {dirs} /\ up' = TRUE
    /\ UNCHANGED <<halted, log, base, pending, truth, wr, image, dirs, rebuild, epoch, qs>>

WriterStep(w) == Resolve(w) \/ NothingToDo(w) \/ Send(w) \/ Leave(w)
Taken(w) == Log(w) \/ LogFails(w) \/ Refuse(w)
CommitStep == (\E w \in Writers : Taken(w)) \/ Apply
FlipStep ==
    \/ Stage \/ StageFails \/ RenameAway \/ SyncAway \/ RenameIn \/ SyncIn
    \/ RollBack \/ Halt \/ Install \/ Swap \/ Published
CompactorStep == Build \/ BuildFails \/ CloseGate \/ FlipStep \/ Reopen
QueryStep(q) == Begin(q) \/ TakeFirst(q) \/ TakeSecond(q) \/ Check(q) \/ EndQuery(q)

Next ==
    \/ \E w \in Writers : Enter(w) \/ WriterStep(w)
    \/ CommitStep \/ Checkpoint
    \/ Start \/ CompactorStep
    \/ \E q \in Queries : QueryStep(q)
    \/ Crash \/ PutBack \/ Clean \/ Open

Spec == Init /\ [][Next]_vars

\* Each thread runs when it can: the statements in flight, the commit
\* thread, the compactor.  The channel to the log is first in, first out,
\* so a record in it is not passed over for ever.
FairSpec ==
    /\ Spec
    /\ \A w \in Writers : WF_vars(WriterStep(w)) /\ SF_vars(Taken(w))
    /\ WF_vars(CommitStep) /\ WF_vars(CompactorStep)
-----------------------------------------------------------------------------
\* Renumbering loses no row and brings none back: whatever flips, rollbacks
\* and restarts came between, the live rows are those the log, read as
\* statements about rows instead of ordinals, leaves.
RowsKept == up /\ pending = None => Rows(mem.s) = truth

\* Whatever crash comes now, settle finds one generation, and that with
\* what the log still holds is exactly the committed rows.
CrashSafe ==
    \A d \in maybe :
        LET g == Settled(d).live
        IN  /\ g # Absent
            /\ base <= image[g].mark
            /\ Rows(Recovered(image[g].s, image[g].mark)) = truth

\* No record reaches a generation whose ordinals it does not name: neither
\* the record being applied, nor any that recovery would replay.
OrdinalsCurrent ==
    /\ pending # None => log[Len(log)].gen = mem.gen
    /\ \A d \in maybe :
          LET g == Settled(d).live
          IN  g # Absent => \A l \in image[g].mark + 1 .. Len(log) : log[l].gen = g

\* The database goes on after a compaction only if memory and disk agree
\* about which generation is the collection.
HaltedOrAgreed == up /\ comp = "idle" => halted \/ dirs.live = mem.gen

\* A query that opened holds all its handles from one generation.
QueriesCoherent == \A q \in Queries : qs[q].pc = "open" => qs[q].first = qs[q].second

\* Neither waits for the other for ever: a compaction that started ends,
\* however many statements are in flight, and a statement inside the gate
\* leaves it, also when a flip waits for it (WriteGate).
GatePasses ==
    /\ comp # "idle" ~> comp = "idle"
    /\ \A w \in Writers : Inside(w) ~> ~Inside(w)
=============================================================================
