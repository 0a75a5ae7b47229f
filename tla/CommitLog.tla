------------------------------ MODULE CommitLog ------------------------------
(***************************************************************************)
(* The write-ahead log of flats, src/src/wal/wal.rs.                       *)
(*                                                                         *)
(* Writer threads send their record over one mpsc channel and block for    *)
(* the answer; a single commit thread drains the channel into a batch,     *)
(* gives the batch LSNs, writes and fsyncs it once, applies it to the      *)
(* stores and answers.  Checkpoint, truncation and compaction jobs arrive  *)
(* on the same channel and run between two batches.                        *)
(*                                                                         *)
(* What is simplified:                                                     *)
(*   - a record is the call that appends it; the stores behind the trait   *)
(*     Apply are the set of frames they have absorbed, and `disk' is the   *)
(*     part of it that has been made durable, with its watermark;          *)
(*   - the log file is a set of frames ordered by LSN.  Bytes a partial    *)
(*     write leaves behind are a `tear': recovery never reads beyond it;   *)
(*   - a frame that was written and not fsynced may or may not survive a   *)
(*     power cut; after a failed fsync no later fsync vouches for it.      *)
(***************************************************************************)
EXTENDS Integers, Sequences, FiniteSets

CONSTANTS Calls,     \* the append calls; each is made at most once
          MaxBatch,  \* MAX_BATCH
          Faults,    \* the failures that may happen, among FaultKinds
          MaxFaults  \* bound: how many kinds of them in one behaviour

None == -1

Controls == {"truncate", "checkpoint", "job"}

(* "torn": a power cut leaves a partial frame, or loses an earlier frame   *)
(* of the file and keeps a later one.  "short": write_all fails half way.  *)
(* "sync": sync_data fails.  "rename": a power cut undoes the rename of a  *)
(* truncation.  "reopen": the open after that rename fails.  "replayed": a *)
(* power cut takes a frame that an earlier recovery read from the page     *)
(* cache alone, and that a store has since made durable.                   *)
FaultKinds == {"torn", "short", "sync", "rename", "reopen", "replayed"}

ASSUME CommitLogAssumption ==
    /\ MaxBatch \in Nat \ {0} /\ MaxFaults \in Nat
    /\ Faults \subseteq FaultKinds
    /\ Calls \cap Controls = {}

Frame == [lsn : Nat, op : Calls]
LogFile == [good : SUBSET Frame,   \* frames recovery reaches
            lost : SUBSET Frame,   \* frames behind the tear
            torn : BOOLEAN]

VARIABLES
    pc,         \* where the commit thread is; "down": the process is not running
    queue,      \* the channel
    batch,      \* drained appends, not yet numbered
    ctl,        \* {} or the control op that ended the drain
    todo,       \* numbered frames still to be written, synced or applied
    nextLsn,
    poison,     \* None, or the LSN the poison names
    upTo,       \* truncation point of the truncation under way
    mem,        \* frames the stores have absorbed since the process started
    log,        \* the file at the log's path
    unsynced,   \* its frames no fsync has covered
    suspect,    \* its frames whose fsync failed
    attached,   \* whether the append handle is the file at the log's path
    shadow,     \* files a not yet durable rename has replaced
    disk,       \* the stores' durable state: frames, and recovery's watermark
    status,     \* of each call
    committed,  \* history: the frames whose fsync succeeded
    harm        \* history: the faults that have happened

thread == <<pc, queue, batch, ctl, todo, nextLsn, poison, upTo>>
file   == <<log, unsynced, suspect, attached, shadow>>
vars   == <<thread, mem, file, disk, status, committed, harm>>

Up == pc # "down"
Waiting == {c \in Calls : status[c] = "waiting"}
OpsOf(fs) == {f.op : f \in fs}
Least(f, fs) == f \in fs /\ \A g \in fs : f.lsn <= g.lsn

(* fail_batch, or the answers of one apply: every call of S gets answer a. *)
Answered(S, a) == [c \in Calls |-> IF c \in S THEN a ELSE status[c]]

(* The faults ks happen now. *)
Harm(ks) ==
    /\ ks \subseteq Faults /\ Cardinality(harm \cup ks) <= MaxFaults
    /\ harm' = harm \cup ks

Init ==
    /\ pc = "recv" /\ queue = <<>> /\ batch = <<>> /\ ctl = {}
    /\ todo = {} /\ nextLsn = 1 /\ poison = None /\ upTo = 0
    /\ mem = {}
    /\ log = [good |-> {}, lost |-> {}, torn |-> FALSE]
    /\ unsynced = {} /\ suspect = {} /\ attached = TRUE /\ shadow = {}
    /\ disk = [ops |-> {}, wm |-> 0]
    /\ status = [c \in Calls |-> "new"]
    /\ committed = {} /\ harm = {}

-----------------------------------------------------------------------------
(* The callers: WalHandle::append, and truncate, checkpoint and control.   *)

Submit(c) ==
    /\ Up /\ status[c] = "new"
    /\ queue' = Append(queue, c)
    /\ status' = [status EXCEPT ![c] = "waiting"]
    /\ UNCHANGED <<pc, batch, ctl, todo, nextLsn, poison, upTo, mem, file, disk,
                   committed, harm>>

(* One request of each kind is outstanding at a time: the flusher waits    *)
(* for its checkpoint and the compactor for its job.                       *)
Request(k) ==
    /\ Up /\ k \notin ctl /\ \A i \in 1..Len(queue) : queue[i] # k
    /\ queue' = Append(queue, k)
    /\ UNCHANGED <<pc, batch, ctl, todo, nextLsn, poison, upTo, mem, file, disk,
                   status, committed, harm>>

-----------------------------------------------------------------------------
(* commit_loop: the drain.                                                 *)

(* Mutant: a control op that comes first is folded into a batch. *)
Receive_FoldsControl ==
    /\ pc = "recv" /\ queue # <<>>
    /\ queue' = Tail(queue) /\ batch' = <<Head(queue)>> /\ pc' = "drain"
    /\ UNCHANGED <<ctl, todo, nextLsn, poison, upTo, mem, file, disk, status, committed,
                   harm>>

Receive ==
    /\ pc = "recv" /\ queue # <<>>
    /\ queue' = Tail(queue)
    /\ \/ /\ Head(queue) \in Calls
          /\ batch' = <<Head(queue)>> /\ pc' = "drain" /\ UNCHANGED ctl
       \/ /\ Head(queue) \in Controls
          /\ ctl' = {Head(queue)} /\ pc' = "control" /\ UNCHANGED batch
    /\ UNCHANGED <<todo, nextLsn, poison, upTo, mem, file, disk, status, committed, harm>>

Drain ==
    /\ pc = "drain" /\ Len(batch) < MaxBatch /\ queue # <<>>
    /\ queue' = Tail(queue)
    /\ \/ /\ Head(queue) \in Calls
          /\ batch' = Append(batch, Head(queue)) /\ UNCHANGED <<pc, ctl>>
       \/ /\ Head(queue) \in Controls
          /\ ctl' = {Head(queue)} /\ pc' = "commit" /\ UNCHANGED batch
    /\ UNCHANGED <<todo, nextLsn, poison, upTo, mem, file, disk, status, committed, harm>>

(* Mutant: a batch is committed only when it is full. *)
DrainEnds_WaitsForFull ==
    /\ pc = "drain" /\ Len(batch) = MaxBatch
    /\ pc' = "commit"
    /\ UNCHANGED <<queue, batch, ctl, todo, nextLsn, poison, upTo, mem, file, disk,
                   status, committed, harm>>

DrainEnds ==
    /\ pc = "drain" /\ (Len(batch) = MaxBatch \/ queue = <<>>)
    /\ pc' = "commit"
    /\ UNCHANGED <<queue, batch, ctl, todo, nextLsn, poison, upTo, mem, file, disk,
                   status, committed, harm>>

-----------------------------------------------------------------------------
(* commit_batch.                                                           *)

BatchOps == {batch[i] : i \in 1..Len(batch)}

Refuse ==
    /\ pc = "commit" /\ poison # None
    /\ status' = Answered(BatchOps, "poisoned")
    /\ batch' = <<>> /\ pc' = "control"
    /\ UNCHANGED <<queue, ctl, todo, nextLsn, poison, upTo, mem, file, disk,
                   committed, harm>>

(* write_frame fails: nothing reached the file, the LSNs are reclaimed.    *)
FrameFails ==
    /\ pc = "commit" /\ poison = None
    /\ status' = Answered(BatchOps, "failed")
    /\ batch' = <<>> /\ pc' = "control"
    /\ UNCHANGED <<queue, ctl, todo, nextLsn, poison, upTo, mem, file, disk,
                   committed, harm>>

AssignLsns ==
    /\ pc = "commit" /\ poison = None
    /\ todo' = {[lsn |-> nextLsn + i - 1, op |-> batch[i]] : i \in 1..Len(batch)}
    /\ nextLsn' = nextLsn + Len(batch)
    /\ batch' = <<>> /\ pc' = "write"
    /\ UNCHANGED <<queue, ctl, poison, upTo, mem, file, disk, status, committed, harm>>

(* Bytes go to the end of the file: behind the tear, if there is one.      *)
Appended(l, fs) == IF l.torn THEN [l EXCEPT !.lost = @ \cup fs]
                             ELSE [l EXCEPT !.good = @ \cup fs]

(* A handle on an unlinked file writes where nobody will ever read.        *)
AppendToFile(fs) ==
    IF attached THEN log' = Appended(log, fs) /\ unsynced' = unsynced \cup fs
                ELSE UNCHANGED <<log, unsynced>>

Write ==
    /\ pc = "write"
    /\ AppendToFile(todo) /\ pc' = "sync"
    /\ UNCHANGED <<queue, batch, ctl, todo, nextLsn, poison, upTo, mem, suspect,
                   attached, shadow, disk, status, committed, harm>>

(* Mutant: a failed fsync reclaims the LSNs, as ARCHITECTURE.md:163 has it. *)
BatchFails_Reclaims ==
    /\ status' = Answered(OpsOf(todo), "failed")
    /\ nextLsn' = nextLsn - Cardinality(todo)
    /\ todo' = {} /\ pc' = "control"
    /\ UNCHANGED <<queue, batch, ctl, poison, upTo, mem, shadow, attached, disk,
                   committed>>

(* fail_batch after the commit point was not reached.  next_lsn keeps its  *)
(* new value, and what reached the file stays there.                       *)
BatchFails ==
    /\ status' = Answered(OpsOf(todo), "failed")
    /\ todo' = {} /\ pc' = "control"
    /\ UNCHANGED <<queue, batch, ctl, nextLsn, poison, upTo, mem, shadow, attached,
                   disk, committed>>

(* write_all fails before frame f is whole; the frames before it are in    *)
(* the file, and so may be some bytes of f.                                *)
WriteFails ==
    /\ pc = "write" /\ attached
    /\ \E f \in todo, partial \in BOOLEAN :
          LET before == {g \in todo : g.lsn < f.lsn} IN
          /\ log' = [Appended(log, before) EXCEPT !.torn = @ \/ partial]
          /\ unsynced' = unsynced \cup before
    /\ BatchFails /\ Harm({"short"})
    /\ UNCHANGED suspect

(* Mutant: the waiters are acked by the fsync, before their record is applied. *)
Sync_Acks ==
    /\ pc = "sync"
    /\ unsynced' = {} /\ committed' = committed \cup todo /\ pc' = "apply"
    /\ status' = Answered(OpsOf(todo), "ok")
    /\ UNCHANGED <<queue, batch, ctl, todo, nextLsn, poison, upTo, mem, log, suspect,
                   attached, shadow, disk, harm>>

(* sync_data covers the whole file, but not what an earlier call failed on. *)
Sync ==
    /\ pc = "sync"
    /\ unsynced' = {} /\ committed' = committed \cup todo /\ pc' = "apply"
    /\ UNCHANGED <<queue, batch, ctl, todo, nextLsn, poison, upTo, mem, log, suspect,
                   attached, shadow, disk, status, harm>>

SyncFails ==
    /\ pc = "sync"
    /\ suspect' = suspect \cup unsynced /\ unsynced' = {}
    /\ BatchFails /\ Harm({"sync"})
    /\ UNCHANGED log

(* Applied, judged stale or judged a duplicate: all are a successful       *)
(* commit (Outcome), and the stores have absorbed the record.              *)
Apply ==
    /\ pc = "apply"
    /\ \E f \in todo :
          /\ Least(f, todo)
          /\ mem' = mem \cup {f}
          /\ status' = Answered({f.op}, "ok")
          /\ todo' = todo \ {f}
          /\ pc' = IF todo = {f} THEN "control" ELSE "apply"
    /\ UNCHANGED <<queue, batch, ctl, nextLsn, poison, upTo, file, disk, committed, harm>>

(* Mutant: the rest of the batch is applied past the hole. *)
ApplyFails_GoesOn ==
    /\ pc = "apply"
    /\ \E f \in todo :
          /\ Least(f, todo) /\ poison' = f.lsn
          /\ mem' = mem \cup (todo \ {f})
          /\ status' = [Answered(OpsOf(todo), "ok") EXCEPT ![f.op] = "poisoned"]
    /\ todo' = {} /\ pc' = "control"
    /\ UNCHANGED <<queue, batch, ctl, nextLsn, upTo, file, disk, committed, harm>>

(* The first failed apply poisons the log; the rest of the batch, though   *)
(* durable, is refused unapplied.                                          *)
ApplyFails ==
    /\ pc = "apply"
    /\ \E f \in todo : Least(f, todo) /\ poison' = f.lsn
    /\ status' = Answered(OpsOf(todo), "poisoned")
    /\ todo' = {} /\ pc' = "control"
    /\ UNCHANGED <<queue, batch, ctl, nextLsn, upTo, mem, file, disk, committed, harm>>

-----------------------------------------------------------------------------
(* The control op that ended the drain, if any.                            *)

NoControl ==
    /\ pc = "control" /\ ctl = {}
    /\ pc' = "recv"
    /\ UNCHANGED <<queue, batch, ctl, todo, nextLsn, poison, upTo, mem, file, disk,
                   status, committed, harm>>

ControlDone == ctl' = {} /\ pc' = "recv"

ControlRefused ==
    /\ pc = "control" /\ ctl # {} /\ poison # None
    /\ ControlDone
    /\ UNCHANGED <<queue, batch, todo, nextLsn, poison, upTo, mem, file, disk, status,
                   committed, harm>>

(* Mutant: a control op does not look at the poison. *)
Running_IgnoresPoison(k) == pc = "control" /\ ctl = {k}

Running(k) == pc = "control" /\ ctl = {k} /\ poison = None

(* What a checkpoint may claim: the watermark of some store, which is the  *)
(* LSN of the last record that store absorbed.                             *)
Watermarks == {t \in {disk.wm} \cup {f.lsn : f \in mem} : disk.wm <= t}

TruncateRequest ==
    /\ Running("truncate")
    /\ \E t \in {disk.wm} \cup {f.lsn : f \in log.good} :
          t <= disk.wm /\ upTo' = t
    /\ ctl' = {} /\ pc' = "truncate"
    /\ UNCHANGED <<queue, batch, todo, nextLsn, poison, mem, file, disk, status,
                   committed, harm>>

(* Apply::checkpoint makes every store durable, and its last step fsyncs   *)
(* the directory (persist_catalog), which settles a pending rename.        *)
Checkpoint ==
    /\ Running("checkpoint")
    /\ \E t \in Watermarks :
          /\ disk' = [ops |-> mem, wm |-> t]
          /\ upTo' = t
          /\ pc' = IF t = 0 THEN "recv" ELSE "truncate"
    /\ ctl' = {} /\ shadow' = {}
    /\ UNCHANGED <<queue, batch, todo, nextLsn, poison, mem, log, unsynced, suspect,
                   attached, status, committed, harm>>

(* A part of what the stores hold becomes durable: some stores of a        *)
(* checkpoint that then fails, or the generation a compaction installs.    *)
SomeDurable ==
    \E ops \in SUBSET mem, t \in Watermarks :
       /\ disk.ops \subseteq ops /\ {f \in mem : f.lsn <= t} \subseteq ops
       /\ disk' = [ops |-> ops, wm |-> t]

(* Mutant: a failed checkpoint still truncates to the best watermark. *)
CheckpointFails_Truncates ==
    /\ Running("checkpoint")
    /\ SomeDurable
    /\ \E t \in Watermarks : upTo' = t
    /\ ctl' = {} /\ pc' = "truncate"
    /\ UNCHANGED <<queue, batch, todo, nextLsn, poison, mem, file, status, committed,
                   harm>>

CheckpointFails ==
    /\ Running("checkpoint")
    /\ SomeDurable /\ ControlDone
    /\ UNCHANGED <<queue, batch, todo, nextLsn, poison, upTo, mem, file, status,
                   committed, harm>>

(* Apply::control: a compaction flip.  It returns no truncation point.     *)
Job ==
    /\ Running("job")
    /\ SomeDurable /\ ControlDone
    /\ UNCHANGED <<queue, batch, todo, nextLsn, poison, upTo, mem, file, status,
                   committed, harm>>

(* The flip failed after its commit point: Apply::halted.                  *)
JobHalts ==
    /\ Running("job")
    /\ SomeDurable /\ ControlDone /\ poison' = nextLsn - 1
    /\ UNCHANGED <<queue, batch, todo, nextLsn, upTo, mem, file, status, committed, harm>>

-----------------------------------------------------------------------------
(* truncate_wal.                                                           *)

(* The copy walks the old file by frame lengths alone.  Past a tear it     *)
(* reads garbage: it may stop, carry the tear over, or fall back in step   *)
(* with the frame boundaries and keep some of the frames it finds.         *)
Kept(l, t) ==
    LET above == {f \in l.good : f.lsn > t} IN
    IF ~l.torn THEN {[good |-> above, lost |-> {}, torn |-> FALSE]}
    ELSE {[good |-> above, lost |-> s, torn |-> TRUE] :
              s \in SUBSET {f \in l.lost : f.lsn > t}}
         \cup
         {[good |-> above \cup s, lost |-> {}, torn |-> FALSE] :
              s \in SUBSET {f \in l.lost : f.lsn > t}}

Replaced ==
    /\ \E l \in Kept(log, upTo) : log' = l
    /\ unsynced' = {} /\ suspect' = {}
    /\ shadow' = shadow \cup {log}

Truncate ==
    /\ pc = "truncate"
    /\ Replaced /\ attached' = TRUE /\ pc' = "recv"
    /\ UNCHANGED <<queue, batch, ctl, todo, nextLsn, poison, upTo, mem, disk, status,
                   committed, harm>>

(* Reading the old file or writing the copy fails: the log is as it was.   *)
TruncateFails ==
    /\ pc = "truncate" /\ pc' = "recv"
    /\ UNCHANGED <<queue, batch, ctl, todo, nextLsn, poison, upTo, mem, file, disk,
                   status, committed, harm>>

(* The rename succeeded and the open after it did not.                     *)
ReopenFails ==
    /\ pc = "truncate"
    /\ Replaced /\ attached' = FALSE /\ pc' = "recv"
    /\ Harm({"reopen"})
    /\ UNCHANGED <<queue, batch, ctl, todo, nextLsn, poison, upTo, mem, disk, status,
                   committed>>

-----------------------------------------------------------------------------
(* The process ends and starts again.                                      *)

ProcessEnds ==
    /\ Up
    /\ pc' = "down" /\ queue' = <<>> /\ batch' = <<>> /\ ctl' = {} /\ todo' = {}
    /\ poison' = None /\ upTo' = 0 /\ mem' = {} /\ nextLsn' = 1
    /\ attached' = TRUE
    /\ status' = Answered(Waiting, "crashed")
    /\ UNCHANGED <<disk, committed>>

(* The process dies and the page cache survives. *)
Kill ==
    /\ Up /\ ProcessEnds
    /\ UNCHANGED <<log, unsynced, suspect, shadow, harm>>

(* The frames `gone' are lost; a partial frame may be left in their place. *)
Remains(l, gone, partial) ==
    LET here  == {f \in l.good : \A g \in gone \cap l.good : f.lsn < g.lsn}
        after == (l.good \cup l.lost) \ (here \cup gone)
        torn  == l.torn \/ partial \/ after # {}
    IN  [good |-> here, lost |-> after, torn |-> torn]

PowerLoss ==
    /\ ProcessEnds
    /\ \E gone \in SUBSET (unsynced \cup suspect), partial \in BOOLEAN :
          LET l == Remains(log, gone, partial)
              new == (IF l.torn /\ l # log THEN {"torn"} ELSE {}) \cup
                     (IF \E f \in gone \cap disk.ops : f.lsn > disk.wm
                      THEN {"replayed"} ELSE {})
          IN  /\ partial => gone # {}
              /\ log' = l /\ Harm(new)
    /\ unsynced' = {} /\ suspect' = {} /\ shadow' = {}

(* The power cut undoes a rename no fsync of the directory has covered.    *)
RenameUndone ==
    /\ Up /\ ProcessEnds
    /\ \E l \in shadow : log' = l
    /\ unsynced' = {} /\ suspect' = {} /\ shadow' = {}
    /\ Harm({"rename"})

(* Mutant: recovery resumes the LSNs from the surviving frames alone. *)
Restart_ForgetsFloor ==
    /\ pc = "down"
    /\ mem' = disk.ops \cup {f \in log.good : f.lsn > disk.wm}
    /\ \E n \in {1} \cup {f.lsn + 1 : f \in log.good} :
          /\ \A f \in log.good : f.lsn < n
          /\ nextLsn' = n
    /\ pc' = "recv"
    /\ UNCHANGED <<queue, batch, ctl, todo, poison, upTo, file, disk, status, committed,
                   harm>>

(* recover, then Wal::start.  A tear stays in the file: start opens it for *)
(* appending at its end.  (An apply that fails here leaves all as it is.)  *)
Restart ==
    /\ pc = "down"
    /\ mem' = disk.ops \cup {f \in log.good : f.lsn > disk.wm}
    /\ \E n \in {disk.wm + 1} \cup {f.lsn + 1 : f \in log.good} :
          /\ disk.wm < n /\ \A f \in log.good : f.lsn < n
          /\ nextLsn' = n
    /\ pc' = "recv"
    /\ UNCHANGED <<queue, batch, ctl, todo, poison, upTo, file, disk, status, committed,
                   harm>>

(* recv blocks on an empty channel. *)
Idle ==
    /\ pc = "recv" /\ queue = <<>> /\ Waiting = {}
    /\ UNCHANGED vars

CommitThread ==
    \/ Receive \/ Drain \/ DrainEnds
    \/ Refuse \/ FrameFails \/ AssignLsns
    \/ Write \/ WriteFails \/ Sync \/ SyncFails \/ Apply \/ ApplyFails
    \/ NoControl \/ ControlRefused \/ TruncateRequest
    \/ Checkpoint \/ CheckpointFails \/ Job \/ JobHalts
    \/ Truncate \/ TruncateFails \/ ReopenFails

Next ==
    \/ \E c \in Calls : Submit(c)
    \/ \E k \in Controls : Request(k)
    \/ CommitThread
    \/ Kill \/ PowerLoss \/ RenameUndone \/ Restart
    \/ Idle

Spec == Init /\ [][Next]_vars

(* The commit thread is an operating system thread that is never blocked   *)
(* but in recv; nothing obliges the callers, the faults or a restart.      *)
FairSpec == Spec /\ WF_vars(CommitThread)

-----------------------------------------------------------------------------
(* What a crash at this instant leaves for the next start.                 *)
Recoverable == disk.ops \cup {f \in log.good : f.lsn > disk.wm}

(* Type correctness of the commit thread, the file and the histories.      *)
TypeOK ==
    /\ pc \in {"recv", "drain", "commit", "write", "sync", "apply", "control",
               "truncate", "down"}
    /\ queue \in Seq(Calls \cup Controls) /\ batch \in Seq(Calls)
    /\ ctl \subseteq Controls /\ todo \subseteq Frame
    /\ nextLsn \in Nat /\ poison \in Nat \cup {None} /\ upTo \in Nat
    /\ mem \subseteq Frame
    /\ log \in LogFile /\ unsynced \subseteq Frame /\ suspect \subseteq Frame
    /\ attached \in BOOLEAN /\ shadow \subseteq LogFile
    /\ disk \in [ops : SUBSET Frame, wm : Nat]
    /\ status \in [Calls -> {"new", "waiting", "ok", "failed", "poisoned", "crashed"}]
    /\ committed \subseteq Frame /\ harm \subseteq FaultKinds

(* The durability contract: a record whose fsync succeeded, hence every    *)
(* record append has answered Ok for and the one a poison names, is found  *)
(* by the next recovery or is already durable in the stores, whatever      *)
(* checkpoints, truncations, poisonings and crashes come between.          *)
Durable ==
    harm \subseteq {"sync"} => committed \subseteq Recoverable

(* A store's watermark is one number, so absorbing a record claims every   *)
(* committed record below it: while a committed record is missing from the *)
(* stores nothing above it is in them (commit_batch refuses the rest of    *)
(* the batch, the loop refuses all later ones).                            *)
PrefixApplied ==
    Up /\ harm \subseteq {"sync"} =>
        \A f \in committed, g \in mem : f.lsn < g.lsn => f \in mem

(* Visible and durable coincide: a call that was answered Ok is readable   *)
(* from then on, across checkpoints, truncations and restarts.             *)
ReadYourWrites ==
    Up /\ harm \subseteq {"sync"} =>
        \A c \in Calls : status[c] = "ok" => c \in OpsOf(mem)

(* The counter is ahead of every LSN in use: in the file (a frame whose    *)
(* fsync failed is still there), in the stores, or ever committed.         *)
FreshLsn ==
    Up /\ harm \subseteq {"sync"} =>
        \A f \in log.good \cup mem \cup disk.ops \cup committed : f.lsn < nextLsn

(* Once poisoned, the log neither accepts nor sheds a record and the       *)
(* stores move no watermark until the process ends.                        *)
PoisonFreezes ==
    [][poison # None /\ pc' # "down" =>
          UNCHANGED <<poison, nextLsn, log, committed, mem, disk>>]_vars

(* Nobody waits for ever: every append is answered, poisoned log or not.   *)
AppendAnswered == \A c \in Calls : (status[c] = "waiting") ~> (status[c] # "waiting")

(* The log keeps the promise of DurableLog.  A call is kept once its frame  *)
(* is fsynced in the log, or is in the stores' durable state.              *)
KeptOps == OpsOf(disk.ops \cup {f \in log.good \ unsynced : f.lsn > disk.wm})

Promise == INSTANCE DurableLog
    WITH open <- Up, answer <- status, kept <- KeptOps, visible <- OpsOf(mem)

ImplementsDurableLog == Promise!Spec

(* "Ack every waiter with the error": what append answered with an I/O     *)
(* error does not come back (a failed fsync breaks this: README).          *)
FailedStaysOut == \A f \in mem : status[f.op] # "failed"

(* The contract of Durable with no fault excused (a torn tail breaks it).  *)
AckedSurvives ==
    Up => \A c \in Calls : status[c] = "ok" => c \in OpsOf(mem)
=============================================================================
