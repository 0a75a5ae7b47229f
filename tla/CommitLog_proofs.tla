--------------------------- MODULE CommitLog_proofs ---------------------------
(***************************************************************************)
(* Theorems about CommitLog, for every set of calls, every batch size and  *)
(* every set of faults.                                                    *)
(*                                                                         *)
(* The argument: as long as the only faults so far are failed fsyncs       *)
(* (Excused), the file has no tear and the append handle is the file at    *)
(* the log's path.  Every committed frame is then in the file above the    *)
(* stores' durable watermark or durable in the stores; the only way to     *)
(* move that watermark is a checkpoint, which runs when nothing committed  *)
(* is missing from the stores; and truncation stays below the watermark.   *)
(* Without faults each step is one of DurableLog's or leaves it alone: a   *)
(* waiting call is in one place only, so it is answered once, and nobody   *)
(* was answered for what a crash loses.                                    *)
(***************************************************************************)
EXTENDS CommitLog, TLAPS

Excused == harm \subseteq {"sync"}

Writing == pc \in {"write", "sync", "apply"}

(* Control: which thread states exclude which values. *)
ControlInv ==
    /\ ~Writing => todo = {}
    /\ pc = "down" => poison = None
    /\ Writing \/ pc = "truncate" => poison = None
    /\ pc = "truncate" => upTo <= disk.wm

(* The file has no tear and is the one being written. *)
FileInv ==
    /\ log.torn = FALSE /\ log.lost = {} /\ attached = TRUE
    /\ unsynced \subseteq log.good /\ suspect \subseteq log.good
    /\ committed \cap (unsynced \cup suspect) = {}

(* The numbered frames that are on their way into the file and the stores. *)
TodoInv ==
    /\ \A f, g \in todo : f.lsn = g.lsn => f = g
    /\ \A f \in todo : disk.wm < f.lsn /\ f.lsn < nextLsn
    /\ \A f \in todo, g \in mem \cup disk.ops \cup suspect : g.lsn < f.lsn
    /\ pc \in {"write", "sync"} => \A f \in todo, g \in committed : g.lsn < f.lsn
    /\ pc = "write" => \A f \in todo, g \in log.good : g.lsn < f.lsn
    /\ pc \in {"sync", "apply"} => todo \subseteq log.good
    /\ pc = "apply" => todo \subseteq committed

(* What the stores hold, durably and not. *)
StoreInv ==
    /\ \A f \in disk.ops : f.lsn <= disk.wm \/ f \in log.good
    /\ Up => disk.ops \subseteq mem
    /\ Up => mem \subseteq Recoverable
    /\ Up /\ poison = None => committed \subseteq mem \cup todo
    /\ Up => \A f \in committed \ mem, g \in mem : g.lsn < f.lsn

LsnInv ==
    Up => /\ disk.wm < nextLsn
          /\ \A f \in log.good \cup mem \cup disk.ops \cup committed : f.lsn < nextLsn

AckInv ==
    \A c \in Calls : status[c] = "ok" =>
        \E f \in committed : f.op = c /\ (Up => f \in mem)

SafeInv ==
    /\ committed \subseteq Recoverable
    /\ FileInv /\ TodoInv /\ StoreInv /\ LsnInv /\ AckInv

IInv ==
    /\ TypeOK /\ ControlInv
    /\ Excused => SafeInv

-----------------------------------------------------------------------------
(* The file operators return files. *)
LEMMA AppendedType ==
    ASSUME NEW l \in LogFile, NEW fs \in SUBSET Frame
    PROVE  Appended(l, fs) \in LogFile
<1> l = [good |-> l.good, lost |-> l.lost, torn |-> l.torn]
    BY DEF LogFile
<1>1. CASE l.torn
    <2> Appended(l, fs) = [good |-> l.good, lost |-> l.lost \cup fs, torn |-> l.torn]
        BY <1>1 DEF Appended, LogFile
    <2> QED BY DEF LogFile
<1>2. CASE ~l.torn
    <2> Appended(l, fs) = [good |-> l.good \cup fs, lost |-> l.lost, torn |-> l.torn]
        BY <1>2 DEF Appended, LogFile
    <2> QED BY DEF LogFile
<1> QED BY <1>1, <1>2

LEMMA KeptType ==
    ASSUME NEW l \in LogFile, NEW t \in Nat, NEW k \in Kept(l, t)
    PROVE  k \in LogFile
<1> DEFINE above == {f \in l.good : f.lsn > t}
           beyond == {f \in l.lost : f.lsn > t}
<1>1. above \subseteq Frame /\ beyond \subseteq Frame
    BY DEF LogFile
<1>2. CASE ~l.torn
    <2> k = [good |-> above, lost |-> {}, torn |-> FALSE]
        BY <1>2 DEF Kept
    <2> QED BY <1>1 DEF LogFile
<1>3. CASE l.torn
    <2>1. \/ k \in {[good |-> above, lost |-> s, torn |-> TRUE] : s \in SUBSET beyond}
          \/ k \in {[good |-> above \cup s, lost |-> {}, torn |-> FALSE] :
                       s \in SUBSET beyond}
        BY <1>3, Zenon DEF Kept
    <2>2. PICK s \in SUBSET beyond :
              \/ k = [good |-> above, lost |-> s, torn |-> TRUE]
              \/ k = [good |-> above \cup s, lost |-> {}, torn |-> FALSE]
        BY <2>1
    <2>3. s \subseteq Frame /\ above \cup s \subseteq Frame
        BY <1>1
    <2> HIDE DEF above, beyond
    <2>4. CASE k = [good |-> above, lost |-> s, torn |-> TRUE]
        BY <1>1, <2>3, <2>4 DEF LogFile
    <2>5. CASE k = [good |-> above \cup s, lost |-> {}, torn |-> FALSE]
        BY <2>3, <2>5 DEF LogFile
    <2> QED BY <2>2, <2>4, <2>5
<1> QED BY <1>2, <1>3

LEMMA RemainsType ==
    ASSUME NEW l \in LogFile, NEW gone \in SUBSET Frame, NEW partial \in BOOLEAN
    PROVE  Remains(l, gone, partial) \in LogFile
BY DEF Remains, LogFile

-----------------------------------------------------------------------------
(* Every step keeps every variable in its type. *)
LEMMA TypeStep == TypeOK /\ [Next]_vars => TypeOK'
<1> SUFFICES ASSUME TypeOK, [Next]_vars PROVE TypeOK'
    OBVIOUS
<1> USE CommitLogAssumption DEF TypeOK, Frame, LogFile, Controls, None, file
<1>1. ASSUME NEW c \in Calls, Submit(c) PROVE TypeOK'
    BY <1>1 DEF Submit
<1>2. ASSUME NEW k \in Controls, Request(k) PROVE TypeOK'
    BY <1>2 DEF Request
<1>3. CASE Receive
    <2>1. Head(queue) \in Calls \cup Controls /\ queue' \in Seq(Calls \cup Controls)
        BY <1>3 DEF Receive
    <2>2. Head(queue) \in Calls => <<Head(queue)>> \in Seq(Calls)
        BY <2>1
    <2> QED BY <1>3, <2>1, <2>2 DEF Receive
<1>4. CASE Drain
    <2>1. Head(queue) \in Calls \cup Controls /\ queue' \in Seq(Calls \cup Controls)
        BY <1>4 DEF Drain
    <2>2. Head(queue) \in Calls => Append(batch, Head(queue)) \in Seq(Calls)
        BY <2>1
    <2> QED BY <1>4, <2>1, <2>2 DEF Drain
<1>5. CASE DrainEnds
    BY <1>5 DEF DrainEnds
<1>6. CASE Refuse
    BY <1>6 DEF Refuse, BatchOps, Answered
<1>7. CASE FrameFails
    BY <1>7 DEF FrameFails, BatchOps, Answered
<1>8. CASE AssignLsns
    BY <1>8 DEF AssignLsns
<1>9. CASE Write
    BY <1>9, AppendedType DEF Write, AppendToFile
<1>10. CASE WriteFails
    <2>1. PICK f \in todo, partial \in BOOLEAN :
              LET before == {g \in todo : g.lsn < f.lsn} IN
              /\ log' = [Appended(log, before) EXCEPT !.torn = @ \/ partial]
              /\ unsynced' = unsynced \cup before
        BY <1>10 DEF WriteFails
    <2>2. log' \in LogFile /\ unsynced' \subseteq Frame
        <3> DEFINE l == Appended(log, {g \in todo : g.lsn < f.lsn})
        <3>1. l \in LogFile
            BY AppendedType
        <3>2. log' = [l EXCEPT !.torn = @ \/ partial]
            BY <2>1
        <3> HIDE DEF l
        <3> QED BY <2>1, <3>1, <3>2
    <2> QED BY <1>10, <2>2 DEF WriteFails, BatchFails, Answered, OpsOf, Harm, FaultKinds
<1>11. CASE Sync
    BY <1>11 DEF Sync
<1>12. CASE SyncFails
    BY <1>12 DEF SyncFails, BatchFails, Answered, OpsOf, Harm, FaultKinds
<1>13. CASE Apply
    BY <1>13 DEF Apply, Answered
<1>14. CASE ApplyFails
    BY <1>14 DEF ApplyFails, Answered, OpsOf
<1>15. CASE NoControl
    BY <1>15 DEF NoControl
<1>16. CASE ControlRefused
    BY <1>16 DEF ControlRefused, ControlDone
<1>17. CASE TruncateRequest
    BY <1>17 DEF TruncateRequest, Running
<1>18. CASE Checkpoint
    BY <1>18 DEF Checkpoint, Running, Watermarks
<1>19. CASE CheckpointFails
    BY <1>19 DEF CheckpointFails, Running, Watermarks, SomeDurable, ControlDone
<1>20. CASE Job
    BY <1>20 DEF Job, Running, Watermarks, SomeDurable, ControlDone
<1>21. CASE JobHalts
    BY <1>21 DEF JobHalts, Running, Watermarks, SomeDurable, ControlDone
<1>22. CASE Truncate
    BY <1>22, KeptType DEF Truncate, Replaced
<1>23. CASE TruncateFails
    BY <1>23 DEF TruncateFails
<1>24. CASE ReopenFails
    BY <1>24, KeptType DEF ReopenFails, Replaced, Harm, FaultKinds
<1>25. CASE Kill
    BY <1>25 DEF Kill, ProcessEnds, Answered, Waiting
<1>26. CASE PowerLoss
    <2> log' \in LogFile /\ harm' \subseteq FaultKinds
        <3>1. PICK gone \in SUBSET (unsynced \cup suspect), partial \in BOOLEAN,
                       new \in SUBSET FaultKinds :
                  log' = Remains(log, gone, partial) /\ Harm(new)
            BY <1>26 DEF PowerLoss, FaultKinds
        <3>2. log' \in LogFile
            BY <3>1, RemainsType
        <3>3. harm' \subseteq FaultKinds
            BY <3>1 DEF Harm
        <3> QED BY <3>2, <3>3
    <2> QED BY <1>26 DEF PowerLoss, ProcessEnds, Answered, Waiting
<1>27. CASE RenameUndone
    BY <1>27 DEF RenameUndone, ProcessEnds, Answered, Waiting, Harm, FaultKinds
<1>28. CASE Restart
    BY <1>28 DEF Restart
<1>29. CASE Idle
    BY <1>29 DEF Idle, vars, thread, file
<1>30. CASE UNCHANGED vars
    BY <1>30 DEF vars, thread
<1>. QED
    BY <1>1, <1>2, <1>3, <1>4, <1>5, <1>6, <1>7, <1>8, <1>9, <1>10, <1>11, <1>12, <1>13, <1>14, <1>15, <1>16, <1>17, <1>18, <1>19, <1>20, <1>21, <1>22, <1>23, <1>24, <1>25, <1>26, <1>27, <1>28, <1>29, <1>30 DEF Next, CommitThread

-----------------------------------------------------------------------------
(* Every step keeps the relation between the thread's state and its data. *)
LEMMA ControlStep == TypeOK /\ ControlInv /\ [Next]_vars => ControlInv'
<1> SUFFICES ASSUME TypeOK, ControlInv, [Next]_vars PROVE ControlInv'
    OBVIOUS
<1> USE DEF TypeOK, ControlInv, Writing, None, file
<1>1. ASSUME NEW c \in Calls, Submit(c) PROVE ControlInv'
    BY <1>1 DEF Submit
<1>2. ASSUME NEW k \in Controls, Request(k) PROVE ControlInv'
    BY <1>2 DEF Request
<1>3. CASE Receive
    BY <1>3 DEF Receive
<1>4. CASE Drain
    BY <1>4 DEF Drain
<1>5. CASE DrainEnds
    BY <1>5 DEF DrainEnds
<1>6. CASE Refuse
    BY <1>6 DEF Refuse, BatchOps, Answered
<1>7. CASE FrameFails
    BY <1>7 DEF FrameFails, BatchOps, Answered
<1>8. CASE AssignLsns
    BY <1>8 DEF AssignLsns
<1>9. CASE Write
    BY <1>9 DEF Write, AppendToFile, Appended
<1>10. CASE WriteFails
    BY <1>10 DEF WriteFails, AppendToFile, Appended, BatchFails, Answered, OpsOf, Harm
<1>11. CASE Sync
    BY <1>11 DEF Sync
<1>12. CASE SyncFails
    BY <1>12 DEF SyncFails, BatchFails, Answered, OpsOf, Harm
<1>13. CASE Apply
    BY <1>13 DEF Apply, Answered, Least
<1>14. CASE ApplyFails
    BY <1>14 DEF ApplyFails, Answered, OpsOf, Least
<1>15. CASE NoControl
    BY <1>15 DEF NoControl
<1>16. CASE ControlRefused
    BY <1>16 DEF ControlRefused, ControlDone
<1>17. CASE TruncateRequest
    BY <1>17 DEF TruncateRequest, Running
<1>18. CASE Checkpoint
    <2>1. PICK t \in Watermarks :
              disk'.wm = t /\ upTo' = t /\ pc' = IF t = 0 THEN "recv" ELSE "truncate"
        BY <1>18 DEF Checkpoint
    <2>2. t \in Nat
        BY DEF Watermarks, Frame
    <2> QED BY <1>18, <2>1, <2>2 DEF Checkpoint, Running
<1>19. CASE CheckpointFails
    BY <1>19 DEF CheckpointFails, Running, Watermarks, SomeDurable, ControlDone
<1>20. CASE Job
    BY <1>20 DEF Job, Running, Watermarks, SomeDurable, ControlDone
<1>21. CASE JobHalts
    BY <1>21 DEF JobHalts, Running, Watermarks, SomeDurable, ControlDone
<1>22. CASE Truncate
    BY <1>22 DEF Truncate, Replaced, Kept
<1>23. CASE TruncateFails
    BY <1>23 DEF TruncateFails
<1>24. CASE ReopenFails
    BY <1>24 DEF ReopenFails, Replaced, Kept, Harm
<1>25. CASE Kill
    BY <1>25 DEF Kill, ProcessEnds, Answered, Waiting
<1>26. CASE PowerLoss
    BY <1>26 DEF PowerLoss, ProcessEnds, Answered, Waiting, Remains, Harm
<1>27. CASE RenameUndone
    BY <1>27 DEF RenameUndone, ProcessEnds, Answered, Waiting, Harm
<1>28. CASE Restart
    BY <1>28 DEF Restart
<1>29. CASE Idle
    BY <1>29 DEF Idle, vars, thread, file
<1>30. CASE UNCHANGED vars
    BY <1>30 DEF vars, thread
<1>. QED
    BY <1>1, <1>2, <1>3, <1>4, <1>5, <1>6, <1>7, <1>8, <1>9, <1>10, <1>11, <1>12, <1>13, <1>14, <1>15, <1>16, <1>17, <1>18, <1>19, <1>20, <1>21, <1>22, <1>23, <1>24, <1>25, <1>26, <1>27, <1>28, <1>29, <1>30 DEF Next, CommitThread

-----------------------------------------------------------------------------
(* Harm only grows. *)
LEMMA HarmGrows == [Next]_vars /\ Excused' => Excused
<1> SUFFICES ASSUME [Next]_vars PROVE harm \subseteq harm'
    BY DEF Excused
<1>1. CASE CommitThread
    BY <1>1 DEF CommitThread, Receive, Drain, DrainEnds, Refuse, FrameFails, AssignLsns,
        Write, WriteFails, Sync, SyncFails, Apply, ApplyFails, NoControl, ControlRefused,
        TruncateRequest, Checkpoint, CheckpointFails, Job, JobHalts, Truncate,
        TruncateFails, ReopenFails, Harm
<1>2. CASE Kill \/ PowerLoss \/ RenameUndone \/ Restart \/ Idle
    BY <1>2 DEF Kill, PowerLoss, RenameUndone, Restart, Idle, Harm, vars
<1> QED
    BY <1>1, <1>2 DEF Next, Submit, Request, vars

(* Every step that leaves the behaviour excused keeps it safe. *)
LEMMA SafeStep ==
    TypeOK /\ ControlInv /\ SafeInv /\ [Next]_vars /\ Excused' => SafeInv'
<1> SUFFICES ASSUME TypeOK, ControlInv, SafeInv, [Next]_vars, Excused' PROVE SafeInv'
    OBVIOUS
<1> USE CommitLogAssumption
    DEF TypeOK, ControlInv, Writing, None, file, Frame, LogFile, Up, Excused, SafeInv,
        FileInv, TodoInv, StoreInv, LsnInv, AckInv, Recoverable
<1>1. ASSUME NEW c \in Calls, Submit(c) PROVE SafeInv'
    BY <1>1 DEF Submit
<1>2. ASSUME NEW k \in Controls, Request(k) PROVE SafeInv'
    BY <1>2 DEF Request
<1>3. CASE Receive
    BY <1>3 DEF Receive
<1>4. CASE Drain
    BY <1>4 DEF Drain
<1>5. CASE DrainEnds
    BY <1>5 DEF DrainEnds
<1>6. CASE Refuse
    BY <1>6 DEF Refuse, BatchOps, Answered
<1>7. CASE FrameFails
    BY <1>7 DEF FrameFails, BatchOps, Answered
<1>8. CASE AssignLsns
    BY <1>8 DEF AssignLsns
<1>9. CASE Write
    BY <1>9 DEF Write, AppendToFile, Appended
<1>10. CASE WriteFails
    BY <1>10 DEF WriteFails, AppendToFile, Appended, BatchFails, Answered, OpsOf, Harm
<1>11. CASE Sync
    BY <1>11 DEF Sync
<1>12. CASE SyncFails
    BY <1>12 DEF SyncFails, BatchFails, Answered, OpsOf, Harm
<1>13. CASE Apply
    BY <1>13 DEF Apply, Answered, Least
<1>14. CASE ApplyFails
    BY <1>14 DEF ApplyFails, Answered, OpsOf, Least
<1>15. CASE NoControl
    BY <1>15 DEF NoControl
<1>16. CASE ControlRefused
    BY <1>16 DEF ControlRefused, ControlDone
<1>17. CASE TruncateRequest
    BY <1>17 DEF TruncateRequest, Running
<1>18. CASE Checkpoint
    BY <1>18 DEF Checkpoint, Running, Watermarks
<1>19. CASE CheckpointFails
    BY <1>19 DEF CheckpointFails, Running, Watermarks, SomeDurable, ControlDone
<1>20. CASE Job
    BY <1>20 DEF Job, Running, Watermarks, SomeDurable, ControlDone
<1>21. CASE JobHalts
    BY <1>21 DEF JobHalts, Running, Watermarks, SomeDurable, ControlDone
<1>22. CASE Truncate
    BY <1>22 DEF Truncate, Replaced, Kept
<1>23. CASE TruncateFails
    BY <1>23 DEF TruncateFails
<1>24. CASE ReopenFails
    BY <1>24 DEF ReopenFails, Replaced, Kept, Harm
<1>25. CASE Kill
    BY <1>25 DEF Kill, ProcessEnds, Answered, Waiting
<1>26. CASE PowerLoss
    <2>1. PICK gone \in SUBSET (unsynced \cup suspect), partial \in BOOLEAN :
              LET l == Remains(log, gone, partial)
                  new == (IF l.torn /\ l # log THEN {"torn"} ELSE {}) \cup
                         (IF \E f \in gone \cap disk.ops : f.lsn > disk.wm
                          THEN {"replayed"} ELSE {})
              IN  log' = l /\ Harm(new)
        BY <1>26 DEF PowerLoss
    <2>2. /\ Remains(log, gone, partial).torn => Remains(log, gone, partial) = log
          /\ \A f \in gone \cap disk.ops : ~(f.lsn > disk.wm)
          /\ log' = Remains(log, gone, partial)
        BY <2>1 DEF Harm
    <2>3. log'.torn = FALSE
        BY <2>2
    <2>4. /\ log'.good \subseteq log.good
          /\ log.good \subseteq log'.good \cup gone
          /\ log'.lost = {}
        BY <2>2, <2>3 DEF Remains
    <2>5. ProcessEnds /\ unsynced' = {} /\ suspect' = {}
        BY <1>26 DEF PowerLoss
    <2> QED BY <2>2, <2>3, <2>4, <2>5 DEF ProcessEnds, Answered, Waiting
<1>27. CASE RenameUndone
    BY <1>27 DEF RenameUndone, ProcessEnds, Answered, Waiting, Harm
<1>28. CASE Restart
    BY <1>28 DEF Restart
<1>29. CASE Idle
    BY <1>29 DEF Idle, vars, thread, file
<1>30. CASE UNCHANGED vars
    BY <1>30 DEF vars, thread
<1>. QED
    BY <1>1, <1>2, <1>3, <1>4, <1>5, <1>6, <1>7, <1>8, <1>9, <1>10, <1>11, <1>12, <1>13, <1>14, <1>15, <1>16, <1>17, <1>18, <1>19, <1>20, <1>21, <1>22, <1>23, <1>24, <1>25, <1>26, <1>27, <1>28, <1>29, <1>30 DEF Next, CommitThread

-----------------------------------------------------------------------------
LEMMA InitIInv == Init => IInv
BY DEF Init, IInv, TypeOK, ControlInv, SafeInv, FileInv, TodoInv, StoreInv, LsnInv, AckInv,
       Recoverable, Frame, LogFile, Writing, Up, None

LEMMA IInvStep == IInv /\ [Next]_vars => IInv'
BY TypeStep, ControlStep, SafeStep, HarmGrows DEF IInv

(* Every variable keeps its type in every behaviour of the log. *)
THEOREM TypeCorrect == Spec => []TypeOK
<1>1. Init => TypeOK
    BY InitIInv DEF IInv
<1> QED BY <1>1, TypeStep, PTL DEF Spec

(* The inductive invariant holds in every behaviour of the log. *)
THEOREM Invariance == Spec => []IInv
BY InitIInv, IInvStep, PTL DEF Spec

(* A committed record is recoverable at every instant: no checkpoint,      *)
(* truncation, poisoning, compaction or crash loses it, unless the file    *)
(* has been torn, a rename undone or the append handle lost.               *)
THEOREM CommittedIsDurable == Spec => []Durable
<1>1. IInv => Durable
    BY DEF IInv, SafeInv, Excused, Durable
<1> QED BY <1>1, Invariance, PTL

(* The stores never hold a record above a committed one they lack, which   *)
(* is what lets one number stand for everything they have absorbed.        *)
THEOREM StoresHoldAPrefix == Spec => []PrefixApplied
<1>1. IInv => PrefixApplied
    <2> SUFFICES ASSUME IInv, Up, Excused,
                        NEW f \in committed, NEW g \in mem, f.lsn < g.lsn
                 PROVE  f \in mem
        BY DEF PrefixApplied, Excused
    <2>1. f \in Frame /\ g \in Frame
        BY DEF IInv, TypeOK
    <2>2. f \notin mem => g.lsn < f.lsn
        BY DEF IInv, SafeInv, StoreInv
    <2> QED BY <2>1, <2>2 DEF Frame
<1> QED BY <1>1, Invariance, PTL

(* What was acknowledged is visible whenever the process runs. *)
THEOREM AckedIsVisible == Spec => []ReadYourWrites
<1>1. IInv => ReadYourWrites
    BY DEF IInv, SafeInv, AckInv, Excused, ReadYourWrites, OpsOf
<1> QED BY <1>1, Invariance, PTL

(* No LSN in the file, in the stores or ever committed is assigned again.  *)
THEOREM LsnsAreFresh == Spec => []FreshLsn
<1>1. IInv => FreshLsn
    BY DEF IInv, SafeInv, LsnInv, Excused, FreshLsn
<1> QED BY <1>1, Invariance, PTL

(* A poisoned log changes nothing until the process ends. *)
THEOREM PoisonIsFinal == Spec => PoisonFreezes
<1>1. IInv /\ [Next]_vars =>
         [poison # None /\ pc' # "down" =>
             UNCHANGED <<poison, nextLsn, log, committed, mem, disk>>]_vars
    <2> SUFFICES ASSUME IInv, [Next]_vars, poison # None, pc' # "down"
                 PROVE  UNCHANGED <<poison, nextLsn, log, committed, mem, disk>>
        OBVIOUS
    <2>1. ~Writing /\ pc # "truncate" /\ pc # "down"
        BY DEF IInv, ControlInv
    <2>2. CASE CommitThread
        BY <2>1, <2>2 DEF CommitThread, Receive, Drain, DrainEnds, Refuse, FrameFails,
            AssignLsns, Write, WriteFails, Sync, SyncFails, Apply, ApplyFails, NoControl,
            ControlRefused, TruncateRequest, Checkpoint, CheckpointFails, Job, JobHalts,
            Truncate, TruncateFails, ReopenFails, Running, Writing, file
    <2>3. CASE Kill \/ PowerLoss \/ RenameUndone \/ Restart
        BY <2>1, <2>3 DEF Kill, PowerLoss, RenameUndone, Restart, ProcessEnds
    <2>4. CASE (\E c \in Calls : Submit(c)) \/ (\E k \in Controls : Request(k))
                  \/ Idle \/ UNCHANGED vars
        BY <2>4 DEF Submit, Request, Idle, vars, thread, file
    <2> QED BY <2>2, <2>3, <2>4 DEF Next
<1> QED BY <1>1, Invariance, PTL DEF Spec, PoisonFreezes
-----------------------------------------------------------------------------
(***************************************************************************)
(* CommitLog implements DurableLog when no fault but a crash happens.      *)
(*                                                                         *)
(* The argument: a call that waits is in one place, the channel, the batch *)
(* or the numbered frames, and no frame of it is anywhere but there.  A    *)
(* frame no fsync has covered is of a call nobody has answered, so that    *)
(* keeping it or losing it breaks no promise.  While the log is not        *)
(* poisoned the stores have all of the file, so that moving their          *)
(* watermark forgets nothing.                                              *)
(***************************************************************************)
Queued == {c \in Calls : \E i \in 1 .. Len(queue) : queue[i] = c}

(* A waiting call is in one place. *)
PlaceInv ==
    /\ \A c \in Queued \cup BatchOps \cup OpsOf(todo) : status[c] = "waiting"
    /\ \A i, j \in 1 .. Len(queue) : queue[i] = queue[j] /\ queue[i] \in Calls => i = j
    /\ \A i, j \in 1 .. Len(batch) : batch[i] = batch[j] => i = j
    /\ \A f, g \in todo : f.op = g.op => f = g
    /\ Queued \cap (BatchOps \cup OpsOf(todo)) = {}
    /\ pc \notin {"drain", "commit"} => batch = <<>>
    /\ pc = "down" => Waiting = {} /\ queue = <<>>

(* A frame is of a call that was made, and in todo while that call waits. *)
FrameInv ==
    /\ \A f \in log.good \cup disk.ops \cup mem : status[f.op] # "new"
    /\ \A f \in log.good \cup disk.ops \cup mem : status[f.op] = "waiting" => f \in todo

(* What no fsync has covered nobody was answered for. *)
DoubtInv ==
    /\ suspect = {} /\ harm = {}
    /\ \A f \in unsynced : status[f.op] \in {"waiting", "crashed"}
    /\ pc = "apply" => unsynced = {}

(* The stores have all of the file. *)
AbsorbedInv ==
    Up /\ poison = None => \A f \in log.good : f.lsn > disk.wm => f \in mem \cup todo

PInv == IInv /\ PlaceInv /\ FrameInv /\ DoubtInv /\ AbsorbedInv

-----------------------------------------------------------------------------
(* Without faults the failing steps do not happen. *)
LEMMA NoFaults ==
    ASSUME Faults = {}
    PROVE  ~WriteFails /\ ~SyncFails /\ ~ReopenFails /\ ~RenameUndone
BY DEF WriteFails, SyncFails, ReopenFails, RenameUndone, Harm

LEMMA TailOf ==
    ASSUME NEW S, NEW q \in Seq(S), q # <<>>
    PROVE  /\ Len(q) \in Nat \ {0} /\ Head(q) = q[1] /\ Head(q) \in S
           /\ Len(Tail(q)) = Len(q) - 1
           /\ \A i \in 1 .. Len(q) - 1 : Tail(q)[i] = q[i + 1]
OBVIOUS

(* PowerLoss, when nothing but the loss itself may go wrong: the frames    *)
(* that are gone had no fsync, and all the others are still reached.       *)
LEMMA CleanLoss ==
    ASSUME Faults = {}, TypeOK, FileInv, DoubtInv, PowerLoss
    PROVE  \E gone \in SUBSET unsynced : log'.good = log.good \ gone
<1>1. PICK gone \in SUBSET (unsynced \cup suspect), partial \in BOOLEAN :
          LET l == Remains(log, gone, partial)
              new == (IF l.torn /\ l # log THEN {"torn"} ELSE {}) \cup
                     (IF \E f \in gone \cap disk.ops : f.lsn > disk.wm
                      THEN {"replayed"} ELSE {})
          IN  log' = l /\ Harm(new)
    BY DEF PowerLoss
<1>2. gone \in SUBSET unsynced
    BY DEF DoubtInv
<1>3. ~(log'.torn /\ log' # log)
    BY <1>1 DEF Harm
<1>4. CASE log' = log
    BY <1>4, log.good \ {} = log.good
<1>5. CASE ~log'.torn
    <2> DEFINE here == {f \in log.good : \A g \in gone \cap log.good : f.lsn < g.lsn}
               after == (log.good \cup log.lost) \ (here \cup gone)
    <2>1. log' = [good |-> here, lost |-> after, torn |-> log.torn \/ partial \/ after # {}]
        BY <1>1 DEF Remains
    <2>2. after = {} /\ log'.good = here
        BY <1>5, <2>1
    <2>3. log.good \subseteq here \cup gone
        BY <2>2
    <2>4. \A f \in here : f \notin gone
        <3> SUFFICES ASSUME NEW f \in here, f \in gone PROVE FALSE
            OBVIOUS
        <3>1. f.lsn < f.lsn /\ f.lsn \in Nat
            BY DEF TypeOK, LogFile, Frame
        <3> QED BY <3>1
    <2>5. here = log.good \ gone
        BY <2>3, <2>4
    <2> QED BY <1>2, <2>2, <2>5
<1> QED BY <1>3, <1>4, <1>5

(* A file without a tear is copied frame by frame. *)
LEMMA WholeCopy ==
    ASSUME log.torn = FALSE, Replaced
    PROVE  log'.good = {f \in log.good : f.lsn > upTo}
<1>1. PICK l \in Kept(log, upTo) : log' = l
    BY DEF Replaced
<1>2. l = [good |-> {f \in log.good : f.lsn > upTo}, lost |-> {}, torn |-> FALSE]
    BY DEF Kept
<1> QED BY <1>1, <1>2

-----------------------------------------------------------------------------
(* Taking the first element off the channel. *)
LEMMA Taken ==
    ASSUME PInv, queue # <<>>, queue' = Tail(queue)
    PROVE  /\ Head(queue) \in Calls \cup Controls /\ Queued' \subseteq Queued
           /\ Head(queue) \in Calls => Head(queue) \in Queued \ Queued'
           /\ \A i, j \in 1 .. Len(queue') :
                 queue'[i] = queue'[j] /\ queue'[i] \in Calls => i = j
<1>1. queue \in Seq(Calls \cup Controls)
    BY DEF PInv, IInv, TypeOK
<1>2. /\ Len(queue) \in Nat \ {0} /\ Head(queue) = queue[1] /\ Len(queue') = Len(queue) - 1
      /\ Head(queue) \in Calls \cup Controls
      /\ \A i \in 1 .. Len(queue) - 1 : queue'[i] = queue[i + 1]
    BY <1>1, TailOf
<1>3. \A i, j \in 1 .. Len(queue) : queue[i] = queue[j] /\ queue[i] \in Calls => i = j
    BY DEF PInv, PlaceInv
<1>4. Queued' \subseteq Queued
    BY <1>2 DEF Queued
<1>5. Head(queue) \in Calls => Head(queue) \in Queued
    BY <1>2 DEF Queued
<1>6. Head(queue) \in Calls => Head(queue) \notin Queued'
    <2> SUFFICES ASSUME queue[1] \in Calls, NEW i \in 1 .. Len(queue) - 1, queue[i + 1] = queue[1]
                 PROVE  FALSE
        BY <1>2 DEF Queued
    <2> QED BY <1>2, <1>3
<1>7. \A i, j \in 1 .. Len(queue') : queue'[i] = queue'[j] /\ queue'[i] \in Calls => i = j
    <2> SUFFICES ASSUME NEW i \in 1 .. Len(queue) - 1, NEW j \in 1 .. Len(queue) - 1,
                        queue[i + 1] = queue[j + 1], queue[i + 1] \in Calls
                 PROVE  i = j
        BY <1>2
    <2> QED BY <1>2, <1>3
<1> QED BY <1>2, <1>4, <1>5, <1>6, <1>7

(* The channel and the batch while nothing is numbered. *)
LEMMA PlacedUnnumbered ==
    ASSUME PInv, todo = {}, todo' = {}, status' = status, pc' # "down",
           queue # <<>>, queue' = Tail(queue),
           BatchOps' \subseteq BatchOps \cup (IF Head(queue) \in Calls THEN {Head(queue)} ELSE {}),
           \A i, j \in 1 .. Len(batch') : batch'[i] = batch'[j] => i = j,
           pc' \notin {"drain", "commit"} => batch' = <<>>
    PROVE  PlaceInv'
<1>1. \A c \in Queued \cup BatchOps : status[c] = "waiting"
    BY DEF PInv, PlaceInv
<1>2. Queued \cap BatchOps = {}
    BY DEF PInv, PlaceInv
<1>3. OpsOf(todo)' = {}
    BY DEF OpsOf
<1>4. \A c \in Queued' \cup BatchOps' : status'[c] = "waiting"
    BY <1>1, Taken
<1>5. Queued' \cap BatchOps' = {}
    BY <1>2, Taken
<1> QED BY <1>3, <1>4, <1>5, Taken DEF PlaceInv

(* Calls move from the channel to the batch to the frames to an answer. *)
LEMMA PlaceStep == ASSUME Faults = {}, PInv, Next PROVE PlaceInv'
<1> USE DEF PInv, PlaceInv, Queued, BatchOps, OpsOf, Waiting
<1>0. /\ queue \in Seq(Calls \cup Controls) /\ batch \in Seq(Calls)
      /\ todo \subseteq Frame /\ Calls \cap Controls = {}
      /\ ~Writing => todo = {}
      /\ status \in [Calls -> {"new", "waiting", "ok", "failed", "poisoned", "crashed"}]
    BY CommitLogAssumption DEF IInv, TypeOK, ControlInv
<1>1. ASSUME NEW c \in Calls, Submit(c) PROVE PlaceInv'
    <2>1. /\ status[c] = "new" /\ queue' = Append(queue, c) /\ pc # "down"
          /\ status' = [status EXCEPT ![c] = "waiting"] /\ UNCHANGED <<pc, batch, todo>>
        BY <1>1 DEF Submit, Up
    <2>2. /\ Len(queue) \in Nat /\ Len(queue') = Len(queue) + 1 /\ queue'[Len(queue) + 1] = c
          /\ \A i \in 1 .. Len(queue) : queue'[i] = queue[i]
        BY <1>0, <2>1
    <2>3. c \notin Queued \cup BatchOps \cup OpsOf(todo)
        BY <2>1
    <2>4. Queued' = Queued \cup {c} /\ BatchOps' = BatchOps /\ OpsOf(todo)' = OpsOf(todo)
        BY <2>1, <2>2
    <2>5. \A d \in Queued' \cup BatchOps' \cup OpsOf(todo)' : status'[d] = "waiting"
        BY <1>0, <2>1, <2>4
    <2>6. \A i, j \in 1 .. Len(queue') : queue'[i] = queue'[j] /\ queue'[i] \in Calls => i = j
        <3>1. \A i \in 1 .. Len(queue) : queue[i] # c
            BY <2>3
        <3>2. \A i, j \in 1 .. Len(queue) : queue[i] = queue[j] /\ queue[i] \in Calls => i = j
            OBVIOUS
        <3> HIDE DEF PInv, PlaceInv, Queued, BatchOps, OpsOf, Waiting
        <3> SUFFICES ASSUME NEW i \in 1 .. Len(queue'), NEW j \in 1 .. Len(queue'),
                            queue'[i] = queue'[j], queue'[i] \in Calls
                     PROVE  i = j
            OBVIOUS
        <3>3. i = Len(queue) + 1 \/ i \in 1 .. Len(queue)
            BY <2>2
        <3>4. j = Len(queue) + 1 \/ j \in 1 .. Len(queue)
            BY <2>2
        <3> QED BY <2>2, <3>1, <3>2, <3>3, <3>4
    <2> QED BY <2>1, <2>3, <2>4, <2>5, <2>6
<1>2. ASSUME NEW k \in Controls, Request(k) PROVE PlaceInv'
    BY <1>0, <1>2 DEF Request, Up
<1>3. CASE Receive
    <2>1. /\ pc = "recv" /\ todo = {} /\ todo' = {} /\ status' = status /\ pc' # "down"
          /\ queue # <<>> /\ queue' = Tail(queue) /\ batch = <<>>
        BY <1>0, <1>3 DEF Receive, Writing
    <2>2. \/ Head(queue) \in Calls /\ batch' = <<Head(queue)>> /\ pc' = "drain"
          \/ batch' = <<>>
        BY <1>3, <2>1 DEF Receive
    <2>3. BatchOps' \subseteq IF Head(queue) \in Calls THEN {Head(queue)} ELSE {}
        BY <2>2
    <2>4. \A i, j \in 1 .. Len(batch') : batch'[i] = batch'[j] => i = j
        BY <2>2
    <2> HIDE DEF PInv, PlaceInv, Queued, BatchOps, OpsOf, Waiting
    <2> QED BY <2>1, <2>2, <2>3, <2>4, PlacedUnnumbered
<1>4. CASE Drain
    <2>1. /\ pc = "drain" /\ todo = {} /\ todo' = {} /\ status' = status
          /\ pc' \in {"drain", "commit"} /\ queue # <<>> /\ queue' = Tail(queue)
        BY <1>0, <1>4 DEF Drain, Writing
    <2>2. \A i, j \in 1 .. Len(batch) : batch[i] = batch[j] => i = j
        OBVIOUS
    <2>3. CASE Head(queue) \in Calls /\ batch' = Append(batch, Head(queue))
        <3>1. /\ Len(batch) \in Nat /\ Len(batch') = Len(batch) + 1
              /\ batch'[Len(batch) + 1] = Head(queue)
              /\ \A i \in 1 .. Len(batch) : batch'[i] = batch[i]
            BY <1>0, <2>3
        <3>2. BatchOps' \subseteq BatchOps \cup {Head(queue)}
            BY <3>1
        <3>3. Head(queue) \in Queued
            BY <2>1, <2>3, Taken
        <3>4. \A i \in 1 .. Len(batch) : batch[i] # Head(queue)
            BY <3>3
        <3>5. \A i, j \in 1 .. Len(batch') : batch'[i] = batch'[j] => i = j
            BY <2>2, <3>1, <3>4
        <3> HIDE DEF PInv, PlaceInv, Queued, BatchOps, OpsOf, Waiting
        <3> QED BY <2>1, <2>3, <3>2, <3>5, PlacedUnnumbered
    <2>4. CASE batch' = batch
        <3>1. BatchOps' = BatchOps
            BY <2>4
        <3> HIDE DEF PInv, PlaceInv, Queued, BatchOps, OpsOf, Waiting
        <3> QED BY <2>1, <2>2, <2>4, <3>1, PlacedUnnumbered
    <2> QED BY <1>4, <2>3, <2>4 DEF Drain
<1>5. CASE DrainEnds
    BY <1>5 DEF DrainEnds
<1>6. CASE Refuse \/ FrameFails
    BY <1>0, <1>6 DEF Refuse, FrameFails, Answered, Writing
<1>7. CASE AssignLsns
    BY <1>0, <1>7 DEF AssignLsns, Writing
<1>8. CASE Write \/ Sync
    BY <1>8 DEF Write, Sync
<1>9. CASE Apply
    <2>1. PICK f \in todo :
              /\ status' = Answered({f.op}, "ok") /\ todo' = todo \ {f}
              /\ pc' = IF todo = {f} THEN "control" ELSE "apply"
        BY <1>9 DEF Apply
    <2>2. pc = "apply" /\ queue' = queue /\ batch' = batch /\ batch = <<>>
        BY <1>9 DEF Apply
    <2>3. f.op \notin Queued \cup OpsOf(todo') /\ f.op \in Calls
        BY <1>0, <2>1 DEF Frame
    <2>4. \A c \in Calls \ {f.op} : status'[c] = status[c]
        BY <2>1 DEF Answered
    <2>5. OpsOf(todo') \subseteq OpsOf(todo) /\ OpsOf(todo) \subseteq Calls
        BY <1>0, <2>1 DEF Frame
    <2>6. \A c \in Queued' \cup BatchOps' \cup OpsOf(todo)' : status'[c] = "waiting"
        BY <2>2, <2>3, <2>4, <2>5
    <2>7. Queued' = Queued /\ BatchOps' = {} /\ pc' \in {"control", "apply"}
        BY <2>1, <2>2
    <2>8. \A g, h \in todo' : g.op = h.op => g = h
        BY <2>1
    <2>9. Queued' \cap (BatchOps' \cup OpsOf(todo)') = {}
        BY <2>5, <2>7
    <2>10. \A i, j \in 1 .. Len(queue') : queue'[i] = queue'[j] /\ queue'[i] \in Calls => i = j
        BY <2>2
    <2> QED BY <2>2, <2>6, <2>7, <2>8, <2>9, <2>10
<1>10. CASE ApplyFails
    BY <1>0, <1>10 DEF ApplyFails, Answered
<1>11. CASE NoControl \/ ControlRefused \/ TruncateRequest
    BY <1>11 DEF NoControl, ControlRefused, ControlDone, TruncateRequest, Running
<1>12. CASE Checkpoint \/ CheckpointFails \/ Job \/ JobHalts
    BY <1>12 DEF Checkpoint, CheckpointFails, Job, JobHalts, ControlDone, Running
<1>13. CASE Truncate \/ TruncateFails
    BY <1>13 DEF Truncate, TruncateFails
<1>14. CASE Kill \/ PowerLoss
    BY <1>0, <1>14 DEF Kill, PowerLoss, ProcessEnds, Answered
<1>15. CASE Restart
    BY <1>15 DEF Restart
<1>16. CASE Idle
    BY <1>16 DEF Idle, vars, thread, file
<1> QED
    BY NoFaults, <1>1, <1>2, <1>3, <1>4, <1>5, <1>6, <1>7, <1>8, <1>9, <1>10, <1>11, <1>12,
       <1>13, <1>14, <1>15, <1>16 DEF Next, CommitThread

(* The frames of a call are those the thread is working on while it waits. *)
LEMMA FrameStep == ASSUME Faults = {}, PInv, Next PROVE FrameInv'
<1> USE DEF PInv, FrameInv
<1>0. /\ todo \subseteq Frame /\ mem \subseteq Frame /\ disk.ops \subseteq Frame
      /\ log.good \subseteq Frame /\ disk \in [ops : SUBSET Frame, wm : Nat] /\ log \in LogFile
      /\ status \in [Calls -> {"new", "waiting", "ok", "failed", "poisoned", "crashed"}]
      /\ \A f \in Frame : f.op \in Calls
      /\ log.torn = FALSE /\ attached = TRUE
      /\ ~Writing => todo = {}
    BY DEF IInv, TypeOK, ControlInv, SafeInv, Excused, DoubtInv, FileInv, Frame, LogFile
<1>1. ASSUME NEW c \in Calls, Submit(c) PROVE FrameInv'
    BY <1>0, <1>1 DEF Submit, file
<1>2. ASSUME NEW k \in Controls, Request(k) PROVE FrameInv'
    BY <1>2 DEF Request, file
<1>3. CASE Receive \/ Drain \/ DrainEnds
    BY <1>3 DEF Receive, Drain, DrainEnds, file
<1>4. CASE Refuse \/ FrameFails
    BY <1>0, <1>4 DEF Refuse, FrameFails, Answered, file
<1>5. CASE AssignLsns
    BY <1>0, <1>5 DEF AssignLsns, Writing, file
<1>6. CASE Write
    <2>1. log'.good = log.good \cup todo
        BY <1>0, <1>6 DEF Write, AppendToFile, Appended, LogFile
    <2>2. \A f \in todo : status[f.op] = "waiting"
        BY DEF PlaceInv, OpsOf
    <2> QED BY <1>6, <2>1, <2>2 DEF Write
<1>7. CASE Sync
    BY <1>7 DEF Sync
<1>8. CASE Apply
    <2>1. PICK f \in todo : /\ mem' = mem \cup {f} /\ status' = Answered({f.op}, "ok")
                            /\ todo' = todo \ {f}
        BY <1>8 DEF Apply
    <2>2. \A c \in Calls : status'[c] = IF c = f.op THEN "ok" ELSE status[c]
        BY <2>1 DEF Answered
    <2>3. log' = log /\ disk' = disk
        BY <1>8 DEF Apply, file
    <2> QED BY <1>0, <2>1, <2>2, <2>3
<1>9. CASE ApplyFails
    <2>1. \A c \in Calls : status'[c] = IF c \in OpsOf(todo) THEN "poisoned" ELSE status[c]
        BY <1>9 DEF ApplyFails, Answered
    <2>2. log' = log /\ disk' = disk /\ mem' = mem
        BY <1>9 DEF ApplyFails, file
    <2> QED BY <1>0, <2>1, <2>2 DEF OpsOf
<1>10. CASE NoControl \/ ControlRefused \/ TruncateRequest
    BY <1>10 DEF NoControl, ControlRefused, TruncateRequest, file
<1>11. CASE Checkpoint \/ CheckpointFails \/ Job \/ JobHalts
    <2>1. disk'.ops \subseteq mem \cup disk.ops
        <3>1. CASE Checkpoint
            BY <3>1 DEF Checkpoint
        <3>2. CASE CheckpointFails \/ Job \/ JobHalts
            BY <3>2 DEF CheckpointFails, Job, JobHalts, SomeDurable
        <3> QED BY <1>11, <3>1, <3>2
    <2>2. log' = log /\ mem' = mem /\ status' = status /\ todo' = todo
        BY <1>11 DEF Checkpoint, CheckpointFails, Job, JobHalts, file
    <2> QED BY <2>1, <2>2
<1>12. CASE Truncate \/ TruncateFails
    <2>1. log'.good \subseteq log.good
        BY <1>0, <1>12, WholeCopy DEF Truncate, TruncateFails, file
    <2>2. disk' = disk /\ mem' = mem /\ status' = status /\ todo' = todo
        BY <1>12 DEF Truncate, TruncateFails
    <2> QED BY <2>1, <2>2
<1>13. CASE Kill \/ PowerLoss
    <2>1. log'.good \subseteq log.good
        <3>1. CASE Kill
            BY <3>1 DEF Kill
        <3>2. CASE PowerLoss
            BY <3>2, CleanLoss DEF IInv, SafeInv, Excused, DoubtInv
        <3> QED BY <1>13, <3>1, <3>2
    <2>2. ProcessEnds
        BY <1>13 DEF Kill, PowerLoss
    <2>3. disk' = disk /\ mem' = {}
          /\ \A c \in Calls : status'[c] = IF status[c] = "waiting" THEN "crashed" ELSE status[c]
        BY <2>2 DEF ProcessEnds, Answered, Waiting
    <2> QED BY <1>0, <2>1, <2>3
<1>14. CASE Restart
    BY <1>0, <1>14 DEF Restart, file
<1>15. CASE Idle
    BY <1>15 DEF Idle, vars, thread, file
<1> QED
    BY NoFaults, <1>1, <1>2, <1>3, <1>4, <1>5, <1>6, <1>7, <1>8, <1>9, <1>10, <1>11, <1>12,
       <1>13, <1>14, <1>15 DEF Next, CommitThread

(* Whoever waits for a frame not covered by an fsync is still unanswered   *)
(* when the frame is covered, or never answered.                           *)
LEMMA DoubtStep == ASSUME Faults = {}, PInv, Next PROVE DoubtInv'
<1> USE DEF PInv, DoubtInv
<1>0. /\ todo \subseteq Frame /\ unsynced \subseteq log.good /\ unsynced \subseteq Frame
      /\ status \in [Calls -> {"new", "waiting", "ok", "failed", "poisoned", "crashed"}]
      /\ \A f \in Frame : f.op \in Calls
      /\ log.torn = FALSE /\ attached = TRUE
      /\ ~Writing => todo = {}
      /\ \A f \in log.good : status[f.op] # "new"
      /\ \A f \in log.good : status[f.op] = "waiting" => f \in todo
    BY DEF IInv, TypeOK, ControlInv, SafeInv, Excused, FileInv, Frame, FrameInv
<1>1. ASSUME NEW c \in Calls, Submit(c) PROVE DoubtInv'
    BY <1>0, <1>1 DEF Submit, file
<1>2. ASSUME NEW k \in Controls, Request(k) PROVE DoubtInv'
    BY <1>2 DEF Request, file
<1>3. CASE Receive \/ Drain \/ DrainEnds \/ AssignLsns
    BY <1>3 DEF Receive, Drain, DrainEnds, AssignLsns, file
<1>4. CASE Refuse \/ FrameFails
    <2>1. todo = {} /\ \A c \in BatchOps : status[c] = "waiting"
        BY <1>0, <1>4 DEF Refuse, FrameFails, Writing, PlaceInv
    <2>2. \A f \in unsynced : f.op \notin BatchOps
        BY <1>0, <2>1
    <2> QED BY <1>0, <1>4, <2>2 DEF Refuse, FrameFails, Answered, file
<1>5. CASE Write
    <2>1. unsynced' = unsynced \cup todo
        BY <1>0, <1>5 DEF Write, AppendToFile
    <2>2. \A f \in todo : status[f.op] = "waiting"
        BY DEF PlaceInv, OpsOf
    <2> QED BY <1>5, <2>1, <2>2 DEF Write
<1>6. CASE Sync
    BY <1>6 DEF Sync
<1>7. CASE Apply \/ ApplyFails
    BY <1>7 DEF Apply, ApplyFails, file
<1>8. CASE NoControl \/ ControlRefused \/ TruncateRequest
    BY <1>8 DEF NoControl, ControlRefused, ControlDone, TruncateRequest, file
<1>9. CASE Checkpoint \/ CheckpointFails \/ Job \/ JobHalts
    BY <1>9 DEF Checkpoint, CheckpointFails, Job, JobHalts, ControlDone, file
<1>10. CASE Truncate \/ TruncateFails
    BY <1>10 DEF Truncate, TruncateFails, Replaced, file
<1>11. CASE Kill
    BY <1>0, <1>11 DEF Kill, ProcessEnds, Answered, Waiting
<1>12. CASE PowerLoss
    <2>1. harm' = harm
        BY <1>12 DEF PowerLoss, Harm
    <2> QED BY <1>12, <2>1 DEF PowerLoss, ProcessEnds
<1>13. CASE Restart \/ Idle
    BY <1>13 DEF Restart, Idle, vars, thread, file
<1> QED
    BY NoFaults, <1>1, <1>2, <1>3, <1>4, <1>5, <1>6, <1>7, <1>8, <1>9, <1>10, <1>11, <1>12,
       <1>13 DEF Next, CommitThread

(* The watermark moves only over frames the stores have. *)
LEMMA AbsorbedStep == ASSUME Faults = {}, PInv, Next PROVE AbsorbedInv'
<1> USE DEF PInv, AbsorbedInv, Up
<1>0. /\ todo \subseteq Frame /\ mem \subseteq Frame /\ disk.ops \subseteq Frame
      /\ log.good \subseteq Frame /\ disk \in [ops : SUBSET Frame, wm : Nat] /\ log \in LogFile
      /\ \A f \in Frame : f.lsn \in Nat
      /\ log.torn = FALSE /\ attached = TRUE /\ nextLsn \in Nat
      /\ ~Writing => todo = {}
      /\ pc = "down" => poison = None
    BY DEF IInv, TypeOK, ControlInv, SafeInv, Excused, DoubtInv, FileInv, Frame, LogFile
<1>1. ASSUME NEW c \in Calls, Submit(c) PROVE AbsorbedInv'
    BY <1>1 DEF Submit, file
<1>2. ASSUME NEW k \in Controls, Request(k) PROVE AbsorbedInv'
    BY <1>2 DEF Request, file
<1>3. CASE Receive \/ Drain \/ DrainEnds \/ Refuse \/ FrameFails
    BY <1>3 DEF Receive, Drain, DrainEnds, Refuse, FrameFails, file
<1>4. CASE AssignLsns
    BY <1>0, <1>4 DEF AssignLsns, Writing, file
<1>5. CASE Write
    <2>1. log'.good = log.good \cup todo
        BY <1>0, <1>5 DEF Write, AppendToFile, Appended, LogFile
    <2> QED BY <1>5, <2>1 DEF Write
<1>6. CASE Sync
    BY <1>6 DEF Sync
<1>7. CASE Apply
    BY <1>7 DEF Apply, file
<1>8. CASE ApplyFails
    <2>1. poison' # None
        BY <1>0, <1>8 DEF ApplyFails, None
    <2> QED BY <2>1
<1>9. CASE NoControl \/ ControlRefused \/ TruncateRequest
    BY <1>9 DEF NoControl, ControlRefused, ControlDone, TruncateRequest, Running, file
<1>10. CASE Checkpoint \/ CheckpointFails \/ Job \/ JobHalts
    <2>1. disk'.wm \in Watermarks
        BY <1>10 DEF Checkpoint, CheckpointFails, Job, JobHalts, SomeDurable
    <2>2. disk.wm <= disk'.wm /\ disk'.wm \in Nat
        BY <1>0, <2>1 DEF Watermarks
    <2>3. log' = log /\ mem' = mem /\ todo' = todo /\ poison = None /\ pc = "control"
        BY <1>10 DEF Checkpoint, CheckpointFails, Job, JobHalts, Running, file
    <2> QED BY <1>0, <2>2, <2>3
<1>11. CASE Truncate \/ TruncateFails
    <2>1. log'.good \subseteq log.good
        BY <1>0, <1>11, WholeCopy DEF Truncate, TruncateFails, file
    <2>2. disk' = disk /\ mem' = mem /\ poison' = poison /\ todo' = todo /\ pc = "truncate"
        BY <1>11 DEF Truncate, TruncateFails
    <2> QED BY <2>1, <2>2
<1>12. CASE Kill \/ PowerLoss
    BY <1>12 DEF Kill, PowerLoss, ProcessEnds
<1>13. CASE Restart
    BY <1>0, <1>13 DEF Restart, file
<1>14. CASE Idle
    BY <1>14 DEF Idle, vars, thread, file
<1> QED
    BY NoFaults, <1>1, <1>2, <1>3, <1>4, <1>5, <1>6, <1>7, <1>8, <1>9, <1>10, <1>11, <1>12,
       <1>13, <1>14 DEF Next, CommitThread

LEMMA PInvariance == ASSUME Faults = {} PROVE Spec => []PInv
<1>1. Init => PInv
    BY InitIInv DEF Init, PInv, PlaceInv, FrameInv, DoubtInv, AbsorbedInv, Queued, BatchOps,
                    OpsOf, Waiting
<1>2. PInv /\ [Next]_vars => PInv'
    <2>1. CASE Next
        BY <2>1, IInvStep, PlaceStep, FrameStep, DoubtStep, AbsorbedStep DEF PInv
    <2>2. CASE UNCHANGED vars
        <3>1. PInv => IInv'
            BY <2>2, IInvStep DEF PInv
        <3>2. PlaceInv => PlaceInv'
            BY <2>2 DEF PlaceInv, Queued, BatchOps, OpsOf, Waiting, vars, thread
        <3>3. FrameInv /\ DoubtInv /\ AbsorbedInv => FrameInv' /\ DoubtInv' /\ AbsorbedInv'
            BY <2>2 DEF FrameInv, DoubtInv, AbsorbedInv, Up, vars, thread, file
        <3> QED BY <3>1, <3>2, <3>3 DEF PInv
    <2> QED BY <2>1, <2>2
<1> QED BY <1>1, <1>2, PTL DEF Spec

-----------------------------------------------------------------------------
(* The simulation.  What is kept is the calls of these frames. *)
Certain == disk.ops \cup {f \in log.good \ unsynced : f.lsn > disk.wm}

(* A step that keeps every frame kept so far, and besides only frames no   *)
(* fsync had covered, keeps in the sense of the promise.                   *)
LEMMA KeepsMore ==
    ASSUME PInv, Certain \subseteq Certain', Certain' \subseteq Certain \cup unsynced
    PROVE  \E S \in SUBSET Calls : Promise!Keeps(S)
<1> DEFINE S == OpsOf(Certain' \ Certain)
<1>1. S \subseteq OpsOf(unsynced)
    BY DEF OpsOf
<1>2. unsynced \subseteq Frame /\ \A f \in unsynced : status[f.op] \in {"waiting", "crashed"}
    BY DEF PInv, IInv, TypeOK, DoubtInv
<1>3. S \subseteq Calls /\ S \subseteq Promise!With("waiting") \cup Promise!With("crashed")
    BY <1>1, <1>2 DEF OpsOf, Frame, Promise!With
<1>4. KeptOps = OpsOf(Certain) /\ KeptOps' = OpsOf(Certain')
    BY DEF KeptOps, Certain, OpsOf
<1>5. KeptOps' = KeptOps \cup S
    BY <1>4 DEF OpsOf
<1> QED BY <1>3, <1>5 DEF Promise!Keeps

(* A step that changes neither what is kept nor who is answered.           *)
LEMMA Stutter ==
    ASSUME Up' = Up, status' = status, mem' = mem, Certain' = Certain
    PROVE  UNCHANGED Promise!vars
<1>1. KeptOps' = KeptOps
    BY DEF KeptOps, Certain, OpsOf
<1> QED BY <1>1 DEF Promise!vars, OpsOf

(* A step of a running log that only keeps. *)
LEMMA Keeping ==
    ASSUME PInv, Up' = Up, status' = status, mem' = mem,
           Certain \subseteq Certain', Certain' \subseteq Certain \cup unsynced
    PROVE  Promise!Next
<1>1. PICK S \in SUBSET Calls : Promise!Keeps(S)
    BY KeepsMore
<1>2. Promise!Keep(S)
    BY <1>1 DEF Promise!Keep, OpsOf
<1> QED BY <1>2 DEF Promise!Next

LEMMA StepSimulates == ASSUME Faults = {}, PInv, Next PROVE [Promise!Next]_Promise!vars
<1>0. /\ todo \subseteq Frame /\ mem \subseteq Frame /\ disk.ops \subseteq Frame
      /\ unsynced \subseteq log.good
      /\ log.good \subseteq Frame /\ disk \in [ops : SUBSET Frame, wm : Nat] /\ log \in LogFile
      /\ \A f \in Frame : f.lsn \in Nat /\ f.op \in Calls
      /\ log.torn = FALSE /\ attached = TRUE
      /\ status \in [Calls -> {"new", "waiting", "ok", "failed", "poisoned", "crashed"}]
      /\ ~Writing => todo = {}
    BY DEF PInv, IInv, TypeOK, ControlInv, SafeInv, Excused, DoubtInv, FileInv, Frame, LogFile
<1>1. ASSUME NEW c \in Calls, Submit(c) PROVE Promise!Next
    <2>1. Promise!Ask(c)
        BY <1>0, <1>1 DEF Submit, file, Up, KeptOps, OpsOf, Promise!Ask, Promise!With, Promise!Give
    <2> QED BY <2>1 DEF Promise!Next
<1>2. ASSUME NEW k \in Controls, Request(k) PROVE UNCHANGED Promise!vars
    BY <1>2, Stutter DEF Request, file, Up, Certain
<1>3. CASE Receive \/ Drain \/ DrainEnds \/ AssignLsns
    BY <1>3, Stutter DEF Receive, Drain, DrainEnds, AssignLsns, file, Up, Certain
<1>4. CASE Refuse \/ FrameFails
    <2>1. /\ todo = {} /\ BatchOps \subseteq Calls /\ \A c \in BatchOps : status[c] = "waiting"
          /\ Up /\ Up' /\ UNCHANGED <<mem, log, unsynced, disk>>
        <3>1. BatchOps \subseteq Calls
            BY DEF PInv, IInv, TypeOK, BatchOps
        <3> QED BY <1>0, <1>4, <3>1 DEF Refuse, FrameFails, Writing, PInv, PlaceInv, Up, file
    <2>2. BatchOps \cap KeptOps = {}
        <3> SUFFICES ASSUME NEW f \in Certain, f.op \in BatchOps PROVE FALSE
            BY DEF KeptOps, Certain, OpsOf
        <3>1. f \in log.good \cup disk.ops /\ status[f.op] = "waiting"
            BY <2>1 DEF Certain
        <3> QED BY <2>1, <3>1 DEF PInv, FrameInv
    <2>3. KeptOps' = KeptOps /\ OpsOf(mem)' = OpsOf(mem)
        BY <2>1 DEF KeptOps, OpsOf
    <2>4. CASE Refuse
        <3>1. Promise!Poison(BatchOps)
            BY <2>1, <2>3, <2>4 DEF Refuse, Answered, Promise!Poison, Promise!With, Promise!Give
        <3> QED BY <2>1, <3>1 DEF Promise!Next
    <2>5. CASE FrameFails
        <3>1. Promise!Fail(BatchOps)
            BY <2>1, <2>2, <2>3, <2>5
               DEF FrameFails, Answered, Promise!Fail, Promise!With, Promise!Give
        <3> QED BY <2>1, <3>1 DEF Promise!Next
    <2> QED BY <1>4, <2>4, <2>5
<1>5. CASE Write
    <2>1. log'.good = log.good \cup todo /\ unsynced' = unsynced \cup todo
        BY <1>0, <1>5 DEF Write, AppendToFile, Appended, LogFile
    <2>2. todo \cap log.good = {}
        <3> SUFFICES ASSUME NEW f \in todo, f \in log.good PROVE FALSE
            OBVIOUS
        <3>1. f.lsn < f.lsn /\ f.lsn \in Nat
            BY <1>0, <1>5 DEF Write, PInv, IInv, SafeInv, Excused, DoubtInv, TodoInv
        <3> QED BY <3>1
    <2>3. log'.good \ unsynced' = log.good \ unsynced
        BY <2>1, <2>2
    <2>4. Up' = Up /\ status' = status /\ mem' = mem /\ disk' = disk
        BY <1>5 DEF Write, Up
    <2>5. Certain' = Certain
        BY <2>3, <2>4 DEF Certain
    <2> QED BY <2>4, <2>5, Stutter
<1>6. CASE Sync
    <2>1. Up' = Up /\ status' = status /\ mem' = mem /\ disk' = disk /\ log' = log /\ unsynced' = {}
        BY <1>6 DEF Sync, Up
    <2>2. Certain \subseteq Certain' /\ Certain' \subseteq Certain \cup unsynced
        BY <2>1 DEF Certain
    <2> QED BY <2>1, <2>2, Keeping
<1>7. CASE Apply
    <2>1. PICK f \in todo : /\ mem' = mem \cup {f} /\ status' = Answered({f.op}, "ok")
                            /\ pc' \in {"control", "apply"}
        BY <1>7 DEF Apply
    <2>2. pc = "apply" /\ UNCHANGED <<log, unsynced, disk>>
        BY <1>7 DEF Apply, file
    <2>3. f \in Certain
        BY <1>0, <2>2 DEF PInv, IInv, SafeInv, Excused, DoubtInv, TodoInv, Certain
    <2>4. f.op \in KeptOps /\ f.op \in Calls /\ status[f.op] = "waiting"
        BY <1>0, <2>3 DEF KeptOps, Certain, OpsOf, PInv, PlaceInv
    <2>5. KeptOps' = KeptOps /\ OpsOf(mem)' = OpsOf(mem) \cup {f.op}
        BY <2>1, <2>2 DEF KeptOps, OpsOf
    <2>6. Promise!Confirm(f.op)
        BY <2>1, <2>2, <2>4, <2>5 DEF Answered, Up, Promise!Confirm, Promise!With, Promise!Give
    <2> QED BY <2>4, <2>6 DEF Promise!Next
<1>8. CASE ApplyFails
    <2>1. OpsOf(todo) \subseteq Calls /\ \A c \in OpsOf(todo) : status[c] = "waiting"
        BY <1>0 DEF OpsOf, PInv, PlaceInv
    <2>2. KeptOps' = KeptOps /\ OpsOf(mem)' = OpsOf(mem)
        BY <1>8 DEF ApplyFails, KeptOps, OpsOf, file
    <2>3. Promise!Poison(OpsOf(todo))
        BY <1>8, <2>1, <2>2
           DEF ApplyFails, Answered, Up, Promise!Poison, Promise!With, Promise!Give
    <2> QED BY <2>1, <2>3 DEF Promise!Next
<1>9. CASE NoControl \/ ControlRefused \/ TruncateRequest \/ TruncateFails \/ Idle
    BY <1>9, Stutter DEF NoControl, ControlRefused, ControlDone, TruncateRequest, TruncateFails,
                         Running, Idle, vars, thread, file, Up, Certain
<1>10. CASE Checkpoint \/ CheckpointFails \/ Job \/ JobHalts
    <2>1. PICK ops \in SUBSET mem, t \in Watermarks :
              /\ disk.ops \subseteq ops /\ {f \in mem : f.lsn <= t} \subseteq ops
              /\ disk' = [ops |-> ops, wm |-> t]
        <3>1. CASE Checkpoint
            <4>1. disk.ops \subseteq mem
                BY <3>1 DEF Checkpoint, Running, Up, PInv, IInv, SafeInv, Excused, DoubtInv, StoreInv
            <4>2. \E t \in Watermarks : disk' = [ops |-> mem, wm |-> t]
                BY <3>1 DEF Checkpoint
            <4> QED BY <4>1, <4>2
        <3>2. CASE CheckpointFails \/ Job \/ JobHalts
            BY <3>2 DEF CheckpointFails, Job, JobHalts, SomeDurable
        <3> QED BY <1>10, <3>1, <3>2
    <2>2. /\ pc = "control" /\ poison = None /\ Up /\ Up' = Up /\ todo = {}
          /\ UNCHANGED <<status, mem, log, unsynced>>
        BY <1>0, <1>10 DEF Checkpoint, CheckpointFails, Job, JobHalts, Running, ControlDone, Up,
                           Writing, file
    <2>3. disk.wm <= t /\ t \in Nat /\ disk.wm \in Nat
        BY <1>0, <2>1 DEF Watermarks
    <2>4. Certain \subseteq Certain'
        <3> SUFFICES ASSUME NEW f \in log.good \ unsynced, f.lsn > disk.wm, f.lsn <= t
                     PROVE  f \in ops
            BY <1>0, <2>1, <2>2, <2>3 DEF Certain
        <3>1. f \in mem
            BY <2>2 DEF PInv, AbsorbedInv
        <3> QED BY <2>1, <3>1
    <2>5. Certain' \subseteq Certain \cup unsynced
        <3>1. mem \subseteq Certain \cup unsynced
            BY <2>2 DEF PInv, IInv, SafeInv, Excused, DoubtInv, StoreInv, Recoverable, Certain
        <3> QED BY <1>0, <2>1, <2>2, <2>3, <3>1 DEF Certain
    <2> QED BY <2>2, <2>4, <2>5, Keeping
<1>11. CASE Truncate
    <2>1. log'.good = {f \in log.good : f.lsn > upTo} /\ unsynced' = {}
        BY <1>0, <1>11, WholeCopy DEF Truncate, Replaced
    <2>2. /\ upTo <= disk.wm /\ upTo \in Nat
          /\ Up' = Up /\ UNCHANGED <<status, mem, disk>>
        BY <1>11 DEF Truncate, Up, PInv, IInv, TypeOK, ControlInv
    <2>3. Certain \subseteq Certain' /\ Certain' \subseteq Certain \cup unsynced
        BY <1>0, <2>1, <2>2 DEF Certain
    <2> QED BY <2>2, <2>3, Keeping
<1>12. CASE Kill \/ PowerLoss
    <2>1. ProcessEnds /\ Up /\ ~Up' /\ disk' = disk /\ mem' = {}
        BY <1>12 DEF Kill, PowerLoss, ProcessEnds, Up
    <2>2. PICK gone \in SUBSET unsynced :
              log'.good = log.good \ gone /\ unsynced' \in {unsynced, {}}
        <3>1. CASE Kill
            BY <3>1, log.good \ {} = log.good DEF Kill
        <3>2. CASE PowerLoss
            BY <3>2, CleanLoss DEF PowerLoss, PInv, IInv, SafeInv, Excused, DoubtInv
        <3> QED BY <1>12, <3>1, <3>2
    <2>3. Certain \subseteq Certain' /\ Certain' \subseteq Certain \cup unsynced
        BY <1>0, <2>1, <2>2 DEF Certain
    <2>4. PICK S \in SUBSET Calls : Promise!Keeps(S)
        BY <2>3, KeepsMore
    <2>5. Promise!Crash(S)
        BY <2>1, <2>4 DEF ProcessEnds, Answered, Waiting, OpsOf, Promise!Crash, Promise!With,
                          Promise!Give
    <2> QED BY <2>5 DEF Promise!Next
<1>13. CASE Restart
    <2>1. ~Up /\ Up' /\ UNCHANGED <<status, disk, log, unsynced>>
        BY <1>13 DEF Restart, Up, file
    <2>2. mem' = Certain \cup {f \in unsynced : f.lsn > disk.wm}
        BY <1>0, <1>13 DEF Restart, Certain
    <2> DEFINE S == OpsOf({f \in unsynced : f.lsn > disk.wm})
    <2>3. OpsOf(mem)' = KeptOps \cup S
        BY <2>2 DEF KeptOps, Certain, OpsOf
    <2>4. S \in SUBSET Promise!With("crashed")
        <3>1. Waiting = {}
            BY <2>1 DEF Up, PInv, PlaceInv
        <3> QED BY <1>0, <3>1 DEF PInv, DoubtInv, OpsOf, Waiting, Promise!With
    <2>5. KeptOps' = KeptOps
        BY <2>1 DEF KeptOps, OpsOf
    <2> HIDE DEF S
    <2>6. Promise!Reopen
        BY <2>1, <2>3, <2>4, <2>5 DEF Promise!Reopen
    <2> QED BY <2>6 DEF Promise!Next
<1> QED
    BY NoFaults, <1>1, <1>2, <1>3, <1>4, <1>5, <1>6, <1>7, <1>8, <1>9, <1>10, <1>11, <1>12,
       <1>13 DEF Next, CommitThread

(* Numbered, written, fsynced and applied in batches, truncated, carried   *)
(* over into compacted generations and cut off by crashes, the log does    *)
(* what the contract of append says: ok only for what no crash can undo,   *)
(* an error never for something that is.                                   *)
THEOREM LogKeepsItsPromise == ASSUME Faults = {} PROVE Spec => ImplementsDurableLog
<1>1. Init => Promise!Init
    BY DEF Init, Up, KeptOps, OpsOf, Promise!Init
<1>2. PInv /\ [Next]_vars => [Promise!Next]_Promise!vars
    <2>1. CASE Next
        BY <2>1, StepSimulates
    <2>2. CASE UNCHANGED vars
        BY <2>2, Stutter DEF vars, thread, file, Up, Certain
    <2> QED BY <2>1, <2>2
<1> QED BY <1>1, <1>2, PInvariance, PTL DEF Spec, ImplementsDurableLog, Promise!Spec
=============================================================================
