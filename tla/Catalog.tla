------------------------------ MODULE Catalog ------------------------------
(***************************************************************************)
(* The life of a Db (engine/mod.rs): which collections exist, CREATE       *)
(* COLLECTION through the log, the catalog as the store beside the others, *)
(* checkpoints, opening again after a crash, and closing.                  *)
(*                                                                         *)
(* The threads are the callers, the commit thread, the flusher and the     *)
(* compactor, and main, which opens and closes.  All but main ask the      *)
(* commit thread for what they want and wait for its answer.               *)
(* A collection's three stores are one here, with one watermark (Stores    *)
(* has the three), a write is logged and flushed in one step (CommitLog    *)
(* has the steps), and what a compaction does while it has the commit      *)
(* thread is Compaction's.                                                 *)
(***************************************************************************)
EXTENDS Snapshots, FiniteSets, FiniteSetsExt

CONSTANTS
    Callers,      \* threads that create collections and insert
    Wanted,       \* what a create may ask for: [name, shape]
    Openings,     \* sets of collections an embedder may pass to open
    Faults,       \* what may fail: a "step" with a file; a "flush" of the
                  \* log; a directory "entry" that nothing has flushed since
                  \* the process that made it ended, or the log's own
    MaxLog,       \* bound: frames
    MaxFaults     \* bound: failures

ASSUME CatalogAssumption ==
    /\ Callers \cap {"none", "flusher", "compactor", "main"} = {}
    /\ \A supplied \in Openings : IsFiniteSet(supplied) /\ \A c \in supplied : c.id \in Nat

VARIABLES
    phase,   \* "down", "opening", "up", "closing"; an open that returned an
             \* error: "failed" for a fault, "refused" for what it found
    mem,     \* the applier, the log's counter and the poison
    disk,    \* catalog.snap, the collection directories, `half` the ids whose
             \* vectors.idx was begun and is no file yet, the log: its frames,
             \* whose order is that of their LSNs
    queue,   \* the commit thread's messages
    job,     \* what the commit thread, or recovery, is at
    waits,   \* what each thread waits for
    ending,  \* what close still has to do
    told,    \* what callers were told: collections and inserts
    faults   \* failures so far

vars == <<phase, mem, disk, queue, job, waits, ending, told, faults>>

Threads == Callers \cup {"flusher", "compactor", "main"}

-----------------------------------------------------------------------------
(***************************************************************************)
(* The catalog and its file.                                               *)
(***************************************************************************)
Config(id, name, shape) == [id |-> id, name |-> name, shape |-> shape]
NoConfig == Config(-1, "none", "none")
Ids(configs) == {c.id : c \in configs}
Called(configs) == {c.name : c \in configs}

EncodeCatalog(configs, lsn) ==
    Sealed(<<[f |-> "magic", v |-> "CAT0"], [f |-> "version", v |-> 3],
             [f |-> "lsn", v |-> lsn], [f |-> "body", v |-> configs]>>)

\* Not intact is an error, never empty.
Nothing == [ok |-> FALSE, configs |-> {}, lsn |-> 0]
DecodeCatalog(bytes) ==
    IF Intact(bytes) THEN [ok |-> TRUE, configs |-> bytes[4].v, lsn |-> bytes[3].v] ELSE Nothing

\* Missing is a fresh database.
LoadCatalog(content) ==
    IF content.there THEN DecodeCatalog(content.bytes) ELSE [Nothing EXCEPT !.ok = TRUE]

\* An applier over no collections, and nothing logged.
NoMemory ==
    [registry |-> {}, published |-> {}, stores |-> <<>>, floors |-> <<>>,
     last |-> 0, failed |-> 0, poisoned |-> FALSE, next |-> 1, read |-> 0]

\* The LSN through which the catalog reflects every record.
Watermark(m) == IF m.failed = 0 THEN m.last ELSE Min({m.last, m.failed - 1})

\* A map with one more entry, or another value for it.
Entered(map, key, value) ==
    [k \in DOMAIN map \cup {key} |-> IF k = key THEN value ELSE map[k]]

\* A store as it is made, and on disk: whether its directory is sure to be
\* found after a power cut.
Empty(shape) == [shape |-> shape, lsn |-> 0, rows |-> {}]
OnDisk(store, kept) == [store |-> store, kept |-> kept]

\* Only a collection that is not there yet can be made: a variant.
Opens_MustBeNew(config) == config.id \notin DOMAIN disk.dirs \cup disk.half

\* open_collection: what is there is opened, if it has the schema, but not a
\* vectors.idx without a header.
Opens(config) ==
    /\ config.id \notin disk.half
    /\ config.id \in DOMAIN disk.dirs => disk.dirs[config.id].store.shape = config.shape
Opened(dirs, configs) ==
    [id \in DOMAIN dirs \cup Ids(configs) |->
        IF id \in DOMAIN dirs THEN dirs[id]
        ELSE OnDisk(Empty((CHOOSE c \in configs : c.id = id).shape), FALSE)]
Kept(dirs) == [id \in DOMAIN dirs |-> [dirs[id] EXCEPT !.kept = TRUE]]

-----------------------------------------------------------------------------
\* The frames of a log above an LSN.
Above(log, lsn) == {f \in log : f.lsn > lsn}

Frame(kind, config, lsn) == [kind |-> kind, config |-> config, lsn |-> lsn]
NoFrame == Frame("none", NoConfig, 0)
Message(from, kind, config) == [from |-> from, kind |-> kind, config |-> config]

\* What the commit thread does: apply a frame, or a checkpoint; for recovery
\* from is "none" and there is also the catalog that open registers in.  `step`
\* is 0 before the catalog's file is written and then its step; `left` is
\* the collections a checkpoint has to save.
Job(kind, from, frame) ==
    [kind |-> kind, from |-> from, frame |-> frame, step |-> 0, made |-> FALSE,
     left |-> {}, bytes |-> <<>>]
Idle == Job("none", "none", NoFrame)

Init ==
    /\ phase = "down" /\ mem = NoMemory
    /\ disk = [catalog |-> NoFile, dirs |-> <<>>, half |-> {}, log |-> {}, kept |-> FALSE]
    /\ queue = <<>> /\ job = Idle
    /\ waits = [t \in Threads |-> "idle"] /\ ending = <<>>
    /\ told = [configs |-> {}, inserts |-> {}] /\ faults = 0

Fault(kind) == kind \in Faults /\ faults < MaxFaults /\ faults' = faults + 1

\* The answer to whoever asked.
Answer(from) == waits' = IF from = "none" THEN waits ELSE [waits EXCEPT ![from] = "idle"]
Ask(from, kind, config) ==
    /\ queue' = Append(queue, Message(from, kind, config))
    /\ waits' = [waits EXCEPT ![from] = kind]

-----------------------------------------------------------------------------
(***************************************************************************)
(* Callers.                                                                *)
(***************************************************************************)
\* create_collection without the ddl lock: a variant.
MayCreate_NoLock(name) == name \notin Called(mem.published)

\* create_collection holds the ddl lock from the check of the name to the
\* answer.
MayCreate(name) ==
    name \notin Called(mem.published) /\ \A c \in Callers : waits[c] # "create"

NextId == IF mem.published = {} THEN 0 ELSE Max(Ids(mem.published)) + 1

\* Bounded by what the log may still take.
MayAsk(c) ==
    /\ phase = "up" /\ waits[c] = "idle" /\ ~mem.poisoned
    /\ mem.next + Cardinality({m \in DOMAIN queue : queue[m].from \in Callers}) <= MaxLog

Create(c) ==
    /\ MayAsk(c)
    /\ \E w \in Wanted : MayCreate(w.name) /\ Ask(c, "create", Config(NextId, w.name, w.shape))
    /\ UNCHANGED <<phase, mem, disk, job, ending, told, faults>>

Insert(c) ==
    /\ MayAsk(c)
    /\ \E config \in mem.published : Ask(c, "insert", config)
    /\ UNCHANGED <<phase, mem, disk, job, ending, told, faults>>

\* The flusher's tick, and Db::checkpoint; the compactor, when there is
\* something to compact.
Tick ==
    /\ phase \in {"up", "closing"} /\ waits.flusher = "idle" /\ (ending # <<>> => Head(ending) # "flusher")
    /\ Ask("flusher", "checkpoint", NoConfig)
    /\ UNCHANGED <<phase, mem, disk, job, ending, told, faults>>
Compact ==
    /\ phase = "up" /\ waits.compactor = "idle" /\ mem.published # {}
    /\ Ask("compactor", "control", NoConfig)
    /\ UNCHANGED <<phase, mem, disk, job, ending, told, faults>>

-----------------------------------------------------------------------------
(***************************************************************************)
(* The commit thread, message by message.                                  *)
(***************************************************************************)
Free == phase \in {"up", "closing"} /\ job = Idle /\ queue # <<>>

\* A poisoned log refuses whatever it is asked.
Refuse ==
    /\ Free /\ mem.poisoned
    /\ Answer(Head(queue).from) /\ queue' = Tail(queue)
    /\ UNCHANGED <<phase, mem, disk, job, ending, told, faults>>

\* A frame is written and flushed.
LogFrame ==
    /\ Free /\ ~mem.poisoned /\ Head(queue).kind \in {"create", "insert"}
    /\ LET frame == Frame(Head(queue).kind, Head(queue).config, mem.next)
       IN  /\ disk' = [disk EXCEPT !.log = @ \cup {frame}]
           /\ job' = Job("apply", Head(queue).from, frame)
    /\ mem' = [mem EXCEPT !.next = @ + 1] /\ queue' = Tail(queue)
    /\ UNCHANGED <<phase, waits, ending, told, faults>>

\* It is not, or not known to be: the caller gets an error, and the frame may
\* be in the log all the same.
LogFails ==
    /\ Free /\ ~mem.poisoned /\ Head(queue).kind \in {"create", "insert"} /\ Fault("flush")
    /\ LET frame == Frame(Head(queue).kind, Head(queue).config, mem.next)
       IN  disk' \in {disk, [disk EXCEPT !.log = @ \cup {frame}]}
    /\ mem' = [mem EXCEPT !.next = @ + 1]
    /\ Answer(Head(queue).from) /\ queue' = Tail(queue)
    /\ UNCHANGED <<phase, job, ending, told>>

\* All collections' stores, then the catalog.
Saving(checkpoint) ==
    IF checkpoint.left # {} THEN checkpoint
    ELSE [checkpoint EXCEPT !.step = 1, !.bytes = EncodeCatalog(mem.registry, Watermark(mem))]

StartCheckpoint ==
    /\ Free /\ ~mem.poisoned /\ Head(queue).kind = "checkpoint"
    /\ job' = Saving([Job("checkpoint", Head(queue).from, NoFrame) EXCEPT !.left = DOMAIN mem.stores])
    /\ queue' = Tail(queue)
    /\ UNCHANGED <<phase, mem, disk, waits, ending, told, faults>>

Control ==
    /\ Free /\ ~mem.poisoned /\ Head(queue).kind = "control"
    /\ Answer(Head(queue).from) /\ queue' = Tail(queue)
    /\ UNCHANGED <<phase, mem, disk, job, ending, told, faults>>

-----------------------------------------------------------------------------
(***************************************************************************)
(* IndexApplier::apply, after a frame is logged and when it is replayed.   *)
(***************************************************************************)
Applying(kind) == job.kind = "apply" /\ job.frame.kind = kind

\* A job has done what it was asked.
Done ==
    /\ job' = Idle /\ Answer(job.from)
    /\ UNCHANGED <<phase, queue, ending, faults>>

\* A job has failed: the log is poisoned, or open returns an error; a
\* checkpoint is only not taken.
Broken(how) ==
    /\ job' = Idle
    /\ IF phase = "opening"
       THEN phase' = how /\ mem' = NoMemory /\ UNCHANGED waits
       ELSE /\ mem' = IF job.kind = "apply"
                      THEN [mem EXCEPT !.poisoned = TRUE,
                                       !.failed = IF job.frame.kind = "create" /\ @ = 0
                                                  THEN job.frame.lsn ELSE @]
                      ELSE mem
           /\ Answer(job.from) /\ UNCHANGED phase
    /\ UNCHANGED <<queue, ending, told>>

ApplyInsert ==
    /\ Applying("insert")
    /\ LET id == job.frame.config.id
           lsn == job.frame.lsn
           applied == [mem EXCEPT !.last = Max({@, lsn})]
       IN  IF id \notin DOMAIN mem.stores THEN Broken("refused") /\ UNCHANGED <<disk, faults>>
           ELSE /\ mem' = IF lsn <= mem.floors[id] THEN applied
                          ELSE [applied EXCEPT !.stores[id].lsn = Max({@, lsn}),
                                               !.stores[id].rows = @ \cup {lsn}]
                /\ told' = IF job.from = "none" THEN told
                           ELSE [told EXCEPT !.inserts = @ \cup {[config |-> job.frame.config, lsn |-> lsn]}]
                /\ Done /\ UNCHANGED disk

Taken(config) == config.id \in DOMAIN mem.stores \/ config.name \in Called(mem.registry)

\* The caller is told that the collection exists.
Told == IF job.from = "none" THEN told ELSE [told EXCEPT !.configs = @ \cup {job.frame.config}]

\* A create that is there already changes nothing.
CreateAgain ==
    /\ Applying("create") /\ job.step = 0 /\ ~job.made /\ Taken(job.frame.config)
    /\ mem' = [mem EXCEPT !.last = Max({@, job.frame.lsn})] /\ told' = Told
    /\ Done /\ UNCHANGED disk

\* Its stores are made.
CreateStores ==
    /\ Applying("create") /\ job.step = 0 /\ ~job.made /\ ~Taken(job.frame.config)
    /\ IF Opens(job.frame.config)
       THEN /\ disk' = [disk EXCEPT !.dirs = Opened(@, {job.frame.config})]
            /\ job' = [job EXCEPT !.made = TRUE]
            /\ mem' = [mem EXCEPT !.floors = Entered(@, job.frame.config.id, disk'.dirs[job.frame.config.id].store.lsn)]
            /\ UNCHANGED <<phase, queue, waits, ending, told, faults>>
       ELSE Broken("refused") /\ UNCHANGED <<disk, faults>>

\* Their directory is flushed, and the catalog with the new collection begins
\* to be written.
CreateEntry ==
    /\ Applying("create") /\ job.step = 0 /\ job.made
    /\ disk' = [disk EXCEPT !.dirs = Kept(@), !.kept = TRUE]
    /\ job' = [job EXCEPT !.step = 1,
                          !.bytes = EncodeCatalog(mem.registry \cup {job.frame.config}, Watermark(mem))]
    /\ UNCHANGED <<phase, mem, queue, waits, ending, told, faults>>

\* Only when it is on disk do readers see it.
Publish ==
    /\ Applying("create") /\ job.step > Len(Steps)
    /\ LET config == job.frame.config
       IN  mem' = [mem EXCEPT !.registry = @ \cup {config}, !.published = @ \cup {config},
                              !.stores = Entered(@, config.id, disk.dirs[config.id].store),
                              !.last = Max({@, job.frame.lsn})]
    /\ told' = Told /\ Done /\ UNCHANGED disk

-----------------------------------------------------------------------------
(***************************************************************************)
(* Writing the catalog's file, for whichever job.                          *)
(***************************************************************************)
WriteCatalog ==
    /\ job.step \in DOMAIN Steps
    /\ disk' = [disk EXCEPT !.catalog = After(@, job.step, job.bytes),
                            !.dirs = IF Steps[job.step] = "syncdir" THEN Kept(@) ELSE @,
                            !.kept = @ \/ (Steps[job.step] = "syncdir" /\ phase # "opening")]
    /\ job' = [job EXCEPT !.step = @ + 1]
    /\ UNCHANGED <<phase, mem, queue, waits, ending, told, faults>>

\* The collections whose stores are being made, and what may be left half
\* made of them: FlatIndex::create sizes and fills vectors.idx in place.
Making ==
    CASE Applying("create") /\ job.step = 0 /\ ~job.made /\ ~Taken(job.frame.config) ->
            {job.frame.config}
      [] job.kind = "register" /\ job.step > Len(Steps) -> mem.registry
      [] OTHER -> {}
LeftHalf == {disk.half} \cup {disk.half \cup {id} : id \in Ids(Making) \ DOMAIN disk.dirs}

StepFails ==
    /\ job.kind # "none" /\ (job.kind = "apply" => job.frame.kind = "create" /\ ~Taken(job.frame.config))
    /\ (job.step <= Len(Steps) \/ Making # {}) /\ Fault("step")
    /\ job.kind = "register" /\ job.step = Len(Steps) => "entry" \in Faults
    /\ \E half \in LeftHalf : disk' = [disk EXCEPT !.catalog = Abandoned(@), !.half = half]
    /\ Broken("failed")

\* The stores of one collection are saved.
SaveStores ==
    /\ job.kind = "checkpoint" /\ job.step = 0
    /\ \E id \in job.left :
          /\ disk' = [disk EXCEPT !.dirs[id].store = mem.stores[id]]
          /\ job' = Saving([job EXCEPT !.left = @ \ {id}])
    /\ UNCHANGED <<phase, mem, queue, waits, ending, told, faults>>

\* What all of them have is dropped from the log.
Truncate ==
    /\ job.kind = "checkpoint" /\ job.step > Len(Steps)
    /\ LET lsns == {mem.stores[id].lsn : id \in DOMAIN mem.stores} \cup {Watermark(mem)}
       IN  disk' = [disk EXCEPT !.log = Above(@, Min(lsns))]
    /\ Done /\ UNCHANGED <<mem, told>>

-----------------------------------------------------------------------------
(***************************************************************************)
(* Opening: the registry, the stores, the log.                             *)
(***************************************************************************)
\* Another configuration under the same id or name is an error.
Distinct(configs) == \A c, d \in configs : c.id = d.id \/ c.name = d.name => c = d

Start ==
    /\ phase \in {"down", "failed", "refused"} /\ job = Idle
    /\ \E supplied \in Openings :
          LET loaded == LoadCatalog(disk.catalog.entry)
              registry == loaded.configs \cup supplied
          IN  CASE ~loaded.ok -> phase' = "refused" /\ UNCHANGED <<mem, job>>
                [] loaded.ok /\ ~Distinct(registry) -> phase' = "failed" /\ UNCHANGED <<mem, job>>
                [] OTHER ->
                      /\ phase' = "opening"
                      /\ mem' = [NoMemory EXCEPT !.registry = registry, !.last = loaded.lsn]
                      /\ job' = IF registry # loaded.configs \/ ~disk.catalog.entry.there
                                THEN [Job("register", "none", NoFrame) EXCEPT
                                        !.step = 1, !.bytes = EncodeCatalog(registry, loaded.lsn)]
                                ELSE [Job("register", "none", NoFrame) EXCEPT !.step = Len(Steps) + 1]
    /\ UNCHANGED <<disk, queue, waits, ending, told, faults>>

\* The stores of a collection that are not there are made, those of one that
\* cannot be opened end it.
MakeMissing ==
    /\ job.kind = "register" /\ job.step > Len(Steps)
    /\ \E c \in mem.registry :
          IF ~Opens(c) THEN Broken("refused") /\ UNCHANGED <<disk, faults>>
          ELSE /\ c.id \notin DOMAIN disk.dirs
               /\ disk' = [disk EXCEPT !.dirs = Opened(@, {c})]
               /\ UNCHANGED <<phase, mem, queue, job, waits, ending, told, faults>>

\* All are open; the log is read from the lowest watermark on.
OpenStores ==
    /\ job.kind = "register" /\ job.step > Len(Steps)
    /\ \A c \in mem.registry : Opens(c) /\ c.id \in DOMAIN disk.dirs
    /\ LET stores == [id \in Ids(mem.registry) |-> disk.dirs[id].store]
           skip == Min({stores[id].lsn : id \in DOMAIN stores} \cup {mem.last})
       IN  mem' = [mem EXCEPT !.published = mem.registry, !.stores = stores,
                              !.floors = [id \in DOMAIN stores |-> stores[id].lsn],
                              !.last = skip, !.next = skip + 1]
    /\ job' = Idle
    /\ UNCHANGED <<phase, disk, queue, waits, ending, told, faults>>

Replayed == Above(disk.log, mem.read)

Replay ==
    /\ phase = "opening" /\ job = Idle
    /\ \E frame \in Replayed :
          /\ \A other \in Replayed : frame.lsn <= other.lsn
          /\ job' = IF frame.lsn <= mem.last THEN Idle ELSE Job("apply", "none", frame)
          /\ mem' = [mem EXCEPT !.next = Max({@, frame.lsn + 1}), !.read = frame.lsn]
    /\ UNCHANGED <<phase, disk, queue, waits, ending, told, faults>>

\* The log is there to be appended to; the threads are started.  What open
\* was given is registered from now on.
Ready ==
    /\ phase = "opening" /\ job = Idle /\ Replayed = {}
    /\ phase' = "up" /\ told' = [told EXCEPT !.configs = @ \cup (mem.registry \cap UNION Openings)]
    /\ UNCHANGED <<mem, disk, queue, job, waits, ending, faults>>

-----------------------------------------------------------------------------
(***************************************************************************)
(* Closing, and not being able to.                                         *)
(***************************************************************************)
\* The log's thread before the flusher: a variant.
CloseOrder_LogFirst == <<"compactor", "checkpoint", "log", "flusher">>
CloseOrder == <<"compactor", "flusher", "checkpoint", "log">>
DropOrder == <<"compactor", "flusher", "log">>

\* close takes the Db away from the callers, so none is in a call.
Close ==
    /\ phase = "up" /\ \A c \in Callers : waits[c] = "idle"
    /\ phase' = "closing" /\ ending' \in {CloseOrder, DropOrder}
    /\ UNCHANGED <<mem, disk, queue, job, waits, told, faults>>

\* A thread that is told to stop, and is not waiting for an answer, ends.
Leave(t) ==
    /\ ending # <<>> /\ Head(ending) = t /\ waits[t] = "idle"
    /\ waits' = [waits EXCEPT ![t] = "gone"]
    /\ UNCHANGED <<phase, mem, disk, queue, job, ending, told, faults>>
Join ==
    /\ ending # <<>> /\ Head(ending) \in {"compactor", "flusher"} /\ waits[Head(ending)] = "gone"
    /\ ending' = Tail(ending)
    /\ UNCHANGED <<phase, mem, disk, queue, job, waits, told, faults>>
LastCheckpoint ==
    /\ ending # <<>> /\ Head(ending) = "checkpoint" /\ waits.main = "idle"
    /\ Ask("main", "checkpoint", NoConfig) /\ ending' = Tail(ending)
    /\ UNCHANGED <<phase, mem, disk, job, told, faults>>

\* The commit thread ends when nobody is left who could send to it.
Shutdown ==
    /\ ending # <<>> /\ Head(ending) = "log" /\ waits.main = "idle"
    /\ queue = <<>> /\ job = Idle /\ {waits.flusher, waits.compactor} = {"gone"}
    /\ phase' = "down" /\ mem' = NoMemory /\ ending' = <<>> /\ waits' = [t \in Threads |-> "idle"]
    /\ UNCHANGED <<disk, queue, job, told, faults>>

\* The entries of the process that ended are flushed before long.
Settled(d) ==
    [d EXCEPT !.catalog = Abandoned([@ EXCEPT !.flushed = d.catalog.entry]),
              !.dirs = Kept(@), !.kept = TRUE]

\* The process ends, or the power does: a directory entry never flushed may
\* go with it.
Kill ==
    /\ phase \in {"opening", "up", "closing"}
    /\ phase' = "down" /\ mem' = NoMemory /\ queue' = <<>> /\ job' = Idle
    /\ waits' = [t \in Threads |-> "idle"] /\ ending' = <<>>
    /\ \/ \E half \in LeftHalf :
             LET left == IF "entry" \in Faults THEN [disk EXCEPT !.catalog = Abandoned(@)]
                         ELSE Settled(disk)
             IN  disk' = [left EXCEPT !.half = half]
       \/ \E left \in AfterPowerCut(disk.catalog),
             lost \in SUBSET {id \in DOMAIN disk.dirs : ~disk.dirs[id].kept},
             half \in SUBSET UNION LeftHalf,
             gone \in {FALSE, "entry" \in Faults /\ ~disk.kept} :
             disk' = [disk EXCEPT !.catalog = left, !.half = half,
                                  !.dirs = [id \in DOMAIN @ \ lost |-> @[id]],
                                  !.log = IF gone THEN {} ELSE @]
    /\ UNCHANGED <<told, faults>>

CommitThread ==
    \/ Refuse \/ LogFrame \/ LogFails \/ StartCheckpoint \/ Control
    \/ ApplyInsert \/ CreateAgain \/ CreateStores \/ CreateEntry \/ Publish
    \/ WriteCatalog \/ StepFails \/ SaveStores \/ Truncate
Main == Start \/ MakeMissing \/ OpenStores \/ Replay \/ Ready \/ Close
Ends == Leave("compactor") \/ Leave("flusher") \/ Join \/ LastCheckpoint \/ Shutdown

Next ==
    \/ \E c \in Callers : Create(c) \/ Insert(c)
    \/ Tick \/ Compact \/ CommitThread \/ Main \/ Ends \/ Kill

\* Every thread goes on as long as it can; nobody has to call or to close.
Fairness == WF_vars(CommitThread) /\ WF_vars(Ends)
Spec == Init /\ [][Next]_vars
FairSpec == Spec /\ Fairness

-----------------------------------------------------------------------------
\* A collection that a caller was told exists is there whenever the Db is,
\* after any crash, half a create or failed step, with the id, name and
\* schema it was told, found by readers; so is every insert that was
\* acknowledged, in the collection it was made for.  No two collections have
\* an id or a name in common (Db::create_collection, IndexApplier::
\* apply_create and checkpoint, Db::open).
CatalogComplete ==
    phase = "up" =>
        /\ told.configs \subseteq mem.published /\ mem.published = mem.registry
        /\ Cardinality(Ids(mem.registry)) = Cardinality(mem.registry)
        /\ Cardinality(Called(mem.registry)) = Cardinality(mem.registry)
        /\ \A i \in told.inserts :
              i.config \in mem.published /\ i.lsn \in mem.stores[i.config.id].rows

\* Whatever a crash or an error left behind, it does not keep the Db from
\* being opened, unless it left a vectors.idx half made: of its other files a
\* half-made collection is absorbed, and a create that is replayed is no
\* error (open_collection, apply_create).
OpensAgain == phase = "refused" => disk.half # {}

\* engine/mod.rs:232-236: "Every artifact is open-if-exists-else-create, which
\* is what makes both `Db::open` and CreateCollection replay idempotent at the
\* file level: a half-materialized collection from a crash is absorbed."  A
\* vectors.idx that exists is opened, whether it was finished or not.
HalfMadeAbsorbed == phase # "refused"

\* A close comes to its end, whatever the flusher and the compactor were at
\* (Db::close, Drop for Db).
CloseEnds == phase = "closing" ~> phase # "closing"
=============================================================================
