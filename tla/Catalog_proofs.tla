--------------------------- MODULE Catalog_proofs ---------------------------
(***************************************************************************)
(* Theorems about Catalog, for any callers, names, schemas and collections *)
(* that an embedder may open with, any number of frames and of failures,   *)
(* crashes and power cuts at every step.                                   *)
(*                                                                         *)
(* The argument: whatever of a catalog's file a crash leaves, the log has  *)
(* the rest.  A collection is found (Finds) in the catalog, or in a create *)
(* above the catalog's LSN; the catalog that is on disk and the one that a *)
(* power cut may bring back each find every collection with an insert in   *)
(* the log or an acknowledged one (RecallInv).  Opening carries this over  *)
(* to memory: what is not registered yet is awaited, by a create that has  *)
(* not been replayed and comes before any insert of its collection         *)
(* (HomeInv).  An acknowledged insert is in a directory that stays, or in  *)
(* the log, and never below a watermark without being in the rows          *)
(* (DirInv); that the next insert is above every watermark is CoverInv.    *)
(***************************************************************************)
EXTENDS Catalog, FiniteSetTheorems, TLAPS

Supplied == UNION Openings
NoFlush == "flush" \notin Faults
NoStep == "step" \notin Faults
Shapes == {w.shape : w \in Wanted} \cup {c.shape : c \in Supplied}

\* What fails is the catalog's files, or the log's flushes: with both, a
\* create that failed and one that was made for its id can change places.
OneKindOfFailure == "entry" \notin Faults /\ (NoFlush \/ NoStep)
\* The embedder declares the same collections whenever it opens.
OneList == \A a, b \in Openings : a = b
OneShape == \A a, b \in Shapes : a = b

-----------------------------------------------------------------------------
(* What the parts of the state are made of.                                *)
IsConfig(c) == c.id \in Nat /\ c.shape \in Shapes
IsConfigs(configs) == IsFiniteSet(configs) /\ \A c \in configs : IsConfig(c)
IsStore(s) ==
    s = [shape |-> s.shape, lsn |-> s.lsn, rows |-> s.rows] /\ s.shape \in Shapes /\ s.lsn \in Nat
IsDir(d) == d = OnDisk(d.store, d.kept) /\ IsStore(d.store) /\ d.kept \in BOOLEAN
IsFrame(f) ==
    /\ f = Frame(f.kind, f.config, f.lsn) /\ f.kind \in {"create", "insert"}
    /\ IsConfig(f.config) /\ f.lsn \in Nat \ {0}
IsContent(x) ==
    /\ x = [there |-> x.there, bytes |-> x.bytes, synced |-> TRUE] /\ x.there \in BOOLEAN
    /\ LoadCatalog(x).ok = TRUE /\ IsConfigs(LoadCatalog(x).configs) /\ LoadCatalog(x).lsn \in Nat

\* The catalog that is read now, and the one after a power cut; whether memory
\* has been loaded from it.
Entry == LoadCatalog(disk.catalog.entry)
Flushed == LoadCatalog(disk.catalog.flushed)
Loaded == phase \in {"up", "closing"} \/ (phase = "opening" /\ job.kind # "register")
Creating == job.kind = "apply" /\ job.frame.kind = "create"

\* The log: one frame per LSN, and a create before its collection's inserts.
LogOK(log) ==
    /\ \A f \in log : IsFrame(f)
    /\ \A f, g \in log : f.lsn = g.lsn => f = g
    /\ \A f, g \in log : f.kind = "create" /\ g.kind = "insert" /\ f.config = g.config => f.lsn < g.lsn
LogInv == LogOK(disk.log)

\* The catalog's file: always one that loads, whatever step a job is at.
Unsynced(bytes) == Content(bytes, FALSE)
Synced(bytes) == Content(bytes, TRUE)
StepOK(file, step, bytes) ==
    /\ step = 2 => file.tmp = Unsynced(<<>>)
    /\ step = 3 => file.tmp = Unsynced(bytes)
    /\ step = 4 => file.tmp = Synced(bytes)
    /\ step = 5 => file.entry = Synced(bytes)
FileInv ==
    /\ IsContent(disk.catalog.entry) /\ IsContent(disk.catalog.flushed)
    /\ StepOK(disk.catalog, job.step, job.bytes)
    /\ job.step = 6 /\ job.kind # "register" =>
          disk.catalog.entry = Synced(job.bytes) /\ disk.catalog.flushed = disk.catalog.entry
    /\ NoStep => disk.catalog.entry = disk.catalog.flushed \/ job.step = 5
    /\ \/ disk.catalog.entry.there <=> disk.catalog.flushed.there
       \/ job.kind = "register" /\ job.step = 5

\* What a catalog and the log lead to.  Without failing flushes a create in the
\* log is as good as an entry; with them it may belong to nobody.
Coming(log, lsn, k) == \E f \in log : f.kind = "create" /\ f.config = k /\ f.lsn > lsn
Finds(log, c, k) == k \in c.configs \/ (NoFlush /\ Coming(log, c.lsn, k))
Fresh == disk.log = {} /\ told.configs = {} /\ told.inserts = {} /\ DOMAIN disk.dirs = {}
RecallOK(there, c, log, tc, ti, known) ==
    /\ tc \subseteq c.configs
    /\ there => Supplied \subseteq c.configs
    /\ \A f \in log : f.kind = "insert" => Finds(log, c, f.config)
    /\ \A i \in ti : Finds(log, c, i.config)
    /\ NoFlush /\ there =>
          /\ \A f \in log : f.kind = "create" => Finds(log, c, f.config)
          /\ \A k \in known : Finds(log, c, k)
RecallInv ==
    /\ RecallOK(disk.catalog.entry.there, Entry, disk.log, told.configs, told.inserts, Entry.configs)
    /\ RecallOK(disk.catalog.flushed.there, Flushed, disk.log, told.configs, told.inserts, Entry.configs)
    /\ ~disk.catalog.entry.there \/ ~disk.catalog.flushed.there => Fresh
    /\ Flushed.configs \subseteq Entry.configs

\* The collections' directories, and the rows in them.
HeldOK(i, log, dirs) ==
    /\ i.lsn \in Nat \ {0}
    /\ i.config.id \in DOMAIN dirs /\ i.lsn <= dirs[i.config.id].store.lsn
          => i.lsn \in dirs[i.config.id].store.rows
    /\ \/ /\ i.config.id \in DOMAIN dirs /\ dirs[i.config.id].kept
          /\ i.lsn \in dirs[i.config.id].store.rows
       \/ Frame("insert", i.config, i.lsn) \in log
DirInv ==
    /\ \A id \in DOMAIN disk.dirs : IsDir(disk.dirs[id])
    /\ \A i \in told.inserts : HeldOK(i, disk.log, disk.dirs)

\* When no flush of the log fails: what is in it is what is registered.
Known(configs, log) == configs \cup {f.config : f \in {g \in log : g.kind = "create"}}
KnownIn(known, dirs) ==
    /\ Distinct(known)
    /\ DOMAIN dirs \subseteq Ids(known)
    /\ \A c \in known : c.id \in DOMAIN dirs => dirs[c.id].store.shape = c.shape
KnownInv == NoFlush => KnownIn(Known(Entry.configs, disk.log), disk.dirs)

\* LSNs: nothing on disk or in memory has a watermark above what the LSNs will
\* be counted from again, the log and the lowest watermark of what is left.
Base(dirs, id) == IF id \in DOMAIN dirs /\ dirs[id].kept THEN dirs[id].store.lsn ELSE 0
Marks(dirs) == {dirs[id].store.lsn : id \in DOMAIN dirs} \cup {Entry.lsn, Flushed.lsn}
Bases == {Base(disk.dirs, c.id) : c \in Entry.configs \cup Flushed.configs} \cup {Entry.lsn, Flushed.lsn}
MemLsns == IF Loaded THEN {mem.stores[id].lsn : id \in DOMAIN mem.stores} \cup {mem.last} ELSE {}
Above0(log, l, m) == l <= m \/ \E f \in log : l <= f.lsn
CoverInv == \A l \in Marks(disk.dirs) \cup MemLsns, m \in Bases \cup MemLsns : Above0(disk.log, l, m)

\* Memory: the stores are no older than their directories, the registry is the
\* catalog on disk but for a create at work or one that poisoned the log.
MemInv ==
    Loaded =>
    /\ mem.published = mem.registry /\ IsConfigs(mem.registry) /\ Distinct(mem.registry)
    /\ DOMAIN mem.stores = Ids(mem.registry) /\ DOMAIN mem.stores \subseteq DOMAIN mem.floors
    /\ DOMAIN mem.stores \subseteq DOMAIN disk.dirs
    /\ \A id \in DOMAIN mem.stores :
          /\ IsStore(mem.stores[id]) /\ mem.floors[id] \in Nat /\ mem.floors[id] <= mem.stores[id].lsn
          /\ disk.dirs[id].store.lsn <= mem.stores[id].lsn
          /\ disk.dirs[id].store.shape = mem.stores[id].shape
    /\ mem.last \in Nat /\ mem.next \in Nat /\ mem.read \in Nat /\ mem.last < mem.next
    /\ mem.poisoned \in BOOLEAN /\ (~mem.poisoned => mem.failed = 0)
    /\ told.configs \subseteq mem.registry /\ Supplied \subseteq mem.registry
    /\ mem.registry \subseteq Entry.configs
    /\ \A c \in Entry.configs :
          c \in mem.registry \/ mem.poisoned \/ (Creating /\ job.made /\ c = job.frame.config)
    /\ disk.catalog.entry.there /\ disk.catalog.flushed.there
    /\ \A f \in disk.log : f.lsn < mem.next \/ (phase = "opening" /\ f.lsn > mem.read)

\* What has been replayed, or is up.
ToCome(f) == phase = "opening" /\ f.lsn > mem.read /\ f.lsn > mem.last
Doing(f) == job.kind = "apply" /\ job.frame = f
Awaited(k) == \E f \in disk.log : f.kind = "create" /\ f.config = k /\ (ToCome(f) \/ Doing(f))
HomeInv ==
    Loaded =>
    /\ \A f \in disk.log : f.kind = "insert" =>
          f.config \in mem.registry \/ (phase = "opening" /\ NoFlush /\ Awaited(f.config))
    /\ \A i \in told.inserts :
          i.config \in mem.registry \/ (phase = "opening" /\ NoFlush /\ Awaited(i.config))
    /\ NoFlush => \A f \in disk.log : f.kind = "create" =>
          f.config \in mem.registry \/ (mem.poisoned /\ phase # "opening") \/ Awaited(f.config)
    /\ \A i \in told.inserts : i.config.id \in DOMAIN mem.stores =>
          \/ i.lsn \in mem.stores[i.config.id].rows
          \/ \E f \in disk.log : /\ f = Frame("insert", i.config, i.lsn) /\ phase = "opening"
                                 /\ ToCome(f) \/ Doing(f)
                                 /\ i.lsn > mem.floors[i.config.id]

\* What the commit thread, or recovery, is at: phases, the registration by open,
\* a frame being applied, a checkpoint.
JobInv ==
    /\ phase \in {"down", "opening", "up", "closing", "failed", "refused"}
    /\ job.kind \in {"none", "register", "apply", "checkpoint"}
    /\ job.kind = "none" => job = Idle
    /\ phase \in {"down", "failed", "refused"} => job = Idle /\ mem = NoMemory
    /\ phase = "opening" => ~mem.poisoned /\ job.kind # "checkpoint" /\ job.from = "none"
    /\ mem.poisoned => job = Idle
    /\ job.step \in 0 .. 6
RegisterInv ==
    job.kind = "register" =>
          /\ phase = "opening" /\ job.step >= 1
          /\ mem.poisoned = FALSE /\ mem.failed = 0 /\ mem.read = 0
          /\ IsConfigs(mem.registry) /\ Distinct(mem.registry) /\ Supplied \subseteq mem.registry
          /\ job.step <= 5 => Fresh /\ mem.last = 0 /\ mem.registry = Supplied /\ job.bytes = EncodeCatalog(mem.registry, mem.last)
          /\ job.step <= 4 => ~disk.catalog.entry.there
          /\ job.step = 6 => disk.catalog.entry.there /\ Entry.configs = mem.registry /\ Entry.lsn = mem.last
ApplyInv ==
    job.kind = "apply" =>
          /\ job.frame \in disk.log /\ job.frame.lsn > mem.last
          /\ phase = "opening" => job.frame.lsn = mem.read
          /\ phase # "opening" => \A id \in DOMAIN mem.stores : mem.stores[id].lsn < job.frame.lsn
          /\ job.frame.kind = "insert" => job.step = 0 /\ (phase # "opening" => job.frame.config \in mem.registry)
          /\ Creating =>
               /\ phase # "opening" => ~Taken(job.frame.config)
               /\ job.made \in BOOLEAN /\ (job.step > 0 => job.made)
               /\ job.made => /\ ~Taken(job.frame.config)
                              /\ job.frame.config.id \in DOMAIN disk.dirs /\ job.frame.config.id \in DOMAIN mem.floors
                              /\ mem.floors[job.frame.config.id] = disk.dirs[job.frame.config.id].store.lsn
                              /\ disk.dirs[job.frame.config.id].store.shape = job.frame.config.shape
               /\ job.step > 0 => disk.dirs[job.frame.config.id].kept
                                  /\ job.bytes = EncodeCatalog(mem.registry \cup {job.frame.config}, mem.last)
CheckpointInv ==
    job.kind = "checkpoint" =>
          /\ phase \in {"up", "closing"}
          /\ job.left \subseteq DOMAIN mem.stores /\ (job.step = 0 <=> job.left # {})
          /\ \A id \in DOMAIN mem.stores \ job.left : disk.dirs[id].store = mem.stores[id]
          /\ job.step > 0 => job.bytes = EncodeCatalog(mem.registry, mem.last)
          /\ job.step = 6 => \A id \in DOMAIN disk.dirs : disk.dirs[id].kept

\* What each thread waits for is in the queue, or is what the commit thread
\* is at.
IsSeq(q) == q \in Seq({q[n] : n \in DOMAIN q})
Kinds == {"create", "insert", "checkpoint", "control"}
At == IF job.kind = "apply" THEN job.frame.kind ELSE job.kind
WaitInv ==
    /\ DOMAIN waits = Threads /\ IsSeq(queue)
    /\ phase \in {"opening", "down", "failed", "refused"} => queue = <<>>
    /\ phase # "closing" => ending = <<>>
    /\ \A n \in DOMAIN queue :
          queue[n].from \in Threads /\ queue[n].kind \in Kinds /\ waits[queue[n].from] = queue[n].kind
    /\ \A m, n \in DOMAIN queue : queue[m].from = queue[n].from => m = n
    /\ phase # "opening" /\ job # Idle =>
           /\ job.from \in Threads /\ waits[job.from] = At
           /\ \A n \in DOMAIN queue : queue[n].from # job.from
    /\ \A c, d \in Callers : waits[c] = "create" /\ waits[d] = "create" => c = d
    /\ \A t \in Threads : waits[t] \in {"create", "insert"} => t \in Callers
    /\ \A n \in DOMAIN queue :
          /\ queue[n].kind = "create" => ~Taken(queue[n].config) /\ IsConfig(queue[n].config)
          /\ queue[n].kind = "insert" => queue[n].config \in mem.registry
          /\ queue[n].kind \in {"create", "insert"} => phase = "up"

\* The fields of the variables.
IsMem(m) ==
    DOMAIN m = {"registry", "published", "stores", "floors", "last", "failed", "poisoned",
                "next", "read"}
IsJob(j) == DOMAIN j = {"kind", "from", "frame", "step", "made", "left", "bytes"}
IsFile(f) == DOMAIN f = {"entry", "flushed", "tmp"}
IsDisk(d) == DOMAIN d = {"catalog", "dirs", "half", "log", "kept"} /\ IsFile(d.catalog)
IsTold(t) == DOMAIN t = {"configs", "inserts"}
TypeInv == IsMem(mem) /\ IsJob(job) /\ IsDisk(disk) /\ IsTold(told)

\* The inductive invariant.
Inv ==
    /\ TypeInv /\ LogInv /\ FileInv /\ RecallInv /\ DirInv /\ KnownInv /\ CoverInv
    /\ MemInv /\ HomeInv /\ JobInv /\ RegisterInv /\ ApplyInv /\ CheckpointInv /\ WaitInv

-----------------------------------------------------------------------------
(* Every non-empty set of naturals has a least element.                    *)
LEMMA LeastNatural ==
    ASSUME NEW T, T \subseteq Nat, T # {}
    PROVE  \E n \in T : \A m \in T : n <= m
<1>1. IsWellFoundedOn(OpToRel(<, Nat), Nat)
    BY NatLessThanWellFounded
<1>2. PICK n \in T : \A m \in T : ~(<<m, n>> \in OpToRel(<, Nat))
    BY <1>1, WFMin
<1>3. \A m \in T : ~(<<m, n>> \in {x \in Nat \X Nat : x[1] < x[2]})
    BY <1>2 DEF OpToRel
<1>4. \A m \in T : ~(m < n)
    BY <1>3
<1>5. \A m \in T : n <= m
    BY <1>4
<1> QED BY <1>5

(* Min and Max are what their names say, of a set that has them.           *)
LEMMA MinIsLeast ==
    ASSUME NEW T, T \subseteq Nat, T # {}
    PROVE  Min(T) \in T /\ \A m \in T : Min(T) <= m
BY LeastNatural DEF Min

LEMMA MaxOfTwo ==
    ASSUME NEW i \in Nat, NEW j \in Nat
    PROVE  Max({i, j}) = IF i > j THEN i ELSE j
<1> DEFINE k == IF i > j THEN i ELSE j
<1>1. k \in {i, j} /\ \A m \in {i, j} : k >= m
    OBVIOUS
<1> QED BY <1>1 DEF Max

(* A finite set of naturals has a greatest element.                        *)
LEMMA FiniteIsBounded ==
    ASSUME NEW T, T \subseteq Nat, IsFiniteSet(T)
    PROVE  \E b \in Nat : \A m \in T : m <= b
<1> DEFINE Bounded(S) == \E b \in Nat : \A m \in S : m <= b
           Sizes == {Cardinality(S) : S \in {R \in SUBSET T : ~Bounded(R)}}
<1>1. SUFFICES ASSUME ~Bounded(T) PROVE FALSE
    OBVIOUS
<1>2. \A S \in SUBSET T : IsFiniteSet(S) /\ Cardinality(S) \in Nat
    BY FS_Subset, FS_CardinalityType
<1>3. Sizes \subseteq Nat /\ Sizes # {}
    BY <1>1, <1>2
<1>4. PICK n \in Sizes : \A m \in Sizes : n <= m
    BY <1>3, LeastNatural
<1>5. PICK S \in SUBSET T : ~Bounded(S) /\ n = Cardinality(S)
    BY <1>4
<1>6. PICK x \in S : TRUE
    BY <1>5, 0 \in Nat
<1>7. Cardinality(S \ {x}) = n - 1 /\ S \ {x} \in SUBSET T
    BY <1>2, <1>5, <1>6, FS_RemoveElement
<1>8. Bounded(S \ {x})
    <2>1. Cardinality(S \ {x}) \notin Sizes
        BY <1>3, <1>4, <1>7
    <2> QED BY <1>7, <2>1
<1>9. PICK b \in Nat : \A m \in S \ {x} : m <= b
    BY <1>8
<1>10. x \in Nat
    BY <1>5, <1>6
<1>11. b + x \in Nat /\ \A m \in S : m <= b + x
    BY <1>5, <1>9, <1>10
<1> QED BY <1>5, <1>11

LEMMA MaxOfFinite ==
    ASSUME NEW T, T \subseteq Nat, T # {}, IsFiniteSet(T)
    PROVE  Max(T) \in T /\ \A m \in T : m <= Max(T)
<1> DEFINE B == {n \in Nat : \A m \in T : m <= n}
<1>1. B \subseteq Nat /\ B # {}
    BY FiniteIsBounded
<1>2. PICK n \in B : \A m \in B : n <= m
    BY <1>1, LeastNatural
<1>3. ASSUME n \notin T PROVE FALSE
    <2>1. PICK t \in T : TRUE
        OBVIOUS
    <2>2. n \in Nat /\ t \in Nat /\ t <= n /\ t # n
        BY <1>2, <1>3, <2>1
    <2>3. n - 1 \in Nat
        BY <2>2
    <2>4. \A m \in T : m <= n - 1
        BY <1>2, <1>3
    <2>5. n - 1 \in B
        BY <2>3, <2>4
    <2> QED BY <1>2, <2>2, <2>5
<1>4. n \in T /\ \A m \in T : n >= m
    BY <1>2, <1>3
<1>5. Max(T) \in T /\ \A m \in T : Max(T) >= m
    BY <1>4 DEF Max
<1> QED BY <1>5

(* Sequences as a queue uses them.                                         *)
LEMMA SeqIs ==
    ASSUME NEW S, NEW q \in Seq(S)
    PROVE  IsSeq(q)
<1>1. Len(q) \in Nat /\ DOMAIN q = 1 .. Len(q) /\ q = [n \in 1 .. Len(q) |-> q[n]]
    OBVIOUS
<1> DEFINE R == {q[n] : n \in DOMAIN q}
<1>2. \A n \in 1 .. Len(q) : q[n] \in R
    BY <1>1
<1> HIDE DEF R
<1>3. q \in Seq(R)
    BY <1>1, <1>2
<1> QED BY <1>3 DEF IsSeq, R

LEMMA AppendIs ==
    ASSUME NEW q, IsSeq(q), NEW m
    PROVE  /\ IsSeq(Append(q, m)) /\ DOMAIN Append(q, m) = DOMAIN q \cup {Len(q) + 1}
           /\ \A n \in DOMAIN q : Append(q, m)[n] = q[n]
           /\ Append(q, m)[Len(q) + 1] = m /\ Len(q) + 1 \notin DOMAIN q
<1> DEFINE R == {q[n] : n \in DOMAIN q}
<1>1. q \in Seq(R)
    BY DEF IsSeq
<1> HIDE DEF R
<1>2. q \in Seq(R \cup {m})
    BY <1>1
<1>3. Append(q, m) \in Seq(R \cup {m})
    BY <1>2
<1>4. IsSeq(Append(q, m))
    BY <1>3, SeqIs
<1> QED BY <1>1, <1>4

LEMMA TailIs ==
    ASSUME NEW q, IsSeq(q), q # <<>>
    PROVE  /\ IsSeq(Tail(q)) /\ 1 \in DOMAIN q /\ Head(q) = q[1]
           /\ \A n \in DOMAIN Tail(q) : n + 1 \in DOMAIN q /\ n + 1 # 1 /\ Tail(q)[n] = q[n + 1]
           /\ \A m, n \in DOMAIN Tail(q) : m + 1 = n + 1 => m = n
<1> DEFINE R == {q[n] : n \in DOMAIN q}
<1>1. q \in Seq(R)
    BY DEF IsSeq
<1> HIDE DEF R
<1>2. Tail(q) \in Seq(R)
    BY <1>1
<1>3. IsSeq(Tail(q))
    BY <1>2, SeqIs
<1>4. /\ Len(q) \in Nat /\ Len(q) > 0
      /\ DOMAIN Tail(q) = 1 .. Len(q) - 1 /\ DOMAIN q = 1 .. Len(q)
    BY <1>1, <1>2
<1> QED BY <1>1, <1>2, <1>3, <1>4

(* What is encoded is decoded.                                             *)
LEMMA SealedIsIntact ==
    ASSUME NEW S, NEW body \in Seq(S)
    PROVE  /\ Intact(Sealed(body)) = TRUE
           /\ \A k \in 1 .. Len(body) : Sealed(body)[k] = body[k]
<1> DEFINE crc == [f |-> "crc", v |-> body]
           All == S \cup {crc}
           bytes == Append(body, crc)
<1>1. body \in Seq(All) /\ crc \in All /\ Len(body) \in Nat
    OBVIOUS
<1> HIDE DEF All
<1>2. /\ bytes \in Seq(All) /\ Len(bytes) = Len(body) + 1 /\ bytes[Len(bytes)] = crc
      /\ \A k \in 1 .. Len(body) : bytes[k] = body[k]
    BY <1>1
<1> HIDE DEF bytes
<1>3. bytes # <<>> /\ Last(bytes) = crc
    BY <1>1, <1>2 DEF Last
<1>4. Front(bytes) = body
    <2>1. Front(bytes) = SubSeq(bytes, 1, Len(body))
        BY <1>1, <1>2 DEF Front
    <2>2. Len(SubSeq(bytes, 1, Len(body))) = Len(body)
          /\ \A k \in 1 .. Len(body) : SubSeq(bytes, 1, Len(body))[k] = body[k]
        BY <1>1, <1>2
    <2>3. SubSeq(bytes, 1, Len(body)) \in Seq(All)
        BY <1>1, <1>2
    <2> QED BY <1>1, <2>1, <2>2, <2>3
<1>5. crc.f = "crc" /\ crc.v = body
    OBVIOUS
<1>6. Intact(bytes) = TRUE
    BY <1>3, <1>4, <1>5 DEF Intact
<1> QED BY <1>2, <1>6 DEF Sealed, bytes

LEMMA EncodedIsDecoded ==
    ASSUME NEW configs, NEW lsn
    PROVE  DecodeCatalog(EncodeCatalog(configs, lsn)) = [ok |-> TRUE, configs |-> configs, lsn |-> lsn]
<1> DEFINE a == [f |-> "magic", v |-> "CAT0"]
           b == [f |-> "version", v |-> 3]
           c == [f |-> "lsn", v |-> lsn]
           d == [f |-> "body", v |-> configs]
           body == <<a, b, c, d>>
<1>1. c.v = lsn /\ d.v = configs
    OBVIOUS
<1> HIDE DEF a, b, c, d
<1>2. body \in Seq({a, b, c, d}) /\ Len(body) = 4 /\ body[3] = c /\ body[4] = d
    OBVIOUS
<1>3. EncodeCatalog(configs, lsn) = Sealed(body)
    BY DEF EncodeCatalog, a, b, c, d
<1> HIDE DEF body
<1>4. Intact(Sealed(body)) = TRUE /\ Sealed(body)[3] = c /\ Sealed(body)[4] = d
    <2>1. PICK S : body \in Seq(S)
        BY <1>2
    <2>2. 3 \in 1 .. Len(body) /\ 4 \in 1 .. Len(body)
        BY <1>2
    <2> QED BY <1>2, <2>1, <2>2, SealedIsIntact
<1> QED BY <1>1, <1>3, <1>4 DEF DecodeCatalog

\* What LoadCatalog makes of a file that holds an encoded catalog.
LEMMA EncodedIsLoaded ==
    ASSUME NEW configs, NEW lsn, NEW x, x = Synced(EncodeCatalog(configs, lsn))
    PROVE  LoadCatalog(x) = [ok |-> TRUE, configs |-> configs, lsn |-> lsn]
BY EncodedIsDecoded DEF LoadCatalog, Content, Synced

LEMMA AbsentIsEmpty ==
    ASSUME NEW x, x.there = FALSE
    PROVE  LoadCatalog(x) = [ok |-> TRUE, configs |-> {}, lsn |-> 0]
BY DEF LoadCatalog, Nothing

-----------------------------------------------------------------------------
(* The variables are the records they began as.                            *)
LEMMA TypeInit == Init => TypeInv
<1> SUFFICES ASSUME Init PROVE TypeInv
    OBVIOUS
<1>1. IsMem(mem)
    BY DEF Init, IsMem, NoMemory
<1>2. IsJob(job)
    BY DEF Init, IsJob, Idle, Job
<1>3. IsDisk(disk)
    BY DEF Init, IsDisk, IsFile, NoFile
<1>4. IsTold(told)
    BY DEF Init, IsTold
<1> QED BY <1>1, <1>2, <1>3, <1>4 DEF TypeInv


LEMMA Records ==
    /\ \A k, a, f : IsJob(Job(k, a, f))
    /\ IsJob(Idle) /\ IsMem(NoMemory)
    /\ \A j : IsJob(j) => IsJob(Saving(j))
    /\ \A file, bytes, step : IsFile(file) /\ step \in 1 .. 5 => IsFile(After(file, step, bytes))
    /\ \A file : IsFile(file) => IsFile(Abandoned(file))
<1>1. \A k, a, f : IsJob(Job(k, a, f))
    BY DEF IsJob, Job
<1>2. IsJob(Idle) /\ IsMem(NoMemory)
    BY <1>1 DEF Idle, IsMem, NoMemory
<1>3. \A j : IsJob(j) => IsJob(Saving(j))
    BY DEF Saving, IsJob
<1>4. \A file, bytes, step : IsFile(file) /\ step \in 1 .. 5 => IsFile(After(file, step, bytes))
    <2> SUFFICES ASSUME NEW file, NEW bytes, NEW step \in 1 .. 5, IsFile(file)
                 PROVE  IsFile(After(file, step, bytes))
        OBVIOUS
    <2>1. Steps[1] = "create" /\ Steps[2] = "write" /\ Steps[3] = "sync" /\ Steps[4] = "rename"
          /\ Steps[5] = "syncdir"
        BY DEF Steps
    <2>2. step = 1 \/ step = 2 \/ step = 3 \/ step = 4 \/ step = 5
        OBVIOUS
    <2> QED BY <2>1, <2>2 DEF IsFile, After
<1>5. \A file : IsFile(file) => IsFile(Abandoned(file))
    BY DEF IsFile, Abandoned
<1> QED BY <1>1, <1>2, <1>3, <1>4, <1>5

LEMMA StepsAre ==
    /\ Len(Steps) = 5 /\ DOMAIN Steps = 1 .. 5
    /\ Steps[1] = "create" /\ Steps[2] = "write" /\ Steps[3] = "sync" /\ Steps[4] = "rename"
    /\ Steps[5] = "syncdir"
BY DEF Steps

(* The actions that do more than ask, answer and stop threads.             *)
Works ==
    \/ LogFrame \/ LogFails \/ StartCheckpoint \/ ApplyInsert \/ CreateAgain \/ CreateStores
    \/ CreateEntry \/ Publish \/ WriteCatalog \/ StepFails \/ SaveStores \/ Truncate
    \/ Start \/ MakeMissing \/ OpenStores \/ Replay \/ Ready \/ Shutdown \/ Kill
Talks ==
    \/ \E c \in Callers : Create(c) \/ Insert(c)
    \/ Tick \/ Compact \/ Refuse \/ Control \/ Leave("compactor") \/ Leave("flusher") \/ Join
    \/ LastCheckpoint

LEMMA NextSplits == Next <=> Works \/ Close \/ Talks
BY DEF Next, CommitThread, Main, Ends, Works, Talks

LEMMA TalkKeeps == Talks => UNCHANGED <<phase, mem, disk, job, told>>
BY DEF Talks, Create, Insert, Tick, Compact, Refuse, Control, Leave, Join, LastCheckpoint

LEMMA TypeStep == TypeInv /\ [Next]_vars => TypeInv'
<1> SUFFICES ASSUME TypeInv, [Next]_vars PROVE TypeInv'
    OBVIOUS
<1> USE DEF TypeInv
<1>1. CASE UNCHANGED <<mem, disk, job, told>>
    BY <1>1 DEF IsMem, IsJob, IsDisk, IsFile, IsTold
<1>2. \A how : Broken(how) => IsJob(job') /\ IsMem(mem') /\ told' = told
    BY Records DEF Broken, IsMem
<1>3. CASE LogFrame
    BY <1>3, Records DEF LogFrame, IsMem, IsDisk
<1>4. CASE LogFails
    BY <1>4, Records DEF LogFails, IsMem, IsDisk
<1>5. CASE StartCheckpoint
    <2>1. \A h, left : IsJob([Job("checkpoint", h, NoFrame) EXCEPT !.left = left])
        BY Records DEF IsJob
    <2> QED BY <1>5, <2>1, Records DEF StartCheckpoint
<1>6. CASE ApplyInsert
    BY <1>2, <1>6, Records DEF ApplyInsert, Done, IsMem, IsTold
<1>7. CASE CreateAgain
    BY <1>7, Records DEF CreateAgain, Done, IsMem, IsTold, Told
<1>8. CASE CreateStores
    BY <1>2, <1>8 DEF CreateStores, IsMem, IsJob, IsDisk
<1>9. CASE CreateEntry
    BY <1>9 DEF CreateEntry, IsJob, IsDisk
<1>10. CASE Publish
    BY <1>10, Records DEF Publish, Done, IsMem, IsTold, Told
<1>11. CASE WriteCatalog
    BY <1>11, Records, StepsAre DEF WriteCatalog, IsDisk, IsJob
<1>12. CASE StepFails
    <2>1. PICK half : disk' = [disk EXCEPT !.catalog = Abandoned(@), !.half = half]
        BY <1>12 DEF StepFails
    <2>2. IsDisk(disk')
        BY <2>1, Records DEF IsDisk
    <2> QED BY <1>2, <1>12, <2>2 DEF StepFails
<1>13. CASE SaveStores
    BY <1>13, Records DEF SaveStores, IsDisk, IsJob
<1>14. CASE Truncate
    BY <1>14, Records DEF Truncate, Done, IsDisk
<1>15. CASE Start
    <2>1. mem' = mem \/ \E x, y : mem' = [NoMemory EXCEPT !.registry = x, !.last = y]
        BY <1>15 DEF Start
    <2>2. \/ job' = job
          \/ \E x, y : job' = [Job("register", "none", NoFrame) EXCEPT !.step = x, !.bytes = y]
          \/ \E x : job' = [Job("register", "none", NoFrame) EXCEPT !.step = x]
        BY <1>15 DEF Start
    <2>3. IsMem(mem')
        BY <2>1, Records DEF IsMem
    <2>4. IsJob(job')
        BY <2>2, Records DEF IsJob
    <2> QED BY <1>15, <2>3, <2>4 DEF Start
<1>16. CASE OpenStores
    <2>1. job' = Idle /\ told' = told /\ disk' = disk
        BY <1>16 DEF OpenStores
    <2>2. mem' = [mem EXCEPT !.published = mem'.published, !.stores = mem'.stores,
                             !.floors = mem'.floors, !.last = mem'.last, !.next = mem'.next]
        BY <1>16 DEF OpenStores, IsMem
    <2>3. IsMem(mem')
        BY <2>2 DEF IsMem
    <2> QED BY <2>1, <2>3, Records DEF IsDisk
<1>17. CASE Replay
    <2>1. PICK a, b : mem' = [mem EXCEPT !.next = a, !.read = b]
        BY <1>17 DEF Replay
    <2>2. job' = Idle \/ \E f : job' = Job("apply", "none", f)
        BY <1>17 DEF Replay
    <2>3. IsMem(mem')
        BY <2>1 DEF IsMem
    <2>4. IsJob(job')
        BY <2>2, Records
    <2> QED BY <1>17, <2>3, <2>4 DEF Replay
<1>18. CASE Ready
    BY <1>18 DEF Ready, IsTold
<1>19. CASE Shutdown
    BY <1>19, Records DEF Shutdown
<1>20. CASE Kill
    <2>1. IsDisk(Settled(disk))
        <3>1. IsFile([disk.catalog EXCEPT !.flushed = disk.catalog.entry])
            BY DEF IsDisk, IsFile
        <3>2. DOMAIN Settled(disk) = DOMAIN disk
            BY DEF Settled
        <3>3. Settled(disk).catalog = Abandoned([disk.catalog EXCEPT !.flushed = disk.catalog.entry])
            BY DEF Settled, IsDisk
        <3> QED BY <3>1, <3>2, <3>3, Records DEF IsDisk
    <2>2. \A left \in AfterPowerCut(disk.catalog) : IsFile(left)
        BY DEF AfterPowerCut, IsFile
    <2>3. IsDisk([disk EXCEPT !.catalog = Abandoned(@)])
        BY Records DEF IsDisk
    <2>5. \A d, half : IsDisk(d) => IsDisk([d EXCEPT !.half = half])
        BY DEF IsDisk
    <2>4. IsDisk(disk')
        <3>1. CASE \E left \in AfterPowerCut(disk.catalog) : \E x, y, z :
                      disk' = [disk EXCEPT !.catalog = left, !.half = z, !.dirs = x, !.log = y]
            BY <2>2, <3>1 DEF IsDisk
        <3>2. CASE \E half : \/ disk' = [Settled(disk) EXCEPT !.half = half]
                              \/ disk' = [[disk EXCEPT !.catalog = Abandoned(@)] EXCEPT !.half = half]
            <4>1. PICK d, half : IsDisk(d) /\ disk' = [d EXCEPT !.half = half]
                BY <2>1, <2>3, <3>2
            <4> QED BY <2>5, <4>1
        <3>3. \/ \E half : \/ disk' = [Settled(disk) EXCEPT !.half = half]
                             \/ disk' = [[disk EXCEPT !.catalog = Abandoned(@)] EXCEPT !.half = half]
              \/ \E left \in AfterPowerCut(disk.catalog) : \E x, y, z :
                      disk' = [disk EXCEPT !.catalog = left, !.half = z, !.dirs = x, !.log = y]
            BY <1>20 DEF Kill
        <3> QED BY <3>1, <3>2, <3>3
    <2> QED BY <1>20, <2>4, Records DEF Kill
<1>21. CASE MakeMissing
    <2>1. CASE Broken("refused") /\ disk' = disk
        BY <1>2, <2>1
    <2>2. CASE ~(Broken("refused") /\ disk' = disk)
        <3>1. PICK x : disk' = [disk EXCEPT !.dirs = x] /\ UNCHANGED <<mem, job, told>>
            BY <1>21, <2>2 DEF MakeMissing
        <3> QED BY <3>1 DEF IsDisk
    <2> QED BY <2>1, <2>2
<1> QED
    BY <1>1, <1>3, <1>4, <1>5, <1>6, <1>7, <1>8, <1>9, <1>10, <1>11, <1>12, <1>13, <1>14, <1>15,
       <1>16, <1>17, <1>18, <1>19, <1>20, <1>21, NextSplits, TalkKeeps DEF Works, Close, vars

-----------------------------------------------------------------------------
(* What each action does, field by field.                                  *)
SameStores == UNCHANGED <<mem.registry, mem.published, mem.stores, mem.floors>>
SameFlags == UNCHANGED <<mem.failed, mem.poisoned>>
SameCatalog == disk'.catalog = disk.catalog
SameDirs == disk'.dirs = disk.dirs
SameLog == disk'.log = disk.log
Asked == Head(queue)
NewFrame == Frame(Asked.kind, Asked.config, mem.next)

LEMMA IdleFields ==
    /\ Idle.kind = "none" /\ Idle.from = "none" /\ Idle.step = 0 /\ Idle.made = FALSE /\ Idle.left = {}
    /\ Idle.frame = NoFrame
BY DEF Idle, Job

LEMMA JobFields ==
    \A k, a, f : /\ Job(k, a, f).kind = k /\ Job(k, a, f).from = a /\ Job(k, a, f).frame = f
                /\ Job(k, a, f).step = 0 /\ Job(k, a, f).made = FALSE /\ Job(k, a, f).left = {}
BY DEF Job

LEMMA NoMemoryFields ==
    /\ NoMemory.registry = {} /\ NoMemory.poisoned = FALSE /\ NoMemory.last = 0
    /\ NoMemory.failed = 0 /\ NoMemory.read = 0
BY DEF NoMemory

LEMMA FrameFields ==
    ASSUME NEW k, NEW c, NEW l
    PROVE  Frame(k, c, l).kind = k /\ Frame(k, c, l).config = c /\ Frame(k, c, l).lsn = l
BY DEF Frame

LEMMA BrokenDoes ==
    ASSUME TypeInv, NEW how, Broken(how)
    PROVE  /\ job' = Idle /\ told' = told /\ queue' = queue
           /\ phase = "opening" => phase' = how /\ mem' = NoMemory
           /\ phase # "opening" =>
                 /\ phase' = phase /\ SameStores /\ UNCHANGED <<mem.last, mem.next, mem.read>>
                 /\ job.kind = "apply" => mem'.poisoned = TRUE
                 /\ job.kind # "apply" => mem' = mem
BY DEF Broken, TypeInv, IsMem, SameStores

LEMMA LogFrameDoes ==
    ASSUME TypeInv, LogFrame
    PROVE  /\ phase \in {"up", "closing"} /\ phase' = phase /\ job = Idle /\ queue # <<>>
           /\ ~mem.poisoned /\ Asked.kind \in {"create", "insert"}
           /\ SameCatalog /\ SameDirs /\ disk'.log = disk.log \cup {NewFrame}
           /\ SameStores /\ SameFlags /\ UNCHANGED <<mem.last, mem.read, told, waits>>
           /\ mem'.next = mem.next + 1
           /\ job' = Job("apply", Asked.from, NewFrame) /\ queue' = Tail(queue)
BY DEF LogFrame, Free, TypeInv, IsMem, IsDisk, SameStores, SameFlags, SameCatalog, SameDirs, Asked, NewFrame

LEMMA LogFailsDoes ==
    ASSUME TypeInv, LogFails
    PROVE  /\ phase \in {"up", "closing"} /\ phase' = phase /\ job = Idle /\ job' = Idle /\ queue # <<>>
           /\ ~mem.poisoned /\ Asked.kind \in {"create", "insert"} /\ "flush" \in Faults
           /\ SameCatalog /\ SameDirs /\ (SameLog \/ disk'.log = disk.log \cup {NewFrame})
           /\ SameStores /\ SameFlags /\ UNCHANGED <<mem.last, mem.read, told>>
           /\ mem'.next = mem.next + 1 /\ queue' = Tail(queue) /\ Answer(Asked.from)
<1>1. disk' = disk \/ disk' = [disk EXCEPT !.log = @ \cup {NewFrame}]
    BY DEF LogFails, NewFrame, Asked
<1>2. SameCatalog /\ SameDirs /\ (SameLog \/ disk'.log = disk.log \cup {NewFrame})
    BY <1>1 DEF TypeInv, IsDisk, SameCatalog, SameDirs, SameLog
<1> QED
    BY <1>2 DEF LogFails, Free, Fault, TypeInv, IsMem, SameStores, SameFlags, Asked

\* Save is what is left of a checkpoint, and its next step.
SavingDoes(left) ==
    /\ job'.kind = "checkpoint" /\ job'.left = left
    /\ left # {} => job'.step = 0
    /\ left = {} => job'.step = 1 /\ job'.bytes = EncodeCatalog(mem.registry, Watermark(mem))

LEMMA SavingLeaves ==
    ASSUME NEW j, IsJob(j), job' = Saving(j), j.kind = "checkpoint", j.step = 0
    PROVE  SavingDoes(j.left) /\ job'.from = j.from
BY DEF Saving, SavingDoes, IsJob

LEMMA StartCheckpointDoes ==
    ASSUME TypeInv, StartCheckpoint
    PROVE  /\ phase \in {"up", "closing"} /\ phase' = phase /\ job = Idle /\ queue # <<>>
           /\ ~mem.poisoned /\ Asked.kind = "checkpoint"
           /\ disk' = disk /\ mem' = mem /\ told' = told /\ waits' = waits
           /\ SavingDoes(DOMAIN mem.stores) /\ job'.from = Asked.from /\ queue' = Tail(queue)
<1> DEFINE j == [Job("checkpoint", Asked.from, NoFrame) EXCEPT !.left = DOMAIN mem.stores]
<1>1. job' = Saving(j)
    BY DEF StartCheckpoint, Asked
<1>2. IsJob(j) /\ j.kind = "checkpoint" /\ j.left = DOMAIN mem.stores /\ j.from = Asked.from /\ j.step = 0
    BY DEF IsJob, Job
<1> HIDE DEF j
<1>3. SavingDoes(DOMAIN mem.stores) /\ job'.from = Asked.from
    BY <1>1, <1>2, SavingLeaves
<1> QED BY <1>3 DEF StartCheckpoint, Free, Asked

LEMMA SaveStoresDoes ==
    ASSUME TypeInv, SaveStores
    PROVE  \E id \in job.left :
              /\ job.kind = "checkpoint" /\ job.step = 0 /\ phase' = phase
              /\ mem' = mem /\ told' = told /\ UNCHANGED <<waits, queue>>
              /\ SameCatalog /\ SameLog /\ disk'.dirs = [disk.dirs EXCEPT ![id].store = mem.stores[id]]
              /\ SavingDoes(job.left \ {id}) /\ job'.from = job.from
<1>1. PICK id \in job.left :
          /\ disk' = [disk EXCEPT !.dirs[id].store = mem.stores[id]]
          /\ job' = Saving([job EXCEPT !.left = @ \ {id}])
    BY DEF SaveStores
<1> DEFINE j == [job EXCEPT !.left = @ \ {id}]
<1>2. job.kind = "checkpoint" /\ job.step = 0
    BY DEF SaveStores
<1>3. IsJob(j) /\ j.kind = "checkpoint" /\ j.left = job.left \ {id} /\ j.from = job.from /\ j.step = 0
    BY <1>2 DEF TypeInv, IsJob
<1>4. job' = Saving(j)
    BY <1>1
<1> HIDE DEF j
<1>5. SavingDoes(job.left \ {id}) /\ job'.from = job.from
    BY <1>3, <1>4, SavingLeaves
<1>6. SameCatalog /\ SameLog /\ disk'.dirs = [disk.dirs EXCEPT ![id].store = mem.stores[id]]
    BY <1>1 DEF TypeInv, IsDisk, SameCatalog, SameLog
<1> QED BY <1>2, <1>5, <1>6 DEF SaveStores

ApplyInsertMisses ==
    Applying("insert") /\ job.frame.config.id \notin DOMAIN mem.stores /\ Broken("refused") /\ disk' = disk
ApplyInsertWrites ==
    /\ Applying("insert") /\ job.frame.config.id \in DOMAIN mem.stores
    /\ phase' = phase /\ disk' = disk /\ job' = Idle /\ queue' = queue /\ Answer(job.from)
    /\ UNCHANGED <<mem.registry, mem.published, mem.floors, mem.next, mem.read>> /\ SameFlags
    /\ mem'.last = Max({mem.last, job.frame.lsn})
    /\ DOMAIN mem'.stores = DOMAIN mem.stores
    /\ \A id \in DOMAIN mem.stores : id # job.frame.config.id => mem'.stores[id] = mem.stores[id]
    /\ LET id == job.frame.config.id
           lsn == job.frame.lsn
       IN  /\ lsn <= mem.floors[id] => mem'.stores[id] = mem.stores[id]
           /\ ~(lsn <= mem.floors[id]) =>
                 mem'.stores[id] = [shape |-> mem.stores[id].shape, lsn |-> Max({mem.stores[id].lsn, lsn}),
                                    rows |-> mem.stores[id].rows \cup {lsn}]
    /\ told'.configs = told.configs
    /\ job.from = "none" => told'.inserts = told.inserts
    /\ job.from # "none" =>
          told'.inserts = told.inserts \cup {[config |-> job.frame.config, lsn |-> job.frame.lsn]}

LEMMA ApplyInsertDoes ==
    ASSUME TypeInv, ApplyInsert, \A id \in DOMAIN mem.stores : IsStore(mem.stores[id])
    PROVE  ApplyInsertMisses \/ ApplyInsertWrites
<1> DEFINE id == job.frame.config.id
           lsn == job.frame.lsn
<1>1. CASE id \notin DOMAIN mem.stores
    BY <1>1 DEF ApplyInsert, ApplyInsertMisses
<1>2. CASE id \in DOMAIN mem.stores
    <2>1. IsStore(mem.stores[id])
        BY <1>2
    <2>2. mem.stores[id] = [shape |-> mem.stores[id].shape, lsn |-> mem.stores[id].lsn,
                            rows |-> mem.stores[id].rows]
        BY <2>1 DEF IsStore
    <2>3. PICK applied : applied = [mem EXCEPT !.last = Max({mem.last, lsn})]
        OBVIOUS
    <2>4. /\ IsMem(applied) /\ applied.stores = mem.stores /\ applied.last = Max({mem.last, lsn})
          /\ applied.registry = mem.registry /\ applied.published = mem.published
          /\ applied.floors = mem.floors /\ applied.next = mem.next /\ applied.read = mem.read
          /\ applied.failed = mem.failed /\ applied.poisoned = mem.poisoned
        BY <2>3 DEF TypeInv, IsMem
    <2>5. /\ Applying("insert") /\ phase' = phase /\ disk' = disk /\ job' = Idle /\ queue' = queue
          /\ Answer(job.from)
          /\ mem' = IF lsn <= mem.floors[id] THEN applied
                    ELSE [applied EXCEPT !.stores[id].lsn = Max({@, lsn}),
                                         !.stores[id].rows = @ \cup {lsn}]
          /\ told' = IF job.from = "none" THEN told
                     ELSE [told EXCEPT !.inserts = @ \cup {[config |-> job.frame.config, lsn |-> lsn]}]
        BY <1>2, <2>3 DEF ApplyInsert, Done
    <2>6. /\ told'.configs = told.configs
          /\ job.from = "none" => told'.inserts = told.inserts
          /\ job.from # "none" =>
                told'.inserts = told.inserts \cup {[config |-> job.frame.config, lsn |-> job.frame.lsn]}
        BY <2>5 DEF TypeInv, IsTold
    <2>7. CASE lsn <= mem.floors[id]
        BY <1>2, <2>4, <2>5, <2>6, <2>7 DEF ApplyInsertWrites, SameFlags
    <2>8. CASE ~(lsn <= mem.floors[id])
        <3>1. mem' = [applied EXCEPT !.stores[id].lsn = Max({@, lsn}), !.stores[id].rows = @ \cup {lsn}]
            BY <2>5, <2>8
        <3>2. PICK st : st = mem.stores[id]
            OBVIOUS
        <3>3. st = [shape |-> st.shape, lsn |-> st.lsn, rows |-> st.rows]
            BY <2>2, <3>2
        <3>4. PICK one : one = [applied EXCEPT !.stores[id].lsn = Max({st.lsn, lsn})]
            OBVIOUS
        <3>5. /\ IsMem(one) /\ one.last = Max({mem.last, lsn})
              /\ one.registry = mem.registry /\ one.published = mem.published
              /\ one.floors = mem.floors /\ one.next = mem.next /\ one.read = mem.read
              /\ one.failed = mem.failed /\ one.poisoned = mem.poisoned
              /\ one.stores = [mem.stores EXCEPT ![id].lsn = Max({st.lsn, lsn})]
            BY <2>4, <3>4 DEF IsMem
        <3>6. one.stores[id] = [shape |-> st.shape, lsn |-> Max({st.lsn, lsn}), rows |-> st.rows]
            BY <1>2, <3>2, <3>3, <3>5
        <3>7. mem' = [one EXCEPT !.stores[id].rows = @ \cup {lsn}]
            BY <2>4, <3>1, <3>2, <3>4
        <3>8. /\ mem'.last = Max({mem.last, lsn})
              /\ mem'.registry = mem.registry /\ mem'.published = mem.published
              /\ mem'.floors = mem.floors /\ mem'.next = mem.next /\ mem'.read = mem.read
              /\ mem'.failed = mem.failed /\ mem'.poisoned = mem.poisoned
              /\ mem'.stores = [one.stores EXCEPT ![id].rows = @ \cup {lsn}]
            BY <3>5, <3>7 DEF IsMem
        <3>9. DOMAIN mem'.stores = DOMAIN mem.stores
              /\ \A k \in DOMAIN mem.stores : k # id => mem'.stores[k] = mem.stores[k]
            BY <3>5, <3>8
        <3>10. mem'.stores[id] = [shape |-> st.shape, lsn |-> Max({st.lsn, lsn}), rows |-> st.rows \cup {lsn}]
            <4>1. mem'.stores[id] = [one.stores[id] EXCEPT !.rows = @ \cup {lsn}]
                BY <1>2, <3>5, <3>8
            <4>2. PICK u : u = one.stores[id]
                OBVIOUS
            <4>3. PICK n : n = Max({st.lsn, lsn})
                OBVIOUS
            <4>4. u = [shape |-> st.shape, lsn |-> n, rows |-> st.rows]
                BY <3>6, <4>2, <4>3
            <4>5. u.rows = st.rows /\ u.lsn = n /\ u.shape = st.shape
                BY <4>4
            <4>6. [u EXCEPT !.rows = u.rows \cup {lsn}] = [shape |-> st.shape, lsn |-> n, rows |-> st.rows \cup {lsn}]
                BY <4>4, <4>5
            <4> QED BY <4>1, <4>2, <4>3, <4>6
        <3> QED BY <1>2, <2>5, <2>6, <2>8, <3>2, <3>8, <3>9, <3>10 DEF ApplyInsertWrites, SameFlags
    <2> QED BY <2>7, <2>8
<1> QED BY <1>1, <1>2

LEMMA CreateAgainDoes ==
    ASSUME TypeInv, CreateAgain
    PROVE  /\ Creating /\ ~job.made /\ Taken(job.frame.config) /\ phase' = phase
           /\ disk' = disk /\ job' = Idle /\ queue' = queue /\ Answer(job.from)
           /\ SameStores /\ SameFlags /\ UNCHANGED <<mem.next, mem.read, told.inserts>>
           /\ mem'.last = Max({mem.last, job.frame.lsn})
           /\ job.from = "none" => told'.configs = told.configs
           /\ job.from # "none" => told'.configs = told.configs \cup {job.frame.config}
BY DEF CreateAgain, Applying, Creating, Told, Done, TypeInv, IsMem, IsTold, SameStores, SameFlags

CreateStoresMisses ==
    Creating /\ ~Opens(job.frame.config) /\ Broken("refused") /\ disk' = disk
CreateStoresMakes ==
    /\ Creating /\ Opens(job.frame.config) /\ UNCHANGED <<phase, queue, waits, told>>
    /\ SameCatalog /\ SameLog /\ disk'.dirs = Opened(disk.dirs, {job.frame.config})
    /\ UNCHANGED <<job.kind, job.from, job.frame, job.step, job.left, job.bytes>> /\ job'.made = TRUE
    /\ UNCHANGED <<mem.registry, mem.published, mem.stores, mem.last, mem.next, mem.read>> /\ SameFlags
    /\ mem'.floors = Entered(mem.floors, job.frame.config.id, disk'.dirs[job.frame.config.id].store.lsn)

LEMMA CreateStoresDoes ==
    ASSUME TypeInv, CreateStores
    PROVE  /\ ~Taken(job.frame.config) /\ job.step = 0 /\ ~job.made
           /\ CreateStoresMisses \/ CreateStoresMakes
<1>1. CASE ~Opens(job.frame.config)
    BY <1>1 DEF CreateStores, CreateStoresMisses, Creating, Applying
<1>2. CASE Opens(job.frame.config)
    BY <1>2 DEF CreateStores, CreateStoresMakes, Creating, Applying, TypeInv, IsMem, IsJob, IsDisk,
                SameCatalog, SameLog, SameFlags
<1> QED BY <1>1, <1>2 DEF CreateStores

LEMMA CreateEntryDoes ==
    ASSUME TypeInv, CreateEntry
    PROVE  /\ Creating /\ job.step = 0 /\ job.made /\ UNCHANGED <<phase, mem, queue, waits, told>>
           /\ SameCatalog /\ SameLog /\ disk'.dirs = Kept(disk.dirs)
           /\ UNCHANGED <<job.kind, job.from, job.frame, job.made, job.left>> /\ job'.step = 1
           /\ job'.bytes = EncodeCatalog(mem.registry \cup {job.frame.config}, Watermark(mem))
BY DEF CreateEntry, Creating, Applying, TypeInv, IsJob, IsDisk, SameCatalog, SameLog

LEMMA PublishDoes ==
    ASSUME TypeInv, Publish
    PROVE  /\ Creating /\ job.step > 5 /\ phase' = phase
           /\ disk' = disk /\ job' = Idle /\ queue' = queue /\ Answer(job.from)
           /\ UNCHANGED <<mem.floors, mem.next, mem.read, told.inserts>> /\ SameFlags
           /\ mem'.registry = mem.registry \cup {job.frame.config}
           /\ mem'.published = mem.published \cup {job.frame.config}
           /\ mem'.stores = Entered(mem.stores, job.frame.config.id, disk.dirs[job.frame.config.id].store)
           /\ mem'.last = Max({mem.last, job.frame.lsn})
           /\ job.from = "none" => told'.configs = told.configs
           /\ job.from # "none" => told'.configs = told.configs \cup {job.frame.config}
BY StepsAre DEF Publish, Applying, Creating, Told, Done, TypeInv, IsMem, IsTold, SameFlags

LEMMA StepGoes ==
    ASSUME NEW g, NEW b
    PROVE  /\ g.tmp = Unsynced(<<>>) => StepOK(g, 2, b)
           /\ g.tmp = Unsynced(b) => StepOK(g, 3, b)
           /\ g.tmp = Synced(b) => StepOK(g, 4, b)
           /\ g.entry = Synced(b) => StepOK(g, 5, b)
           /\ StepOK(g, 0, b) /\ StepOK(g, 1, b) /\ StepOK(g, 6, b)
BY DEF StepOK

LEMMA ContentFields ==
    /\ \A b : [Unsynced(<<>>) EXCEPT !.bytes = b] = Unsynced(b)
    /\ \A b : [Unsynced(b) EXCEPT !.synced = TRUE] = Synced(b)
<1>1. ASSUME NEW x, NEW y, NEW z, NEW b
      PROVE  [[there |-> x, bytes |-> y, synced |-> z] EXCEPT !.bytes = b] = [there |-> x, bytes |-> b, synced |-> z]
    OBVIOUS
<1>2. ASSUME NEW x, NEW y, NEW z, NEW b
      PROVE  [[there |-> x, bytes |-> y, synced |-> z] EXCEPT !.synced = b] = [there |-> x, bytes |-> y, synced |-> b]
    OBVIOUS
<1>3. PICK yes, no : yes = TRUE /\ no = FALSE
    OBVIOUS
<1>4. \A b : /\ Unsynced(b) = [there |-> yes, bytes |-> b, synced |-> no]
            /\ Synced(b) = [there |-> yes, bytes |-> b, synced |-> yes]
    BY <1>3 DEF Unsynced, Synced, Content
<1>5. \A b : [Unsynced(<<>>) EXCEPT !.bytes = b] = Unsynced(b)
    BY <1>1, <1>4
<1>6. \A b : [Unsynced(b) EXCEPT !.synced = yes] = Synced(b)
    BY <1>2, <1>4
<1> QED BY <1>3, <1>5, <1>6

(* The file after a step, when what is written beside it is what the job    *)
(* is about.                                                               *)
LEMMA AfterDoes ==
    ASSUME NEW f, IsFile(f), NEW b, NEW s \in 1 .. 5, StepOK(f, s, b), NEW g, g = After(f, s, b)
    PROVE  /\ StepOK(g, s + 1, b)
           /\ s # 4 => g.entry = f.entry
           /\ s # 5 => g.flushed = f.flushed
           /\ s = 4 => g.entry = Synced(b)
           /\ s = 5 => g.flushed = f.entry
<1>0. PICK t : t = f.tmp
    OBVIOUS
<1>1. CASE s = 1
    <2>1. g = [f EXCEPT !.tmp = Unsynced(<<>>)]
        BY <1>1, StepsAre DEF After, Unsynced
    <2>2. g.tmp = Unsynced(<<>>) /\ g.entry = f.entry /\ g.flushed = f.flushed
        BY <2>1 DEF IsFile
    <2>9. s + 1 = 2
        BY <1>1
    <2> QED BY <1>1, <2>2, <2>9, StepGoes
<1>2. CASE s = 2
    <2>1. g = [f EXCEPT !.tmp = [t EXCEPT !.bytes = b]]
        BY <1>0, <1>2, StepsAre DEF After
    <2>2. t = Unsynced(<<>>)
        BY <1>0, <1>2 DEF StepOK
    <2>3. [t EXCEPT !.bytes = b] = Unsynced(b)
        BY <2>2, ContentFields
    <2>4. g.tmp = Unsynced(b) /\ g.entry = f.entry /\ g.flushed = f.flushed
        BY <2>1, <2>3 DEF IsFile
    <2>9. s + 1 = 3
        BY <1>2
    <2> QED BY <1>2, <2>4, <2>9, StepGoes
<1>3. CASE s = 3
    <2>1. g = [f EXCEPT !.tmp = [t EXCEPT !.synced = TRUE]]
        BY <1>0, <1>3, StepsAre DEF After
    <2>2. t = Unsynced(b)
        BY <1>0, <1>3 DEF StepOK
    <2>3. [t EXCEPT !.synced = TRUE] = Synced(b)
        BY <2>2, ContentFields
    <2>4. g.tmp = Synced(b) /\ g.entry = f.entry /\ g.flushed = f.flushed
        BY <2>1, <2>3 DEF IsFile
    <2>9. s + 1 = 4
        BY <1>3
    <2> QED BY <1>3, <2>4, <2>9, StepGoes
<1>4. CASE s = 4
    <2>1. g = [f EXCEPT !.entry = t, !.tmp = Absent]
        BY <1>0, <1>4, StepsAre DEF After
    <2>2. t = Synced(b)
        BY <1>0, <1>4 DEF StepOK
    <2>3. g.entry = t /\ g.flushed = f.flushed
        BY <2>1 DEF IsFile
    <2>9. s + 1 = 5
        BY <1>4
    <2> QED BY <1>4, <2>2, <2>3, <2>9, StepGoes
<1>5. CASE s = 5
    <2>1. g = [f EXCEPT !.flushed = f.entry]
        BY <1>5, StepsAre DEF After
    <2>2. g.entry = f.entry /\ g.flushed = f.entry
        BY <2>1 DEF IsFile
    <2>9. s + 1 = 6
        BY <1>5
    <2> QED BY <1>5, <2>2, <2>9, StepGoes
<1>6. s = 1 \/ s = 2 \/ s = 3 \/ s = 4 \/ s = 5
    OBVIOUS
<1> QED BY <1>6, <1>1, <1>2, <1>3, <1>4, <1>5

LEMMA WriteCatalogDoes ==
    ASSUME TypeInv, WriteCatalog, StepOK(disk.catalog, job.step, job.bytes)
    PROVE  /\ job.step \in 1 .. 5 /\ UNCHANGED <<phase, mem, queue, waits, told>> /\ SameLog
           /\ UNCHANGED <<job.kind, job.from, job.frame, job.made, job.left, job.bytes>>
           /\ job'.step = job.step + 1 /\ StepOK(disk'.catalog, job'.step, job'.bytes)
           /\ job.step # 4 => disk'.catalog.entry = disk.catalog.entry
           /\ job.step # 5 => disk'.catalog.flushed = disk.catalog.flushed /\ SameDirs
           /\ job.step = 4 => disk'.catalog.entry = Synced(job.bytes)
           /\ job.step = 5 =>
                 disk'.catalog.flushed = disk.catalog.entry /\ disk'.dirs = Kept(disk.dirs)
<1>1. job.step \in 1 .. 5
    BY StepsAre DEF WriteCatalog
<1>2. /\ UNCHANGED <<phase, mem, queue, waits, told>> /\ SameLog
      /\ UNCHANGED <<job.kind, job.from, job.frame, job.made, job.left, job.bytes>>
      /\ job'.step = job.step + 1
    BY DEF WriteCatalog, TypeInv, IsJob, IsDisk, SameLog
<1>3. disk'.catalog = After(disk.catalog, job.step, job.bytes)
      /\ disk'.dirs = IF Steps[job.step] = "syncdir" THEN Kept(disk.dirs) ELSE disk.dirs
    BY DEF WriteCatalog, TypeInv, IsDisk
<1>4. IsFile(disk.catalog)
    BY DEF TypeInv, IsDisk
<1>5. /\ job.step # 5 => SameDirs
      /\ job.step = 5 => disk'.dirs = Kept(disk.dirs)
    BY <1>1, <1>3, StepsAre DEF SameDirs
<1>6. PICK f, g, b, s : f = disk.catalog /\ g = disk'.catalog /\ b = job.bytes /\ s = job.step
    OBVIOUS
<1>7. /\ StepOK(g, s + 1, b)
      /\ s # 4 => g.entry = f.entry
      /\ s # 5 => g.flushed = f.flushed
      /\ s = 4 => g.entry = Synced(b)
      /\ s = 5 => g.flushed = f.entry
    BY <1>1, <1>3, <1>4, <1>6, AfterDoes
<1> QED BY <1>1, <1>2, <1>5, <1>6, <1>7

LEMMA StepFailsDoes ==
    ASSUME TypeInv, StepFails
    PROVE  /\ job.kind # "none" /\ (job.kind = "apply" => Creating /\ ~Taken(job.frame.config))
           /\ job.kind = "register" => job.step # 5 \/ "entry" \in Faults
           /\ "step" \in Faults /\ Broken("failed") /\ SameLog /\ SameDirs
           /\ disk'.catalog.entry = disk.catalog.entry /\ disk'.catalog.flushed = disk.catalog.flushed
<1>1. PICK half : disk' = [disk EXCEPT !.catalog = Abandoned(@), !.half = half]
    BY DEF StepFails
<1>2. SameLog /\ SameDirs /\ disk'.catalog = [disk.catalog EXCEPT !.tmp = Absent]
    BY <1>1 DEF TypeInv, IsDisk, Abandoned, SameLog, SameDirs
<1>3. disk'.catalog.entry = disk.catalog.entry /\ disk'.catalog.flushed = disk.catalog.flushed
    BY <1>2 DEF TypeInv, IsDisk, IsFile
<1>4. job.kind = "register" => job.step # 5 \/ "entry" \in Faults
    BY StepsAre DEF StepFails
<1> QED BY <1>2, <1>3, <1>4 DEF StepFails, Fault, Creating

LEMMA TruncateDoes ==
    ASSUME TypeInv, Truncate
    PROVE  /\ job.kind = "checkpoint" /\ job.step > 5 /\ phase' = phase /\ mem' = mem /\ told' = told
           /\ SameCatalog /\ SameDirs /\ job' = Idle /\ queue' = queue /\ Answer(job.from)
           /\ disk'.log = Above(disk.log, Min({mem.stores[id].lsn : id \in DOMAIN mem.stores}
                                                 \cup {Watermark(mem)}))
BY StepsAre DEF Truncate, Done, TypeInv, IsDisk, SameCatalog, SameDirs

StartRefuses == LoadCatalog(disk.catalog.entry).ok # TRUE /\ phase' = "refused" /\ UNCHANGED <<mem, job>>
StartFails == phase' = "failed" /\ UNCHANGED <<mem, job>>
StartRegisters(supplied) ==
    LET registry == Entry.configs \cup supplied
    IN  /\ Distinct(registry) /\ phase' = "opening"
        /\ IsMem(mem') /\ mem'.registry = registry /\ mem'.last = Entry.lsn
        /\ mem'.poisoned = FALSE /\ mem'.failed = 0 /\ mem'.read = 0
        /\ job'.kind = "register" /\ job'.from = "none"
        /\ \/ registry = Entry.configs /\ disk.catalog.entry.there /\ job'.step = 6
           \/ /\ registry # Entry.configs \/ ~disk.catalog.entry.there
              /\ job'.step = 1 /\ job'.bytes = EncodeCatalog(registry, Entry.lsn)

LEMMA StartDoes ==
    ASSUME TypeInv, Start, disk.catalog.entry.there \in BOOLEAN
    PROVE  /\ phase \in {"down", "failed", "refused"} /\ job = Idle
           /\ UNCHANGED <<disk, queue, waits, told>>
           /\ StartRefuses \/ StartFails \/ \E supplied \in Openings : StartRegisters(supplied)
<1>1. /\ phase \in {"down", "failed", "refused"} /\ job = Idle /\ UNCHANGED <<disk, queue, waits, told>>
    BY DEF Start
<1>2. PICK loaded : loaded = Entry
    OBVIOUS
<1>3. PICK supplied \in Openings :
          LET registry == loaded.configs \cup supplied
          IN  CASE ~loaded.ok -> phase' = "refused" /\ UNCHANGED <<mem, job>>
                [] loaded.ok /\ ~Distinct(registry) -> phase' = "failed" /\ UNCHANGED <<mem, job>>
                [] OTHER ->
                      /\ phase' = "opening"
                      /\ mem' = [NoMemory EXCEPT !.registry = registry, !.last = loaded.lsn]
                      /\ job' = IF registry # loaded.configs \/ ~disk.catalog.entry.there
                                THEN [Job("register", "none", NoFrame) EXCEPT
                                        !.step = 1, !.bytes = EncodeCatalog(registry, loaded.lsn)]
                                ELSE [Job("register", "none", NoFrame) EXCEPT !.step = Len(Steps) + 1]
    BY <1>2 DEF Start, Entry
<1>4. loaded.ok \in BOOLEAN
    BY <1>2 DEF Entry, LoadCatalog, DecodeCatalog, Nothing
<1>5. CASE ~loaded.ok
    BY <1>1, <1>2, <1>3, <1>4, <1>5 DEF StartRefuses, Entry
<1>6. CASE loaded.ok /\ ~Distinct(loaded.configs \cup supplied)
    BY <1>1, <1>3, <1>4, <1>6 DEF StartFails
<1>7. CASE loaded.ok /\ Distinct(loaded.configs \cup supplied)
    <2> DEFINE registry == loaded.configs \cup supplied
    <2>1. /\ phase' = "opening"
          /\ mem' = [NoMemory EXCEPT !.registry = registry, !.last = loaded.lsn]
          /\ job' = IF registry # loaded.configs \/ ~disk.catalog.entry.there
                    THEN [Job("register", "none", NoFrame) EXCEPT
                            !.step = 1, !.bytes = EncodeCatalog(registry, loaded.lsn)]
                    ELSE [Job("register", "none", NoFrame) EXCEPT !.step = Len(Steps) + 1]
        BY <1>3, <1>4, <1>7
    <2> HIDE DEF registry
    <2>2. /\ IsMem(mem') /\ mem'.registry = registry /\ mem'.last = loaded.lsn
          /\ mem'.poisoned = FALSE /\ mem'.failed = 0 /\ mem'.read = 0
        BY <2>1 DEF NoMemory, IsMem
    <2>3. CASE registry # loaded.configs \/ ~disk.catalog.entry.there
        <3>1. job' = [Job("register", "none", NoFrame) EXCEPT
                            !.step = 1, !.bytes = EncodeCatalog(registry, loaded.lsn)]
            BY <2>1, <2>3
        <3>2. job'.kind = "register" /\ job'.from = "none" /\ job'.step = 1
              /\ job'.bytes = EncodeCatalog(registry, loaded.lsn)
            BY <3>1 DEF Job
        <3>3. StartRegisters(supplied)
            BY <1>2, <1>7, <2>1, <2>2, <2>3, <3>2 DEF StartRegisters, registry
        <3> QED BY <1>1, <3>3
    <2>4. CASE registry = loaded.configs /\ disk.catalog.entry.there
        <3>0. ~(registry # loaded.configs \/ ~disk.catalog.entry.there) /\ Len(Steps) + 1 = 6
            BY <2>4, StepsAre
        <3>1. job' = [Job("register", "none", NoFrame) EXCEPT !.step = 6]
            BY <2>1, <3>0
        <3>2. job'.kind = "register" /\ job'.from = "none" /\ job'.step = 6
            BY <3>1 DEF Job
        <3>3. StartRegisters(supplied)
            BY <1>2, <1>7, <2>1, <2>2, <2>4, <3>2 DEF StartRegisters, registry
        <3> QED BY <1>1, <3>3
    <2> QED BY <2>3, <2>4
<1> QED BY <1>4, <1>5, <1>6, <1>7

MissingMisses == (\E c \in mem.registry : ~Opens(c)) /\ Broken("refused") /\ disk' = disk
MissingMakes(c) ==
    /\ Opens(c) /\ UNCHANGED <<phase, mem, queue, job, waits, ending, told>>
    /\ SameCatalog /\ SameLog /\ disk'.dirs = Opened(disk.dirs, {c})

LEMMA MakeMissingDoes ==
    ASSUME TypeInv, MakeMissing
    PROVE  /\ job.kind = "register" /\ job.step > 5
           /\ MissingMisses \/ \E c \in mem.registry : MissingMakes(c)
<1>1. job.kind = "register" /\ job.step > 5
    BY StepsAre DEF MakeMissing
<1>2. PICK c \in mem.registry :
          IF ~Opens(c) THEN Broken("refused") /\ UNCHANGED <<disk, faults>>
          ELSE /\ c.id \notin DOMAIN disk.dirs
               /\ disk' = [disk EXCEPT !.dirs = Opened(@, {c})]
               /\ UNCHANGED <<phase, mem, queue, job, waits, ending, told, faults>>
    BY DEF MakeMissing
<1>3. CASE ~Opens(c)
    BY <1>1, <1>2, <1>3 DEF MissingMisses
<1>4. CASE Opens(c)
    BY <1>1, <1>2, <1>4 DEF MissingMakes, TypeInv, IsDisk, SameCatalog, SameLog
<1> QED BY <1>3, <1>4

OpenStoresOpens ==
    /\ \A c \in mem.registry : Opens(c) /\ c.id \in DOMAIN disk.dirs
    /\ UNCHANGED <<phase, queue, waits, told, mem.registry, mem.read>> /\ SameFlags
    /\ SameCatalog /\ SameLog /\ disk' = disk
    /\ job' = Idle /\ mem'.published = mem.registry
    /\ mem'.stores = [id \in Ids(mem.registry) |-> disk'.dirs[id].store]
    /\ mem'.floors = [id \in Ids(mem.registry) |-> disk'.dirs[id].store.lsn]
    /\ mem'.last = Min({disk'.dirs[id].store.lsn : id \in Ids(mem.registry)} \cup {mem.last})
    /\ mem'.next = mem'.last + 1

LEMMA OpenStoresDoes ==
    ASSUME TypeInv, OpenStores
    PROVE  job.kind = "register" /\ job.step > 5 /\ OpenStoresOpens
<1>0. job.kind = "register" /\ job.step > 5
    BY StepsAre DEF OpenStores
<1> DEFINE stores == [id \in Ids(mem.registry) |-> disk'.dirs[id].store]
           skip == Min({stores[id].lsn : id \in DOMAIN stores} \cup {mem.last})
<1>1. /\ disk' = disk
      /\ mem' = [mem EXCEPT !.published = mem.registry, !.stores = stores,
                            !.floors = [id \in DOMAIN stores |-> stores[id].lsn],
                            !.last = skip, !.next = skip + 1]
      /\ job' = Idle /\ UNCHANGED <<phase, queue, waits, told>>
      /\ \A c \in mem.registry : Opens(c) /\ c.id \in DOMAIN disk.dirs
    BY DEF OpenStores
<1>2. skip = Min({disk'.dirs[id].store.lsn : id \in Ids(mem.registry)} \cup {mem.last})
    <2>1. {stores[id].lsn : id \in DOMAIN stores} = {disk'.dirs[id].store.lsn : id \in Ids(mem.registry)}
        OBVIOUS
    <2> QED BY <2>1
<1>3. [id \in DOMAIN stores |-> stores[id].lsn] = [id \in Ids(mem.registry) |-> disk'.dirs[id].store.lsn]
    OBVIOUS
<1> HIDE DEF skip
<1>4. /\ mem'.registry = mem.registry /\ mem'.read = mem.read /\ mem'.failed = mem.failed
      /\ mem'.poisoned = mem.poisoned /\ mem'.published = mem.registry /\ mem'.last = skip
      /\ mem'.next = skip + 1
    BY <1>1 DEF TypeInv, IsMem
<1>5. /\ mem'.stores = [id \in Ids(mem.registry) |-> disk'.dirs[id].store]
      /\ mem'.floors = [id \in Ids(mem.registry) |-> disk'.dirs[id].store.lsn]
    BY <1>1, <1>3 DEF TypeInv, IsMem
<1> QED BY <1>0, <1>1, <1>2, <1>4, <1>5 DEF OpenStoresOpens, SameFlags, SameCatalog, SameLog

ReplayReads(frame) ==
    /\ frame \in disk.log /\ frame.lsn > mem.read
    /\ \A f \in disk.log : f.lsn > mem.read => frame.lsn <= f.lsn
    /\ UNCHANGED <<phase, disk, queue, waits, told, mem.last>> /\ SameStores /\ SameFlags
    /\ mem'.read = frame.lsn /\ mem'.next = Max({mem.next, frame.lsn + 1})
    /\ frame.lsn <= mem.last => job' = Idle
    /\ ~(frame.lsn <= mem.last) => job' = Job("apply", "none", frame)

LEMMA ReplayDoes ==
    ASSUME TypeInv, Replay
    PROVE  phase = "opening" /\ job = Idle /\ \E frame \in disk.log : ReplayReads(frame)
<1>1. PICK frame \in Replayed :
          /\ \A other \in Replayed : frame.lsn <= other.lsn
          /\ job' = IF frame.lsn <= mem.last THEN Idle ELSE Job("apply", "none", frame)
          /\ mem' = [mem EXCEPT !.next = Max({@, frame.lsn + 1}), !.read = frame.lsn]
    BY DEF Replay
<1>2. frame \in disk.log /\ frame.lsn > mem.read
      /\ \A f \in disk.log : f.lsn > mem.read => frame.lsn <= f.lsn
    BY <1>1 DEF Replayed, Above
<1>3. ReplayReads(frame)
    BY <1>1, <1>2 DEF Replay, ReplayReads, TypeInv, IsMem, SameStores, SameFlags
<1> QED BY <1>2, <1>3 DEF Replay

LEMMA ReadyDoes ==
    ASSUME TypeInv, Ready
    PROVE  /\ phase = "opening" /\ job = Idle /\ phase' = "up" /\ \A f \in disk.log : ~(f.lsn > mem.read)
           /\ UNCHANGED <<mem, disk, queue, job, waits, told.inserts>>
           /\ told'.configs = told.configs \cup (mem.registry \cap Supplied)
BY DEF Ready, Replayed, Above, TypeInv, IsTold, Supplied

LEMMA ShutdownDoes ==
    ASSUME Shutdown
    PROVE  /\ job = Idle /\ job' = Idle /\ queue' = <<>> /\ queue = <<>> /\ phase' = "down" /\ mem' = NoMemory
           /\ UNCHANGED <<disk, told>>
BY DEF Shutdown

LEMMA CloseDoes ==
    ASSUME Close
    PROVE  /\ phase = "up" /\ phase' = "closing" /\ \A c \in Callers : waits[c] = "idle"
           /\ UNCHANGED <<mem, disk, queue, job, waits, told>>
BY DEF Close

\* The directories that a process leaves behind.
Left(dirs, new) ==
    /\ DOMAIN new \subseteq DOMAIN dirs
    /\ \A id \in DOMAIN dirs : dirs[id].kept => id \in DOMAIN new
    /\ \A id \in DOMAIN new : new[id] = dirs[id] \/ new[id] = OnDisk(dirs[id].store, TRUE)

LEMMA KeptAre ==
    ASSUME NEW dirs, \A id \in DOMAIN dirs : IsDir(dirs[id])
    PROVE  /\ DOMAIN Kept(dirs) = DOMAIN dirs
           /\ \A id \in DOMAIN dirs : Kept(dirs)[id] = OnDisk(dirs[id].store, TRUE)
<1>1. ASSUME NEW id \in DOMAIN dirs PROVE Kept(dirs)[id] = OnDisk(dirs[id].store, TRUE)
    <2>1. PICK d : d = dirs[id]
        OBVIOUS
    <2>2. d = [store |-> d.store, kept |-> d.kept]
        BY <2>1 DEF IsDir, OnDisk
    <2>4. \A x, y, z : [[store |-> x, kept |-> y] EXCEPT !.kept = z] = [store |-> x, kept |-> z]
        OBVIOUS
    <2>5. PICK yes : yes = TRUE
        OBVIOUS
    <2>6. [d EXCEPT !.kept = yes] = [store |-> d.store, kept |-> yes]
        BY <2>2, <2>4
    <2>3. [d EXCEPT !.kept = TRUE] = [store |-> d.store, kept |-> TRUE]
        BY <2>5, <2>6
    <2> QED BY <2>1, <2>3 DEF Kept, OnDisk
<1> QED BY <1>1 DEF Kept

LEMMA KillDoes ==
    ASSUME TypeInv, Kill, "entry" \notin Faults, \A id \in DOMAIN disk.dirs : IsDir(disk.dirs[id]),
           disk.catalog.entry.synced = TRUE, disk.catalog.flushed.synced = TRUE
    PROVE  /\ phase \in {"opening", "up", "closing"} /\ phase' = "down" /\ mem' = NoMemory
           /\ queue' = <<>> /\ job' = Idle /\ told' = told /\ SameLog
           /\ disk'.catalog.entry \in {disk.catalog.entry, disk.catalog.flushed}
           /\ disk'.catalog.flushed = disk'.catalog.entry
           /\ Left(disk.dirs, disk'.dirs)
<1>1. /\ phase \in {"opening", "up", "closing"} /\ phase' = "down" /\ mem' = NoMemory
      /\ queue' = <<>> /\ job' = Idle /\ told' = told
    BY DEF Kill
<1>2. ASSUME NEW half, disk' = [Settled(disk) EXCEPT !.half = half]
      PROVE  /\ SameLog /\ disk'.catalog.entry \in {disk.catalog.entry, disk.catalog.flushed}
             /\ disk'.catalog.flushed = disk'.catalog.entry /\ Left(disk.dirs, disk'.dirs)
    <2>1. PICK f : f = disk.catalog
        OBVIOUS
    <2>2. DOMAIN f = {"entry", "flushed", "tmp"}
        BY <2>1 DEF TypeInv, IsDisk, IsFile
    <2>3. /\ disk'.catalog = Abandoned([f EXCEPT !.flushed = f.entry]) /\ SameLog
          /\ disk'.dirs = Kept(disk.dirs)
        BY <1>2, <2>1 DEF Settled, TypeInv, IsDisk, SameLog
    <2>4. disk'.catalog.entry = f.entry /\ disk'.catalog.flushed = f.entry
        BY <2>2, <2>3 DEF Abandoned
    <2>5. Left(disk.dirs, disk'.dirs)
        <3>1. PICK old, new : old = disk.dirs /\ new = disk'.dirs
            OBVIOUS
        <3>2. new = Kept(old) /\ \A id \in DOMAIN old : IsDir(old[id])
            BY <2>3, <3>1
        <3>3. DOMAIN new = DOMAIN old /\ \A id \in DOMAIN old : new[id] = OnDisk(old[id].store, TRUE)
            BY <3>2, KeptAre
        <3>4. Left(old, new)
            BY <3>3 DEF Left
        <3> QED BY <3>1, <3>4
    <2> QED BY <1>1, <2>1, <2>3, <2>4, <2>5
<1>3. ASSUME NEW left \in AfterPowerCut(disk.catalog),
             NEW lost \in SUBSET {id \in DOMAIN disk.dirs : ~disk.dirs[id].kept}, NEW half,
             disk' = [disk EXCEPT !.catalog = left, !.half = half,
                                  !.dirs = [id \in DOMAIN @ \ lost |-> @[id]],
                                  !.log = IF FALSE THEN {} ELSE @]
      PROVE  /\ SameLog /\ disk'.catalog.entry \in {disk.catalog.entry, disk.catalog.flushed}
             /\ disk'.catalog.flushed = disk'.catalog.entry /\ Left(disk.dirs, disk'.dirs)
    <2>1. /\ disk'.catalog = left /\ SameLog
          /\ disk'.dirs = [id \in DOMAIN disk.dirs \ lost |-> disk.dirs[id]]
        BY <1>3 DEF TypeInv, IsDisk, SameLog
    <2>2. left.entry \in {disk.catalog.entry, disk.catalog.flushed} /\ left.flushed = left.entry
        <3>1. PICK f : f = disk.catalog
            OBVIOUS
        <3>2. Survivors(f.flushed) = {f.flushed} /\ Survivors(f.entry) = {f.entry}
            BY <3>1 DEF Survivors
        <3>3. PICK x \in Survivors(f.flushed) \cup Survivors(f.entry) :
                    left = [entry |-> x, flushed |-> x, tmp |-> Absent]
            BY <3>1 DEF AfterPowerCut
        <3> QED BY <3>1, <3>2, <3>3
    <2>3. Left(disk.dirs, disk'.dirs)
        BY <2>1 DEF Left
    <2> QED BY <2>1, <2>2, <2>3
<1>4. \/ \E half : disk' = [Settled(disk) EXCEPT !.half = half]
      \/ \E left \in AfterPowerCut(disk.catalog),
            lost \in SUBSET {id \in DOMAIN disk.dirs : ~disk.dirs[id].kept} : \E half :
            disk' = [disk EXCEPT !.catalog = left, !.half = half,
                                 !.dirs = [id \in DOMAIN @ \ lost |-> @[id]],
                                 !.log = IF FALSE THEN {} ELSE @]
    BY DEF Kill
<1> QED BY <1>1, <1>2, <1>3, <1>4

-----------------------------------------------------------------------------
(* When the Db has a registry in memory.                                   *)
LEMMA Phases ==
    ASSUME Inv
    PROVE  /\ phase \in {"up", "closing"} => Loaded
           /\ job.kind \in {"apply", "checkpoint"} => Loaded /\ ~mem.poisoned
           /\ ~Loaded => phase \in {"down", "failed", "refused"} \/ job.kind = "register"
           /\ job = Idle /\ phase = "opening" => Loaded
<1>1. JobInv
    BY DEF Inv
<1> QED BY <1>1, IdleFields DEF JobInv, Loaded

LEMMA StoresAre ==
    ASSUME Inv
    PROVE  /\ job.kind \in {"apply", "checkpoint"} => \A id \in DOMAIN mem.stores : IsStore(mem.stores[id])
           /\ \A id \in DOMAIN disk.dirs : IsDir(disk.dirs[id])
           /\ disk.catalog.entry.synced = TRUE /\ disk.catalog.flushed.synced = TRUE
           /\ disk.catalog.entry.there \in BOOLEAN
           /\ StepOK(disk.catalog, job.step, job.bytes)
<1>1. job.kind \in {"apply", "checkpoint"} => \A id \in DOMAIN mem.stores : IsStore(mem.stores[id])
    BY Phases DEF Inv, MemInv
<1>2. \A x : IsContent(x) => x.synced = TRUE /\ x.there \in BOOLEAN
    BY DEF IsContent
<1> QED BY <1>1, <1>2 DEF Inv, DirInv, FileInv

(* Which actions move what.                                                *)
SameContents == UNCHANGED <<disk.catalog.entry, disk.catalog.flushed>>

LEMMA WhatMoves ==
    ASSUME Inv, OneKindOfFailure, Works
    PROVE  /\ SameLog \/ LogFrame \/ LogFails \/ Truncate
           /\ SameContents \/ WriteCatalog \/ Kill
           /\ SameDirs \/ CreateStores \/ CreateEntry \/ WriteCatalog \/ SaveStores \/ MakeMissing \/ Kill
           /\ told' = told \/ ApplyInsert \/ CreateAgain \/ Publish \/ Ready
<1>0. TypeInv
    BY DEF Inv
<1>1. disk' = disk => SameLog /\ SameContents /\ SameDirs
    BY DEF SameLog, SameContents, SameDirs
<1>2. SameCatalog => SameContents
    BY DEF SameCatalog, SameContents
<1>3. CASE LogFrame
    BY <1>0, <1>2, <1>3, LogFrameDoes
<1>4. CASE LogFails
    BY <1>0, <1>2, <1>4, LogFailsDoes
<1>5. CASE StartCheckpoint
    BY <1>0, <1>1, <1>5, StartCheckpointDoes
<1>6. CASE ApplyInsert
    <2>1. job.kind \in {"apply", "checkpoint"}
        BY <1>6 DEF ApplyInsert, Applying
    <2>2. disk' = disk
        BY <1>0, <1>6, <2>1, ApplyInsertDoes, StoresAre DEF ApplyInsertMisses, ApplyInsertWrites
    <2> QED BY <1>1, <1>6, <2>2
<1>7. CASE CreateAgain
    BY <1>0, <1>1, <1>7, CreateAgainDoes
<1>8. CASE CreateStores
    BY <1>0, <1>1, <1>2, <1>8, CreateStoresDoes, BrokenDoes DEF CreateStoresMisses, CreateStoresMakes
<1>9. CASE CreateEntry
    BY <1>0, <1>2, <1>9, CreateEntryDoes
<1>10. CASE Publish
    BY <1>0, <1>1, <1>10, PublishDoes
<1>11. CASE WriteCatalog
    BY <1>0, <1>11, WriteCatalogDoes, StoresAre
<1>12. CASE StepFails
    BY <1>0, <1>12, StepFailsDoes, BrokenDoes DEF SameContents
<1>13. CASE SaveStores
    BY <1>0, <1>2, <1>13, SaveStoresDoes
<1>14. CASE Truncate
    BY <1>0, <1>2, <1>14, TruncateDoes
<1>15. CASE Start
    BY <1>0, <1>1, <1>15, StartDoes, StoresAre
<1>16. CASE OpenStores
    BY <1>0, <1>1, <1>16, OpenStoresDoes DEF OpenStoresOpens
<1>17. CASE Replay
    BY <1>0, <1>1, <1>17, ReplayDoes DEF ReplayReads
<1>18. CASE Ready
    BY <1>0, <1>1, <1>18, ReadyDoes
<1>19. CASE Shutdown
    BY <1>0, <1>1, <1>19, ShutdownDoes
<1>20. CASE Kill
    BY <1>0, <1>20, KillDoes, StoresAre DEF OneKindOfFailure
<1>21. CASE MakeMissing
    BY <1>0, <1>1, <1>2, <1>21, MakeMissingDoes, BrokenDoes DEF MissingMisses, MissingMakes
<1> QED
    BY <1>3, <1>4, <1>5, <1>6, <1>7, <1>8, <1>9, <1>10, <1>11, <1>12, <1>13, <1>14, <1>15,
       <1>16, <1>17, <1>18, <1>19, <1>20, <1>21 DEF Works

-----------------------------------------------------------------------------
(* The log.                                                                *)
LEMMA LogGrows ==
    ASSUME NEW log, LogOK(log), NEW f, IsFrame(f), \A g \in log : g.lsn < f.lsn,
           f.kind = "create" => \A g \in log : g.kind = "insert" => g.config # f.config
    PROVE  LogOK(log \cup {f})
BY DEF LogOK, IsFrame

\* What the commit thread is asked to log.
LEMMA AskedIs ==
    ASSUME Inv, phase \in {"up", "closing"}, queue # <<>>, job = Idle, ~mem.poisoned,
           Asked.kind \in {"create", "insert"}
    PROVE  /\ Loaded /\ IsConfig(Asked.config) /\ mem.next \in Nat /\ mem.next # 0
           /\ \A f \in disk.log : f.lsn < mem.next
           /\ Asked.kind = "create" => ~Taken(Asked.config)
           /\ Asked.kind = "insert" => Asked.config \in mem.registry
           /\ Asked.from \in Threads /\ waits[Asked.from] = Asked.kind
           /\ \A f \in disk.log : f.kind = "insert" => f.config \in mem.registry
           /\ \A i \in told.inserts : i.config \in mem.registry
           /\ NoFlush => \A f \in disk.log : f.kind = "create" => f.config \in mem.registry
           /\ \A c \in mem.registry : ~Taken(Asked.config) => c # Asked.config
<1>1. Loaded /\ phase # "opening"
    BY Phases
<1>2. IsSeq(queue)
    BY DEF Inv, WaitInv
<1>3. Asked = queue[1] /\ 1 \in DOMAIN queue
    BY <1>2, TailIs DEF Asked
<1>4. /\ Asked.kind = "create" => ~Taken(Asked.config) /\ IsConfig(Asked.config)
      /\ Asked.kind = "insert" => Asked.config \in mem.registry
      /\ Asked.from \in Threads /\ waits[Asked.from] = Asked.kind
    BY <1>3 DEF Inv, WaitInv
<1>5. /\ IsConfigs(mem.registry) /\ mem.next \in Nat /\ mem.last \in Nat /\ mem.last < mem.next
      /\ \A f \in disk.log : f.lsn < mem.next
      /\ DOMAIN mem.stores = Ids(mem.registry)
    BY <1>1 DEF Inv, MemInv
<1>6. \A k : ~Awaited(k)
    BY <1>1, IdleFields DEF Awaited, ToCome, Doing
<1>7. /\ \A f \in disk.log : f.kind = "insert" => f.config \in mem.registry
      /\ \A i \in told.inserts : i.config \in mem.registry
      /\ NoFlush => \A f \in disk.log : f.kind = "create" => f.config \in mem.registry
    BY <1>1, <1>6 DEF Inv, HomeInv
<1>8. \A c \in mem.registry : ~Taken(Asked.config) => c # Asked.config
    BY <1>5 DEF Taken, Ids
<1> QED BY <1>1, <1>4, <1>5, <1>7, <1>8 DEF IsConfigs

LEMMA NewFrameIs ==
    ASSUME Inv, phase \in {"up", "closing"}, queue # <<>>, job = Idle, ~mem.poisoned,
           Asked.kind \in {"create", "insert"}
    PROVE  /\ IsFrame(NewFrame) /\ NewFrame.kind = Asked.kind /\ NewFrame.config = Asked.config
           /\ NewFrame.lsn = mem.next /\ LogOK(disk.log \cup {NewFrame})
<1>1. NewFrame.kind = Asked.kind /\ NewFrame.config = Asked.config /\ NewFrame.lsn = mem.next
    BY DEF NewFrame, Frame
<1>2. NewFrame = Frame(NewFrame.kind, NewFrame.config, NewFrame.lsn)
    BY <1>1 DEF NewFrame
<1>3. IsFrame(NewFrame)
    BY <1>1, <1>2, AskedIs DEF IsFrame
<1>4. NewFrame.kind = "create" => \A g \in disk.log : g.kind = "insert" => g.config # NewFrame.config
    BY <1>1, AskedIs
<1>5. \A g \in disk.log : g.lsn < NewFrame.lsn
    BY <1>1, AskedIs
<1>6. LogOK(disk.log)
    BY DEF Inv, LogInv
<1>7. LogOK(disk.log \cup {NewFrame})
    BY <1>3, <1>4, <1>5, <1>6, LogGrows
<1> QED BY <1>1, <1>3, <1>7

LEMMA LogStep ==
    ASSUME Inv, OneKindOfFailure, Works
    PROVE  LogInv'
<1>0. TypeInv /\ LogOK(disk.log)
    BY DEF Inv, LogInv
<1>1. CASE SameLog
    BY <1>0, <1>1 DEF SameLog, LogInv
<1>2. CASE LogFrame
    BY <1>0, <1>2, LogFrameDoes, NewFrameIs DEF LogInv
<1>3. CASE LogFails
    BY <1>0, <1>3, LogFailsDoes, NewFrameIs DEF LogInv, SameLog
<1>4. CASE Truncate
    <2>1. disk'.log \subseteq disk.log
        BY <1>0, <1>4, TruncateDoes DEF Above
    <2> QED BY <1>0, <2>1 DEF LogInv, LogOK
<1> QED BY <1>1, <1>2, <1>3, <1>4, WhatMoves

-----------------------------------------------------------------------------
(* The catalog's file.                                                     *)
\* What is being written.
Writing(configs) ==
    /\ job.bytes = EncodeCatalog(configs, mem.last) /\ IsConfigs(configs) /\ mem.last \in Nat
    /\ job.kind = "apply" => /\ Creating /\ job.made /\ job.frame \in disk.log
                             /\ configs = mem.registry \cup {job.frame.config}
    /\ job.kind # "apply" => configs = mem.registry

LEMMA WhatIsWritten ==
    ASSUME Inv, job.step \in 1 .. 5 \/ (job.step = 6 /\ job.kind # "register")
    PROVE  \E configs : Writing(configs)
<1>1. JobInv /\ RegisterInv /\ ApplyInv /\ CheckpointInv /\ MemInv
    BY DEF Inv
<1>2. job.kind \in {"register", "apply", "checkpoint"}
    BY <1>1, IdleFields DEF JobInv
<1>3. CASE job.kind = "register"
    <2>1. /\ job.bytes = EncodeCatalog(mem.registry, mem.last) /\ mem.last = 0
          /\ IsConfigs(mem.registry)
        BY <1>1, <1>3 DEF RegisterInv
    <2> QED BY <1>3, <2>1 DEF Writing
<1>4. CASE job.kind = "apply"
    <2>1. job.frame \in disk.log /\ (job.frame.kind = "insert" => job.step = 0)
        BY <1>1, <1>4 DEF ApplyInv
    <2>2. IsFrame(job.frame)
        BY <2>1 DEF Inv, LogInv, LogOK
    <2>3. Creating /\ IsConfig(job.frame.config)
        BY <1>4, <2>1, <2>2 DEF IsFrame, Creating
    <2>4. job.made /\ job.bytes = EncodeCatalog(mem.registry \cup {job.frame.config}, mem.last)
        BY <1>1, <1>4, <2>3 DEF ApplyInv
    <2>5. mem.last \in Nat /\ IsConfigs(mem.registry)
        BY <1>1, <1>4, Phases DEF MemInv
    <2>6. IsConfigs(mem.registry \cup {job.frame.config})
        BY <2>3, <2>5, FS_AddElement DEF IsConfigs
    <2> QED BY <1>4, <2>1, <2>3, <2>4, <2>5, <2>6 DEF Writing
<1>5. CASE job.kind = "checkpoint"
    <2>1. job.bytes = EncodeCatalog(mem.registry, mem.last)
        BY <1>1, <1>5 DEF CheckpointInv
    <2>2. mem.last \in Nat /\ IsConfigs(mem.registry)
        BY <1>1, <1>5, Phases DEF MemInv
    <2> QED BY <1>5, <2>1, <2>2 DEF Writing
<1> QED BY <1>2, <1>3, <1>4, <1>5

LEMMA WrittenIsContent ==
    ASSUME NEW configs, IsConfigs(configs), NEW lsn \in Nat
    PROVE  IsContent(Synced(EncodeCatalog(configs, lsn)))
<1>1. PICK x : x = Synced(EncodeCatalog(configs, lsn))
    OBVIOUS
<1>2. LoadCatalog(x) = [ok |-> TRUE, configs |-> configs, lsn |-> lsn]
    BY <1>1, EncodedIsLoaded
<1>3. LoadCatalog(x).ok = TRUE /\ LoadCatalog(x).configs = configs /\ LoadCatalog(x).lsn = lsn
    BY <1>2
<1>4. x = [there |-> x.there, bytes |-> x.bytes, synced |-> TRUE] /\ x.there \in BOOLEAN
    BY <1>1 DEF Synced, Content
<1> QED BY <1>1, <1>3, <1>4 DEF IsContent

LEMMA SyncedFields == \A b : Synced(b).there = TRUE
BY DEF Synced, Content

(* What the two catalogs become.                                           *)
LEMMA SameEntries == SameContents => Entry' = Entry /\ Flushed' = Flushed
BY DEF SameContents, Entry, Flushed

LEMMA WriteEntries ==
    ASSUME Inv, WriteCatalog
    PROVE  /\ job.step # 4 => Entry' = Entry /\ disk'.catalog.entry = disk.catalog.entry
           /\ job.step # 5 => Flushed' = Flushed /\ disk'.catalog.flushed = disk.catalog.flushed
           /\ job.step = 4 =>
                 /\ disk'.catalog.entry.there /\ IsContent(disk'.catalog.entry)
                 /\ \E configs : Writing(configs) /\ Entry'.configs = configs /\ Entry'.lsn = mem.last
           /\ job.step = 5 =>
                 Flushed' = Entry /\ disk'.catalog.flushed = disk.catalog.entry
<1>1. TypeInv /\ StepOK(disk.catalog, job.step, job.bytes)
    BY StoresAre DEF Inv
<1>2. /\ job.step # 4 => Entry' = Entry /\ disk'.catalog.entry = disk.catalog.entry
      /\ job.step # 5 => Flushed' = Flushed /\ disk'.catalog.flushed = disk.catalog.flushed
      /\ job.step = 5 => Flushed' = Entry /\ disk'.catalog.flushed = disk.catalog.entry
    BY <1>1, WriteCatalogDoes DEF Entry, Flushed
<1>3. ASSUME job.step = 4
      PROVE  /\ disk'.catalog.entry.there /\ IsContent(disk'.catalog.entry)
             /\ \E configs : Writing(configs) /\ Entry'.configs = configs /\ Entry'.lsn = mem.last
    <2>1. PICK configs : Writing(configs)
        BY <1>3, WhatIsWritten
    <2>2. disk'.catalog.entry = Synced(EncodeCatalog(configs, mem.last))
        BY <1>1, <1>3, <2>1, WriteCatalogDoes DEF Writing, Synced
    <2>3. Entry' = [ok |-> TRUE, configs |-> configs, lsn |-> mem.last]
        BY <2>2, EncodedIsLoaded DEF Entry
    <2>4. disk'.catalog.entry.there /\ IsContent(disk'.catalog.entry)
        BY <2>1, <2>2, WrittenIsContent, SyncedFields DEF Writing
    <2> QED BY <2>1, <2>3, <2>4
<1> QED BY <1>2, <1>3

LEMMA KillEntries ==
    ASSUME Inv, OneKindOfFailure, Kill
    PROVE  /\ Entry' \in {Entry, Flushed} /\ Flushed' = Entry'
           /\ disk'.catalog.flushed = disk'.catalog.entry
           /\ \/ disk'.catalog.entry = disk.catalog.entry /\ Entry' = Entry
              \/ disk'.catalog.entry = disk.catalog.flushed /\ Entry' = Flushed
<1>1. TypeInv
    BY DEF Inv
<1> QED BY <1>1, KillDoes, StoresAre DEF Entry, Flushed, OneKindOfFailure

(* Where the next step of the job is.                                      *)
LEMMA StepMoves ==
    ASSUME Inv, OneKindOfFailure, Works, ~Kill
    PROVE  \/ WriteCatalog
           \/ StepFails
           \/ UNCHANGED <<disk.catalog, job.kind, job.step, job.bytes>>
           \/ SameContents /\ job.step # 5 /\ job'.step \in {0, 1}
           \/ Start /\ job'.kind = "register" /\ job'.step = 6 /\ job.step # 5 /\ SameContents
<1>0. TypeInv /\ JobInv /\ ApplyInv
    BY DEF Inv
<1>1. disk' = disk => SameContents
    BY DEF SameContents
<1>2. SameCatalog => SameContents
    BY DEF SameCatalog, SameContents
<1>3. CASE LogFrame
    <2>1. job'.step = 0
        BY <1>0, <1>3, LogFrameDoes, JobFields
    <2> QED BY <1>0, <1>2, <1>3, <2>1, LogFrameDoes, IdleFields
<1>4. CASE LogFails
    BY <1>0, <1>2, <1>4, LogFailsDoes, IdleFields
<1>5. CASE StartCheckpoint
    BY <1>0, <1>1, <1>5, StartCheckpointDoes, IdleFields DEF SavingDoes
<1>6. CASE ApplyInsert
    <2>1. job.kind = "apply" /\ job.frame.kind = "insert"
        BY <1>6 DEF ApplyInsert, Applying
    <2>2. job.step = 0
        BY <1>0, <2>1 DEF ApplyInv
    <2>3. disk' = disk /\ job' = Idle
        BY <1>0, <1>6, <2>1, ApplyInsertDoes, StoresAre, BrokenDoes DEF ApplyInsertMisses, ApplyInsertWrites
    <2> QED BY <1>1, <2>2, <2>3, IdleFields
<1>7. CASE CreateAgain
    BY <1>0, <1>1, <1>7, CreateAgainDoes, IdleFields DEF CreateAgain
<1>8. CASE CreateStores
    <2>1. job.step = 0
        BY <1>0, <1>8, CreateStoresDoes
    <2>2. CASE CreateStoresMisses
        <3>1. job' = Idle /\ disk' = disk
            BY <1>0, <2>2, BrokenDoes DEF CreateStoresMisses
        <3> QED BY <1>1, <2>1, <3>1, IdleFields
    <2>3. CASE CreateStoresMakes
        BY <2>1, <2>3 DEF CreateStoresMakes, SameCatalog
    <2> QED BY <1>0, <1>8, <2>2, <2>3, CreateStoresDoes
<1>9. CASE CreateEntry
    BY <1>0, <1>2, <1>9, CreateEntryDoes
<1>10. CASE Publish
    BY <1>0, <1>1, <1>10, PublishDoes, IdleFields
<1>13. CASE SaveStores
    <2>1. PICK left : SameCatalog /\ SavingDoes(left) /\ job.step = 0
        BY <1>0, <1>13, SaveStoresDoes
    <2>2. job'.step \in {0, 1}
        BY <2>1 DEF SavingDoes
    <2> QED BY <1>2, <2>1, <2>2
<1>14. CASE Truncate
    BY <1>0, <1>2, <1>14, TruncateDoes, IdleFields
<1>15. CASE Start
    <2>1. job.step = 0 /\ disk' = disk
        BY <1>0, <1>15, StartDoes, StoresAre, IdleFields
    <2>2. CASE UNCHANGED <<mem, job>>
        BY <2>1, <2>2
    <2>3. CASE \E supplied \in Openings : StartRegisters(supplied)
        <3>1. job'.kind = "register" /\ (job'.step = 6 \/ job'.step = 1)
            BY <2>3 DEF StartRegisters
        <3> QED BY <1>1, <1>15, <2>1, <3>1
    <2> QED BY <1>0, <1>15, <2>2, <2>3, StartDoes, StoresAre DEF StartRefuses, StartFails
<1>16. CASE OpenStores
    <2>1. job.step > 5
        BY <1>0, <1>16, OpenStoresDoes
    <2>2. SameContents /\ job' = Idle
        BY <1>0, <1>1, <1>16, OpenStoresDoes DEF OpenStoresOpens
    <2> QED BY <2>1, <2>2, IdleFields
<1>17. CASE Replay
    <2>1. PICK frame : ReplayReads(frame)
        BY <1>0, <1>17, ReplayDoes
    <2>2. job'.step = 0
        BY <2>1, JobFields, IdleFields DEF ReplayReads
    <2>3. job.step = 0 /\ disk' = disk
        BY <1>0, <1>17, <2>1, ReplayDoes, IdleFields DEF ReplayReads
    <2> QED BY <1>1, <2>2, <2>3
<1>18. CASE Ready
    BY <1>0, <1>1, <1>18, ReadyDoes
<1>19. CASE Shutdown
    BY <1>0, <1>1, <1>19, ShutdownDoes
<1>20. CASE MakeMissing
    <2>1. job.step > 5
        BY <1>0, <1>20, MakeMissingDoes
    <2>2. CASE MissingMisses
        <3>1. job' = Idle /\ disk' = disk
            BY <1>0, <2>2, BrokenDoes DEF MissingMisses
        <3>2. job.step # 5
            BY <1>0, <2>1 DEF JobInv
        <3> QED BY <1>1, <3>1, <3>2, IdleFields
    <2>3. CASE \E c \in mem.registry : MissingMakes(c)
        BY <2>3 DEF MissingMakes, SameCatalog
    <2> QED BY <1>0, <1>20, <2>2, <2>3, MakeMissingDoes
<1> QED
    BY <1>3, <1>4, <1>5, <1>6, <1>7, <1>8, <1>9, <1>10, <1>13, <1>14, <1>15,
       <1>16, <1>17, <1>18, <1>19, <1>20 DEF Works

LEMMA FileStep ==
    ASSUME Inv, OneKindOfFailure, Works
    PROVE  FileInv'
<1>0. TypeInv /\ FileInv /\ JobInv
    BY DEF Inv
<1>1. CASE Kill
    <2>1. job' = Idle
        BY <1>0, <1>1, KillDoes, StoresAre DEF OneKindOfFailure
    <2>2. IsContent(disk'.catalog.entry) /\ IsContent(disk'.catalog.flushed)
        BY <1>0, <1>1, KillEntries DEF FileInv
    <2> QED BY <1>1, <2>1, <2>2, KillEntries, StepGoes, IdleFields DEF FileInv
<1>2. CASE StepFails
    <2>1. job' = Idle /\ SameContents /\ ~NoStep /\ (job.kind = "register" => job.step # 5)
        BY <1>0, <1>2, StepFailsDoes, BrokenDoes DEF SameContents, NoStep, OneKindOfFailure
    <2> QED BY <1>0, <2>1, StepGoes, IdleFields DEF FileInv, SameContents
<1>3. CASE WriteCatalog
    <2>1. /\ job.step \in 1 .. 5 /\ job'.step = job.step + 1 /\ StepOK(disk'.catalog, job'.step, job'.bytes)
          /\ job'.kind = job.kind /\ job'.bytes = job.bytes
        BY <1>0, <1>3, WriteCatalogDoes, StoresAre
    <2>2. IsContent(disk'.catalog.entry) /\ IsContent(disk'.catalog.flushed)
        BY <1>0, <1>3, WriteEntries DEF FileInv
    <2>3. job.step = 5 => disk'.catalog.entry = Synced(job.bytes) /\ disk'.catalog.flushed = disk'.catalog.entry
        BY <1>0, <1>3, WriteEntries, StoresAre DEF StepOK
    <2>4. job.step \notin {4, 5} =>
             disk'.catalog.entry = disk.catalog.entry /\ disk'.catalog.flushed = disk.catalog.flushed
        BY <1>3, WriteEntries
    <2>5. job.step = 4 => disk'.catalog.entry.there /\ disk'.catalog.flushed = disk.catalog.flushed
        BY <1>3, WriteEntries
    <2>6. job.step = 4 /\ job.kind # "register" => disk.catalog.flushed.there
        <3>1. job.step = 4 /\ job.kind # "register" => Loaded
            BY Phases, <1>0, IdleFields DEF JobInv
        <3> QED BY <3>1 DEF Inv, MemInv
    <2>7. job'.step = 6 /\ job'.kind # "register" =>
              disk'.catalog.entry = Synced(job'.bytes) /\ disk'.catalog.flushed = disk'.catalog.entry
        BY <2>1, <2>3
    <2>8. NoStep => disk'.catalog.entry = disk'.catalog.flushed \/ job'.step = 5
        BY <1>0, <2>1, <2>3, <2>4 DEF FileInv
    <2>9. \/ disk'.catalog.entry.there <=> disk'.catalog.flushed.there
          \/ job'.kind = "register" /\ job'.step = 5
        BY <1>0, <2>1, <2>3, <2>4, <2>5, <2>6 DEF FileInv
    <2> QED BY <2>1, <2>2, <2>7, <2>8, <2>9 DEF FileInv
<1>4. CASE UNCHANGED <<disk.catalog, job.kind, job.step, job.bytes>>
    BY <1>0, <1>4 DEF FileInv
<1>5. CASE SameContents /\ job.step # 5 /\ job'.step \in {0, 1}
    BY <1>0, <1>5, StepGoes DEF FileInv, SameContents
<1>6. CASE Start /\ job'.kind = "register" /\ job'.step = 6 /\ job.step # 5 /\ SameContents
    BY <1>0, <1>6, StepGoes DEF FileInv, SameContents
<1> QED BY <1>1, <1>2, <1>3, <1>4, <1>5, <1>6, StepMoves

-----------------------------------------------------------------------------
(* What a catalog and the log lead to.                                     *)
\* When the catalog has been written and flushed.
LEMMA WrittenOut ==
    ASSUME Inv, job.step = 6, job.kind # "register"
    PROVE  /\ Flushed = Entry /\ disk.catalog.flushed = disk.catalog.entry
           /\ \E configs : Writing(configs) /\ Entry.configs = configs /\ Entry.lsn = mem.last
<1>1. PICK configs : Writing(configs)
    BY WhatIsWritten
<1>2. disk.catalog.entry = Synced(job.bytes) /\ disk.catalog.flushed = disk.catalog.entry
    BY DEF Inv, FileInv
<1>3. disk.catalog.entry = Synced(EncodeCatalog(configs, mem.last))
    BY <1>1, <1>2 DEF Writing, Synced
<1>4. Entry = [ok |-> TRUE, configs |-> configs, lsn |-> mem.last]
    BY <1>3, EncodedIsLoaded DEF Entry
<1> QED BY <1>1, <1>2, <1>4 DEF Entry, Flushed

LEMMA BothThere ==
    ASSUME Inv
    PROVE  /\ Loaded => disk.catalog.entry.there /\ disk.catalog.flushed.there
           /\ job.kind = "register" /\ job.step = 6 => disk.catalog.entry.there /\ disk.catalog.flushed.there
           /\ job.step = 5 => disk.catalog.entry.there
           /\ ~disk.catalog.entry.there => Entry.configs = {} /\ Entry.lsn = 0
           /\ ~disk.catalog.flushed.there => Flushed.configs = {} /\ Flushed.lsn = 0
<1>1. MemInv /\ RegisterInv /\ FileInv
    BY DEF Inv
<1>2. job.step = 5 => disk.catalog.entry.there
    BY <1>1, SyncedFields DEF FileInv, StepOK
<1>3. \A x : IsContent(x) /\ ~x.there => LoadCatalog(x).configs = {} /\ LoadCatalog(x).lsn = 0
    <2>1. \A x : IsContent(x) /\ ~x.there => x.there = FALSE
        BY DEF IsContent
    <2>2. ASSUME NEW x, x.there = FALSE
          PROVE  LoadCatalog(x).configs = {} /\ LoadCatalog(x).lsn = 0
        <3>1. LoadCatalog(x) = [ok |-> TRUE, configs |-> {}, lsn |-> 0]
            BY ONLY <2>2, AbsentIsEmpty
        <3> QED BY ONLY <3>1
    <2> QED BY <2>1, <2>2
<1> QED BY <1>1, <1>2, <1>3 DEF MemInv, RegisterInv, FileInv, Entry, Flushed

LEMMA FindsMore ==
    ASSUME NEW log, NEW more, log \subseteq more, NEW c, NEW k, Finds(log, c, k)
    PROVE  Finds(more, c, k)
BY DEF Finds, Coming

LEMMA RecallsMore ==
    ASSUME NEW th, NEW c, NEW log, NEW tc, NEW ti, NEW known, RecallOK(th, c, log, tc, ti, known),
           NEW f, Finds(log \cup {f}, c, f.config)
    PROVE  RecallOK(th, c, log \cup {f}, tc, ti, known)
<1>1. \A k : Finds(log, c, k) => Finds(log \cup {f}, c, k)
    BY FindsMore
<1> QED BY <1>1 DEF RecallOK

\* All that is registered is found from both catalogs.
LEMMA RegistryIsFound ==
    ASSUME Inv, OneKindOfFailure, Loaded, job.step # 5, NEW k \in mem.registry
    PROVE  Finds(disk.log, Entry, k) /\ Finds(disk.log, Flushed, k)
<1>1. k \in Entry.configs
    BY DEF Inv, MemInv
<1>2. CASE NoFlush
    BY <1>1, <1>2, BothThere DEF Inv, RecallInv, RecallOK, Finds
<1>3. CASE NoStep
    <2>1. Flushed = Entry
        BY <1>3 DEF Inv, FileInv, Entry, Flushed
    <2> QED BY <1>1, <2>1 DEF Finds
<1> QED BY <1>2, <1>3 DEF OneKindOfFailure

LEMMA CatalogLsnsBelow ==
    ASSUME Inv, Loaded, \A f \in disk.log : f.lsn < mem.next
    PROVE  Entry.lsn < mem.next /\ Flushed.lsn < mem.next
<1>1. mem.last \in Bases \cup MemLsns
    BY DEF MemLsns
<1>2. Entry.lsn \in Marks(disk.dirs) /\ Flushed.lsn \in Marks(disk.dirs)
    BY DEF Marks
<1>3. Above0(disk.log, Entry.lsn, mem.last) /\ Above0(disk.log, Flushed.lsn, mem.last)
    BY <1>1, <1>2 DEF Inv, CoverInv
<1>4. mem.last \in Nat /\ mem.next \in Nat /\ mem.last < mem.next
    BY DEF Inv, MemInv
<1>5. Entry.lsn \in Nat /\ Flushed.lsn \in Nat
    BY DEF Inv, FileInv, IsContent, Entry, Flushed
<1>6. \A f \in disk.log : f.lsn \in Nat
    BY DEF Inv, LogInv, LogOK, IsFrame
<1> QED BY <1>3, <1>4, <1>5, <1>6 DEF Above0

LEMMA NewFrameIsFound ==
    ASSUME Inv, OneKindOfFailure, phase \in {"up", "closing"}, queue # <<>>, job = Idle, ~mem.poisoned,
           Asked.kind \in {"create", "insert"}, Asked.kind = "insert" \/ NoFlush
    PROVE  /\ Finds(disk.log \cup {NewFrame}, Entry, NewFrame.config)
           /\ Finds(disk.log \cup {NewFrame}, Flushed, NewFrame.config)
<1>1. /\ NewFrame.kind = Asked.kind /\ NewFrame.config = Asked.config /\ NewFrame.lsn = mem.next
    BY NewFrameIs
<1>2. CASE Asked.kind = "insert"
    <2>1. Asked.config \in mem.registry /\ Loaded /\ job.step # 5
        BY <1>2, AskedIs, IdleFields
    <2>2. Finds(disk.log, Entry, Asked.config) /\ Finds(disk.log, Flushed, Asked.config)
        BY <2>1, RegistryIsFound
    <2> QED BY <1>1, <2>2, FindsMore
<1>3. CASE Asked.kind = "create" /\ NoFlush
    <2>1. Entry.lsn < mem.next /\ Flushed.lsn < mem.next
        BY AskedIs, CatalogLsnsBelow
    <2>2. mem.next \in Nat /\ Entry.lsn \in Nat /\ Flushed.lsn \in Nat
        BY AskedIs DEF Inv, FileInv, IsContent, Entry, Flushed
    <2> QED BY <1>1, <1>3, <2>1, <2>2 DEF Finds, Coming
<1> QED BY <1>2, <1>3

\* A frame that is not an insert, when flushes fail, need not be found.
LEMMA RecallsUnfound ==
    ASSUME NEW th, NEW c, NEW log, NEW tc, NEW ti, NEW known, RecallOK(th, c, log, tc, ti, known),
           ~NoFlush, NEW f, f.kind # "insert"
    PROVE  RecallOK(th, c, log \cup {f}, tc, ti, known)
<1>1. \A k : Finds(log, c, k) => Finds(log \cup {f}, c, k)
    BY FindsMore
<1> QED BY <1>1 DEF RecallOK

\* RecallInv, of the state's parts.
RecallParts(ethere, fthere, e, fl, log, tc, ti) ==
    /\ RecallOK(ethere, e, log, tc, ti, e.configs)
    /\ RecallOK(fthere, fl, log, tc, ti, e.configs)
    /\ fl.configs \subseteq e.configs

LEMMA RecallIs ==
    /\ RecallInv <=>
        /\ RecallParts(disk.catalog.entry.there, disk.catalog.flushed.there, Entry, Flushed, disk.log,
                       told.configs, told.inserts)
        /\ ~disk.catalog.entry.there \/ ~disk.catalog.flushed.there => Fresh
    /\ RecallInv' <=>
        /\ RecallParts(disk'.catalog.entry.there, disk'.catalog.flushed.there, Entry', Flushed', disk'.log,
                       told'.configs, told'.inserts)
        /\ ~disk'.catalog.entry.there \/ ~disk'.catalog.flushed.there => Fresh'
BY DEF RecallInv, RecallParts

\* What a job's frame leads to, in memory and from the catalog being written.
LEMMA ExpectedIsFound ==
    ASSUME NEW c, c.lsn = mem.last, mem.registry \subseteq c.configs,
           Creating => job.frame.config \in c.configs,
           NEW k, k \in mem.registry \/ (NoFlush /\ Awaited(k)),
           job.kind = "apply" => IsFrame(job.frame)
    PROVE  Finds(disk.log, c, k)
<1>1. CASE k \in mem.registry
    BY <1>1 DEF Finds
<1>2. CASE NoFlush /\ Awaited(k)
    <2>1. PICK f \in disk.log : f.kind = "create" /\ f.config = k /\ (ToCome(f) \/ Doing(f))
        BY <1>2 DEF Awaited
    <2>2. CASE ToCome(f)
        BY <1>2, <2>1, <2>2 DEF ToCome, Finds, Coming
    <2>3. CASE Doing(f)
        BY <2>1, <2>3 DEF Doing, Creating, Finds
    <2> QED BY <2>1, <2>2, <2>3
<1> QED BY <1>1, <1>2

\* A catalog with all that is registered recalls everything.
LEMMA WrittenRecalls ==
    ASSUME Inv, Loaded, ~mem.poisoned, NEW c, c.lsn = mem.last, mem.registry \subseteq c.configs,
           Creating => job.frame.config \in c.configs
    PROVE  RecallOK(TRUE, c, disk.log, told.configs, told.inserts, c.configs)
<1>1. job.kind = "apply" => IsFrame(job.frame)
    BY DEF Inv, ApplyInv, LogInv, LogOK
<1>2. \A k : k \in mem.registry \/ (NoFlush /\ Awaited(k)) => Finds(disk.log, c, k)
    BY <1>1, ExpectedIsFound
<1>3. /\ \A f \in disk.log : f.kind = "insert" => Finds(disk.log, c, f.config)
      /\ \A i \in told.inserts : Finds(disk.log, c, i.config)
      /\ NoFlush => \A f \in disk.log : f.kind = "create" => Finds(disk.log, c, f.config)
    BY <1>2 DEF Inv, HomeInv
<1>4. told.configs \subseteq c.configs /\ Supplied \subseteq c.configs
    BY DEF Inv, MemInv
<1>5. \A k \in c.configs : Finds(disk.log, c, k)
    BY DEF Finds
<1> QED BY <1>3, <1>4, <1>5 DEF RecallOK

\* Less of the log, when everything is in the catalog.
LEMMA AllRegisteredRecalls ==
    ASSUME NEW th, NEW c, NEW log, NEW less, less \subseteq log, NEW tc, NEW ti, NEW known,
           RecallOK(th, c, log, tc, ti, known), known \subseteq c.configs,
           \A f \in log : f.kind = "insert" => f.config \in c.configs,
           NoFlush => \A f \in log : f.kind = "create" => f.config \in c.configs,
           \A i \in ti : i.config \in c.configs
    PROVE  RecallOK(th, c, less, tc, ti, known)
<1>1. \A k \in c.configs : Finds(less, c, k)
    BY DEF Finds
<1> QED BY <1>1 DEF RecallOK

\* Fewer collections known, more told.
LEMMA RecallKnows ==
    ASSUME NEW th, NEW c, NEW log, NEW tc, NEW ti, NEW known, NEW fewer, fewer \subseteq known,
           RecallOK(th, c, log, tc, ti, known)
    PROVE  RecallOK(th, c, log, tc, ti, fewer)
BY DEF RecallOK

LEMMA RecallTold ==
    ASSUME NEW th, NEW c, NEW log, NEW tc, NEW ti, NEW known, RecallOK(th, c, log, tc, ti, known),
           NEW tcs, tcs \subseteq c.configs, NEW tis, \A i \in tis : i \in ti \/ Finds(log, c, i.config)
    PROVE  RecallOK(th, c, log, tcs, tis, known)
BY DEF RecallOK

\* What the log's changes keep of it.
LEMMA RecallLog ==
    ASSUME Inv, OneKindOfFailure, LogFrame \/ LogFails
    PROVE  RecallInv'
<1>0. TypeInv /\ RecallInv
    BY DEF Inv
<1>1. /\ phase \in {"up", "closing"} /\ queue # <<>> /\ job = Idle /\ ~mem.poisoned
      /\ Asked.kind \in {"create", "insert"}
      /\ SameCatalog /\ SameDirs /\ told' = told
      /\ \/ disk'.log = disk.log
         \/ disk'.log = disk.log \cup {NewFrame} /\ (LogFrame \/ ~NoFlush)
    BY <1>0, LogFrameDoes, LogFailsDoes DEF NoFlush, SameLog
<1>2. SameContents
    BY <1>1 DEF SameCatalog, SameContents
<1>3. Entry' = Entry /\ Flushed' = Flushed
    BY <1>2, SameEntries
<1>4. Loaded
    BY <1>1, Phases
<1>5. disk.catalog.entry.there /\ disk.catalog.flushed.there
    BY <1>4, BothThere
<1>6. RecallParts(disk.catalog.entry.there, disk.catalog.flushed.there, Entry, Flushed, disk.log,
                  told.configs, told.inserts)
    BY <1>0, RecallIs
<1>7. RecallParts(disk.catalog.entry.there, disk.catalog.flushed.there, Entry, Flushed, disk'.log,
                  told.configs, told.inserts)
    <2>1. CASE disk'.log = disk.log
        BY <1>6, <2>1
    <2>2. CASE disk'.log = disk.log \cup {NewFrame} /\ (Asked.kind = "insert" \/ NoFlush)
        <3>1. /\ Finds(disk.log \cup {NewFrame}, Entry, NewFrame.config)
              /\ Finds(disk.log \cup {NewFrame}, Flushed, NewFrame.config)
            BY <1>1, <2>2, NewFrameIsFound
        <3> QED BY <1>6, <2>2, <3>1, RecallsMore DEF RecallParts
    <2>3. CASE disk'.log = disk.log \cup {NewFrame} /\ Asked.kind # "insert" /\ ~NoFlush
        <3>1. NewFrame.kind # "insert"
            BY <1>1, <2>3, NewFrameIs
        <3> QED BY <1>6, <2>3, <3>1, RecallsUnfound DEF RecallParts
    <2> QED BY <1>1, <2>1, <2>2, <2>3
<1> QED BY <1>1, <1>2, <1>3, <1>5, <1>7, RecallIs DEF SameContents

LEMMA RecallTruncate ==
    ASSUME Inv, OneKindOfFailure, Truncate
    PROVE  RecallInv'
<1>0. TypeInv /\ RecallInv /\ JobInv
    BY DEF Inv
<1>1. /\ job.kind = "checkpoint" /\ job.step > 5 /\ SameCatalog /\ told' = told
      /\ disk'.log \subseteq disk.log
    BY <1>0, TruncateDoes DEF Above
<1>2. job.step = 6
    BY <1>0, <1>1 DEF JobInv
<1>3. SameContents
    BY <1>1 DEF SameCatalog, SameContents
<1>4. Entry' = Entry /\ Flushed' = Flushed
    BY <1>3, SameEntries
<1>5. Loaded /\ ~mem.poisoned /\ phase # "opening"
    BY <1>0, <1>1, Phases DEF JobInv
<1>6. disk.catalog.entry.there /\ disk.catalog.flushed.there
    BY <1>5, BothThere
<1>7. Flushed = Entry /\ Entry.configs = mem.registry
    BY <1>1, <1>2, WrittenOut DEF Writing
<1>8. \A k : ~Awaited(k)
    BY <1>1, <1>5 DEF Awaited, ToCome, Doing
<1>9. /\ \A f \in disk.log : f.kind = "insert" => f.config \in Entry.configs
      /\ NoFlush => \A f \in disk.log : f.kind = "create" => f.config \in Entry.configs
      /\ \A i \in told.inserts : i.config \in Entry.configs
    BY <1>5, <1>7, <1>8 DEF Inv, HomeInv
<1>10. RecallOK(disk.catalog.entry.there, Entry, disk.log, told.configs, told.inserts, Entry.configs)
       /\ RecallOK(disk.catalog.flushed.there, Entry, disk.log, told.configs, told.inserts, Entry.configs)
    BY <1>0, <1>7 DEF RecallInv
<1>11. RecallOK(disk.catalog.entry.there, Entry, disk'.log, told.configs, told.inserts, Entry.configs)
       /\ RecallOK(disk.catalog.flushed.there, Entry, disk'.log, told.configs, told.inserts, Entry.configs)
    BY <1>1, <1>9, <1>10, AllRegisteredRecalls
<1>12. RecallParts(disk.catalog.entry.there, disk.catalog.flushed.there, Entry, Flushed, disk'.log,
                  told.configs, told.inserts)
    BY <1>7, <1>11 DEF RecallParts
<1> QED BY <1>1, <1>3, <1>4, <1>6, <1>12, RecallIs DEF SameContents

LEMMA RecallWrite ==
    ASSUME Inv, OneKindOfFailure, WriteCatalog
    PROVE  RecallInv'
<1>0. TypeInv /\ RecallInv /\ JobInv /\ RegisterInv /\ FileInv /\ MemInv
    BY DEF Inv
<1>1. /\ job.step \in 1 .. 5 /\ SameLog /\ told' = told
      /\ job.step # 5 => SameDirs
    BY <1>0, WriteCatalogDoes, StoresAre
<1>2. CASE job.step \notin {4, 5}
    <2>1. Entry' = Entry /\ Flushed' = Flushed /\ SameContents
        BY <1>2, WriteEntries DEF SameContents
    <2>2. Fresh' <=> Fresh
        BY <1>1, <1>2 DEF Fresh, SameLog, SameDirs
    <2> QED BY <1>0, <1>1, <2>1, <2>2, RecallIs DEF SameContents, SameLog
<1>3. CASE job.step = 5
    <2>1. Entry' = Entry /\ Flushed' = Entry /\ disk'.catalog.entry = disk.catalog.entry
          /\ disk'.catalog.flushed = disk.catalog.entry
        BY <1>3, WriteEntries
    <2>2. disk.catalog.entry.there
        BY <1>3, BothThere
    <2>3. RecallOK(disk.catalog.entry.there, Entry, disk.log, told.configs, told.inserts, Entry.configs)
        BY <1>0 DEF RecallInv
    <2>4. RecallParts(disk'.catalog.entry.there, disk'.catalog.flushed.there, Entry', Flushed', disk'.log,
                       told'.configs, told'.inserts)
        BY <1>1, <2>1, <2>3 DEF RecallParts, SameLog
    <2> QED BY <2>1, <2>2, <2>4, RecallIs
<1>4. CASE job.step = 4 /\ job.kind = "register"
    <2>1. Fresh /\ mem.registry = Supplied /\ ~disk.catalog.entry.there
        BY <1>0, <1>4 DEF RegisterInv
    <2>2. ~disk.catalog.flushed.there
        BY <1>0, <1>4, <2>1 DEF FileInv
    <2>3. Entry'.configs = Supplied /\ Flushed' = Flushed /\ disk'.catalog.flushed = disk.catalog.flushed
        BY <1>4, <2>1, WriteEntries DEF Writing
    <2>4. Flushed.configs = {}
        BY <2>2, BothThere
    <2>5. Fresh'
        BY <1>1, <1>4, <2>1 DEF Fresh, SameLog, SameDirs
    <2>6. disk'.log = {} /\ told'.configs = {} /\ told'.inserts = {}
        BY <2>5 DEF Fresh
    <2>7. \A k \in Supplied : Finds(disk'.log, Entry', k)
        BY <2>3 DEF Finds
    <2>8. RecallOK(disk'.catalog.entry.there, Entry', disk'.log, told'.configs, told'.inserts, Entry'.configs)
        BY <2>3, <2>6, <2>7 DEF RecallOK
    <2>9. RecallOK(disk'.catalog.flushed.there, Flushed', disk'.log, told'.configs, told'.inserts, Entry'.configs)
        BY <2>2, <2>3, <2>6 DEF RecallOK
    <2> QED BY <2>3, <2>4, <2>5, <2>8, <2>9, RecallIs DEF RecallParts
<1>5. CASE job.step = 4 /\ job.kind # "register"
    <2>1. Loaded /\ ~mem.poisoned
        BY <1>0, <1>5, Phases, IdleFields DEF JobInv
    <2>2. PICK configs : Writing(configs) /\ Entry'.configs = configs /\ Entry'.lsn = mem.last
        BY <1>5, WriteEntries
    <2>3. mem.registry \subseteq configs /\ (Creating => job.frame.config \in configs)
        BY <2>2 DEF Writing, Creating
    <2>4. disk'.catalog.entry.there /\ Flushed' = Flushed /\ disk'.catalog.flushed = disk.catalog.flushed
        BY <1>5, WriteEntries
    <2>5. PICK e : e = Entry'
        OBVIOUS
    <2>6. RecallOK(TRUE, e, disk.log, told.configs, told.inserts, e.configs)
        BY <2>1, <2>2, <2>3, <2>5, WrittenRecalls
    <2>7. RecallOK(disk'.catalog.entry.there, Entry', disk'.log, told'.configs, told'.inserts, Entry'.configs)
        BY <1>1, <2>5, <2>6 DEF RecallOK, SameLog
    <2>8. \A c \in Entry.configs : c \in configs
        <3>1. \A c \in Entry.configs : c \in mem.registry \/ (Creating /\ c = job.frame.config)
            BY <1>0, <2>1 DEF MemInv
        <3> QED BY <2>3, <3>1
    <2>9. Flushed.configs \subseteq Entry.configs
          /\ RecallOK(disk.catalog.flushed.there, Flushed, disk.log, told.configs, told.inserts, Entry.configs)
        BY <1>0 DEF RecallInv
    <2>10. \A k \in configs : k \in Entry.configs \/ \E f \in disk.log : f.kind = "create" /\ f.config = k
        <3>1. mem.registry \subseteq Entry.configs
            BY <1>0, <2>1 DEF MemInv
        <3>2. configs \subseteq mem.registry \/ (Creating /\ configs = mem.registry \cup {job.frame.config} /\ job.frame \in disk.log)
            BY <2>2 DEF Writing
        <3> QED BY <3>1, <3>2 DEF Creating
    <2>11. RecallOK(disk.catalog.flushed.there, Flushed, disk.log, told.configs, told.inserts, configs)
        BY <2>9, <2>10 DEF RecallOK
    <2>12. RecallParts(disk'.catalog.entry.there, disk'.catalog.flushed.there, Entry', Flushed', disk'.log,
                       told'.configs, told'.inserts)
        BY <1>1, <2>2, <2>4, <2>7, <2>8, <2>9, <2>11 DEF RecallParts, SameLog
    <2>13. disk.catalog.flushed.there
        BY <2>1, BothThere
    <2> QED BY <2>4, <2>12, <2>13, RecallIs
<1> QED BY <1>2, <1>3, <1>4, <1>5

LEMMA RecallKill ==
    ASSUME Inv, OneKindOfFailure, Kill
    PROVE  RecallInv'
<1>0. TypeInv /\ RecallInv
    BY DEF Inv
<1>1. told' = told /\ SameLog /\ Left(disk.dirs, disk'.dirs)
    BY <1>0, KillDoes, StoresAre DEF OneKindOfFailure
<1>2. Fresh => Fresh'
    BY <1>1 DEF Fresh, SameLog, Left
<1>3. Flushed' = Entry' /\ disk'.catalog.flushed = disk'.catalog.entry
      /\ \/ disk'.catalog.entry = disk.catalog.entry /\ Entry' = Entry
         \/ disk'.catalog.entry = disk.catalog.flushed /\ Entry' = Flushed
    BY KillEntries
<1>4. RecallOK(disk.catalog.flushed.there, Flushed, disk.log, told.configs, told.inserts, Flushed.configs)
    BY <1>0, RecallKnows DEF RecallInv
<1>5. RecallOK(disk'.catalog.entry.there, Entry', disk.log, told.configs, told.inserts, Entry'.configs)
    BY <1>0, <1>3, <1>4 DEF RecallInv
<1>6. RecallParts(disk'.catalog.entry.there, disk'.catalog.flushed.there, Entry', Flushed', disk'.log,
                       told'.configs, told'.inserts)
    BY <1>1, <1>3, <1>5 DEF RecallParts, SameLog
<1>7. ~disk'.catalog.entry.there \/ ~disk'.catalog.flushed.there => Fresh'
    BY <1>0, <1>2, <1>3 DEF RecallInv
<1> QED BY <1>6, <1>7, RecallIs

\* What is told is in both catalogs.
LEMMA ToldIsRecalled ==
    ASSUME Inv, OneKindOfFailure, ApplyInsert \/ CreateAgain \/ Publish \/ Ready
    PROVE  /\ SameContents /\ SameLog /\ Loaded
           /\ told'.configs \subseteq Entry.configs /\ told'.configs \subseteq Flushed.configs
           /\ \A i \in told'.inserts :
                 i \in told.inserts \/ (Finds(disk.log, Entry, i.config) /\ Finds(disk.log, Flushed, i.config))
<1>0. TypeInv /\ RecallInv /\ JobInv /\ ApplyInv
    BY DEF Inv
<1>1. told.configs \subseteq Entry.configs /\ told.configs \subseteq Flushed.configs
    BY <1>0 DEF RecallInv, RecallOK
<1>2. disk' = disk => SameContents /\ SameLog
    BY DEF SameContents, SameLog
<1>3. CASE ApplyInsert
    <2>1. job.kind = "apply" /\ job.frame.kind = "insert"
        BY <1>3 DEF ApplyInsert, Applying
    <2>2. Loaded /\ job.step = 0
        BY <1>0, <2>1, Phases DEF ApplyInv
    <2>3. CASE ApplyInsertMisses
        BY <1>0, <1>1, <1>2, <2>2, <2>3, BrokenDoes DEF ApplyInsertMisses
    <2>4. CASE ApplyInsertWrites /\ job.from = "none"
        BY <1>1, <1>2, <2>2, <2>4 DEF ApplyInsertWrites
    <2>5. CASE ApplyInsertWrites /\ job.from # "none"
        <3>1. phase # "opening"
            BY <1>0, <2>5 DEF JobInv
        <3>2. job.frame.config \in mem.registry
            BY <1>0, <2>1, <3>1 DEF ApplyInv
        <3>3. Finds(disk.log, Entry, job.frame.config) /\ Finds(disk.log, Flushed, job.frame.config)
            BY <2>2, <3>2, RegistryIsFound
        <3>4. told'.inserts = told.inserts \cup {[config |-> job.frame.config, lsn |-> job.frame.lsn]}
              /\ told'.configs = told.configs /\ disk' = disk
            BY <2>5 DEF ApplyInsertWrites
        <3>5. \A i \in told'.inserts : i \in told.inserts \/ i.config = job.frame.config
            BY <3>4
        <3> QED BY <1>1, <1>2, <2>2, <3>3, <3>4, <3>5
    <2> QED BY <1>0, <1>3, <2>1, <2>3, <2>4, <2>5, ApplyInsertDoes, StoresAre
<1>4. CASE CreateAgain
    <2>1. Creating /\ Taken(job.frame.config) /\ disk' = disk /\ told'.inserts = told.inserts
          /\ (job.from = "none" => told'.configs = told.configs)
        BY <1>0, <1>4, CreateAgainDoes
    <2>2. phase = "opening"
        BY <1>0, <2>1 DEF ApplyInv, Creating
    <2>3. job.from = "none"
        BY <1>0, <2>2 DEF JobInv
    <2>4. Loaded
        BY <2>1, Phases DEF Creating
    <2> QED BY <1>1, <1>2, <2>1, <2>3, <2>4
<1>5. CASE Publish
    <2>1. Creating /\ job.step > 5 /\ disk' = disk /\ told'.inserts = told.inserts
          /\ told'.configs \subseteq told.configs \cup {job.frame.config}
        BY <1>0, <1>5, PublishDoes
    <2>2. job.step = 6 /\ job.kind = "apply"
        BY <1>0, <2>1 DEF JobInv, Creating
    <2>3. Flushed = Entry /\ job.frame.config \in Entry.configs
        BY <2>2, WrittenOut DEF Writing
    <2>4. Loaded
        BY <2>2, Phases
    <2> QED BY <1>1, <1>2, <2>1, <2>3, <2>4
<1>6. CASE Ready
    <2>1. /\ phase = "opening" /\ job = Idle /\ disk' = disk /\ told'.inserts = told.inserts
          /\ told'.configs \subseteq told.configs \cup Supplied
        BY <1>0, <1>6, ReadyDoes
    <2>2. Loaded
        BY <2>1, Phases
    <2>3. Supplied \subseteq Entry.configs /\ Supplied \subseteq Flushed.configs
        BY <1>0, <2>2, BothThere DEF RecallInv, RecallOK
    <2> QED BY <1>1, <1>2, <2>1, <2>2, <2>3
<1> QED BY <1>3, <1>4, <1>5, <1>6

LEMMA RecallStep ==
    ASSUME Inv, OneKindOfFailure, Works
    PROVE  RecallInv'
<1>0. TypeInv /\ RecallInv
    BY DEF Inv
<1>1. CASE LogFrame \/ LogFails
    BY <1>1, RecallLog
<1>2. CASE Truncate
    BY <1>2, RecallTruncate
<1>3. CASE WriteCatalog
    BY <1>3, RecallWrite
<1>4. CASE Kill
    BY <1>4, RecallKill
<1>5. CASE ApplyInsert \/ CreateAgain \/ Publish \/ Ready
    <2>1. /\ SameContents /\ SameLog /\ Loaded
          /\ told'.configs \subseteq Entry.configs /\ told'.configs \subseteq Flushed.configs
          /\ \A i \in told'.inserts :
                 i \in told.inserts \/ (Finds(disk.log, Entry, i.config) /\ Finds(disk.log, Flushed, i.config))
        BY <1>5, ToldIsRecalled
    <2>2. disk.catalog.entry.there /\ disk.catalog.flushed.there
        BY <2>1, BothThere
    <2>3. /\ RecallOK(disk.catalog.entry.there, Entry, disk.log, told'.configs, told'.inserts, Entry.configs)
          /\ RecallOK(disk.catalog.flushed.there, Flushed, disk.log, told'.configs, told'.inserts, Entry.configs)
          /\ Flushed.configs \subseteq Entry.configs
        BY <1>0, <2>1, RecallTold DEF RecallInv
    <2>4. Entry' = Entry /\ Flushed' = Flushed
        BY <2>1, SameEntries
    <2>5. RecallParts(disk'.catalog.entry.there, disk'.catalog.flushed.there, Entry', Flushed', disk'.log,
                       told'.configs, told'.inserts)
        BY <2>1, <2>3, <2>4 DEF RecallParts, SameContents, SameLog
    <2> QED BY <2>1, <2>2, <2>5, RecallIs DEF SameContents
<1>6. CASE SameLog /\ SameContents /\ told' = told
    <2>1. Entry' = Entry /\ Flushed' = Flushed
        BY <1>6, SameEntries
    <2>2. RecallParts(disk'.catalog.entry.there, disk'.catalog.flushed.there, Entry', Flushed', disk'.log,
                       told'.configs, told'.inserts)
        BY <1>0, <1>6, <2>1, RecallIs DEF SameContents, SameLog
    <2>3. CASE disk.catalog.entry.there /\ disk.catalog.flushed.there
        BY <1>6, <2>2, <2>3, RecallIs DEF SameContents
    <2>4. CASE SameDirs
        <3>1. Fresh => Fresh'
            BY <1>6, <2>4 DEF Fresh, SameLog, SameDirs
        <3> QED BY <1>0, <1>6, <2>2, <3>1, RecallIs DEF SameContents
    <2>5. CASE ~SameDirs
        <3>1. CreateStores \/ CreateEntry \/ WriteCatalog \/ SaveStores \/ MakeMissing \/ Kill
            BY <2>5, WhatMoves
        <3>2. CASE CreateStores \/ CreateEntry \/ SaveStores
            <4>1. job.kind \in {"apply", "checkpoint"}
                BY <3>2 DEF CreateStores, CreateEntry, SaveStores, Applying
            <4> QED BY <4>1, <2>3, Phases, BothThere
        <3>3. CASE MakeMissing
            <4>1. job.kind = "register" /\ job.step > 5
                BY <1>0, <3>3, MakeMissingDoes
            <4>2. job.step = 6
                BY <4>1 DEF Inv, JobInv
            <4> QED BY <4>1, <4>2, <2>3, BothThere
        <3> QED BY <1>3, <1>4, <3>1, <3>2, <3>3
    <2> QED BY <2>4, <2>5
<1> QED BY <1>1, <1>2, <1>3, <1>4, <1>5, <1>6, WhatMoves

-----------------------------------------------------------------------------
(* The directories.                                                        *)
LEMMA OnDiskFields ==
    ASSUME NEW s, NEW k
    PROVE  OnDisk(s, k).store = s /\ OnDisk(s, k).kept = k
BY DEF OnDisk

Unkept(store) == OnDisk(store, FALSE)
LEMMA UnkeptFields ==
    ASSUME NEW s
    PROVE  Unkept(s).store = s /\ Unkept(s).kept = FALSE
BY OnDiskFields DEF Unkept

LEMMA EmptyFields ==
    ASSUME NEW shape
    PROVE  Empty(shape).shape = shape /\ Empty(shape).lsn = 0 /\ Empty(shape).rows = {}
           /\ (shape \in Shapes => IsStore(Empty(shape)))
BY DEF Empty, IsStore

OpensTo(dirs, configs, new) ==
    /\ DOMAIN new = DOMAIN dirs \cup Ids(configs)
    /\ \A id \in DOMAIN dirs : new[id] = dirs[id]
    /\ \A id \in Ids(configs) \ DOMAIN dirs :
          \E c \in configs : c.id = id /\ new[id] = Unkept(Empty(c.shape))

LEMMA OpenedAre ==
    ASSUME NEW dirs, NEW configs, NEW new, new = Opened(dirs, configs)
    PROVE  OpensTo(dirs, configs, new)
<1>1. ASSUME NEW id \in Ids(configs) \ DOMAIN dirs
      PROVE  \E c \in configs : c.id = id /\ new[id] = Unkept(Empty(c.shape))
    <2>1. PICK c \in configs : c.id = id
        BY DEF Ids
    <2>2. PICK d : d = CHOOSE x \in configs : x.id = id
        OBVIOUS
    <2>3. d \in configs /\ d.id = id
        BY <2>1, <2>2
    <2>4. new[id] = Unkept(Empty(d.shape))
        BY <2>2 DEF Opened, Unkept
    <2> QED BY <2>3, <2>4
<1> QED BY <1>1 DEF Opened, OpensTo

LEMMA AllAreThere ==
    ASSUME OpenStoresOpens
    PROVE  OpensTo(disk.dirs, mem.registry, disk'.dirs)
BY DEF OpenStoresOpens, OpensTo, Ids

\* The stores that are there to be found later are those there before.
Carried(dirs, new) ==
    /\ \A id \in DOMAIN new :
          \/ id \in DOMAIN dirs /\ new[id].store = dirs[id].store
          \/ new[id].store.lsn = 0
    /\ \A id \in DOMAIN dirs : dirs[id].kept =>
          id \in DOMAIN new /\ new[id].store = dirs[id].store /\ new[id].kept

LEMMA HeldIsCarried ==
    ASSUME NEW i, NEW log, NEW more, log \subseteq more, NEW dirs, NEW new, Carried(dirs, new),
           HeldOK(i, log, dirs)
    PROVE  HeldOK(i, more, new)
BY DEF HeldOK, Carried

LEMMA OpenedIsCarried ==
    ASSUME NEW dirs, \A id \in DOMAIN dirs : IsDir(dirs[id]), NEW configs,
           \A c \in configs : c.shape \in Shapes, NEW new, new = Opened(dirs, configs)
    PROVE  Carried(dirs, new) /\ \A id \in DOMAIN new : IsDir(new[id])
<1>1. OpensTo(dirs, configs, new)
    BY OpenedAre
<1>2. ASSUME NEW id \in DOMAIN new, id \notin DOMAIN dirs
      PROVE  new[id].store.lsn = 0 /\ IsDir(new[id])
    <2>1. PICK c \in configs : new[id] = Unkept(Empty(c.shape))
        BY <1>1, <1>2 DEF OpensTo
    <2>2. PICK s, d : s = Empty(c.shape) /\ d = new[id]
        OBVIOUS
    <2>3. d = Unkept(s)
        BY <2>1, <2>2
    <2>4. d.store = s /\ d.kept = FALSE
        BY <2>3, UnkeptFields
    <2>5. s.lsn = 0 /\ IsStore(s)
        BY <2>2, EmptyFields
    <2>6. IsDir(d)
        BY <2>3, <2>4, <2>5 DEF IsDir, Unkept
    <2> QED BY <2>2, <2>4, <2>5, <2>6
<1> QED BY <1>1, <1>2 DEF Carried, OpensTo

LEMMA KeptIsCarried ==
    ASSUME NEW dirs, \A id \in DOMAIN dirs : IsDir(dirs[id]), NEW new, new = Kept(dirs)
    PROVE  /\ Carried(dirs, new) /\ DOMAIN new = DOMAIN dirs
           /\ \A id \in DOMAIN dirs : IsDir(new[id]) /\ new[id].kept = TRUE /\ new[id].store = dirs[id].store
<1>1. DOMAIN new = DOMAIN dirs /\ \A id \in DOMAIN dirs : new[id] = OnDisk(dirs[id].store, TRUE)
    BY KeptAre
<1>2. ASSUME NEW id \in DOMAIN dirs
      PROVE  IsDir(new[id]) /\ new[id].kept = TRUE /\ new[id].store = dirs[id].store
    <2>1. PICK d, s, yes : d = new[id] /\ s = dirs[id].store /\ yes = TRUE
        OBVIOUS
    <2>2. d = OnDisk(s, yes)
        BY <1>1, <2>1
    <2>3. d.store = s /\ d.kept = yes
        BY <2>2, OnDiskFields
    <2>4. IsStore(s)
        BY <2>1 DEF IsDir
    <2>5. IsDir(d)
        BY <2>1, <2>2, <2>3, <2>4 DEF IsDir
    <2> QED BY <2>1, <2>3, <2>5
<1> QED BY <1>1, <1>2 DEF Carried

LEMMA LeftIsCarried ==
    ASSUME NEW dirs, \A id \in DOMAIN dirs : IsDir(dirs[id]), NEW new, Left(dirs, new)
    PROVE  /\ Carried(dirs, new)
           /\ \A id \in DOMAIN new : IsDir(new[id]) /\ new[id].store = dirs[id].store
                                     /\ (dirs[id].kept => new[id].kept)
<1>1. ASSUME NEW id \in DOMAIN new
      PROVE  IsDir(new[id]) /\ new[id].store = dirs[id].store /\ (dirs[id].kept => new[id].kept)
    <2>1. PICK d, s, yes : d = new[id] /\ s = dirs[id].store /\ yes = TRUE
        OBVIOUS
    <2>2. d = OnDisk(s, yes) \/ d = dirs[id]
        BY <2>1 DEF Left
    <2>3. IsStore(s) /\ IsDir(dirs[id])
        BY <2>1 DEF IsDir, Left
    <2>4. CASE d = OnDisk(s, yes)
        <3>1. d.store = s /\ d.kept = yes
            BY <2>4, OnDiskFields
        <3>2. IsDir(d)
            BY <2>1, <2>4, <3>1, <2>3 DEF IsDir
        <3> QED BY <2>1, <3>1, <3>2
    <2>5. CASE d = dirs[id]
        BY <2>1, <2>3, <2>5
    <2> QED BY <2>2, <2>4, <2>5
<1> QED BY <1>1 DEF Carried, Left

\* What a checkpoint changes.
LEMMA SavedIs ==
    ASSUME Inv, SaveStores
    PROVE  \E id \in job.left :
              /\ job.kind = "checkpoint" /\ id \in DOMAIN mem.stores /\ id \in DOMAIN disk.dirs
              /\ DOMAIN disk'.dirs = DOMAIN disk.dirs
              /\ disk'.dirs[id].store = mem.stores[id] /\ disk'.dirs[id].kept = disk.dirs[id].kept
              /\ IsDir(disk'.dirs[id]) /\ SavingDoes(job.left \ {id})
              /\ \A k \in DOMAIN disk.dirs : k # id => disk'.dirs[k] = disk.dirs[k]
<1>1. PICK id \in job.left : job.kind = "checkpoint" /\ SavingDoes(job.left \ {id})
            /\ disk'.dirs = [disk.dirs EXCEPT ![id].store = mem.stores[id]]
    BY SaveStoresDoes DEF Inv
<1>2. id \in DOMAIN mem.stores /\ id \in DOMAIN disk.dirs /\ IsDir(disk.dirs[id])
    BY <1>1, Phases, StoresAre DEF Inv, CheckpointInv, MemInv
<1>3. PICK d, s : d = disk.dirs[id] /\ s = mem.stores[id]
    OBVIOUS
<1>4. d = [store |-> d.store, kept |-> d.kept] /\ d.kept \in BOOLEAN
    BY <1>2, <1>3 DEF IsDir, OnDisk
<1>5. [d EXCEPT !.store = s] = [store |-> s, kept |-> d.kept]
    BY <1>4
<1>6. disk'.dirs[id] = OnDisk(s, d.kept)
    BY <1>1, <1>2, <1>3, <1>5 DEF OnDisk
<1>7. disk'.dirs[id].store = s /\ disk'.dirs[id].kept = d.kept
    BY <1>6, OnDiskFields
<1>8. IsStore(s)
    BY <1>1, <1>2, <1>3, Phases DEF Inv, MemInv
<1>9. IsDir(disk'.dirs[id])
    BY <1>3, <1>4, <1>6, <1>7, <1>8 DEF IsDir
<1> QED BY <1>1, <1>2, <1>3, <1>7, <1>9
\* What the actions do to the directories.
LEMMA DirsMove ==
    ASSUME Inv, OneKindOfFailure, Works
    PROVE  /\ \A id \in DOMAIN disk'.dirs : IsDir(disk'.dirs[id])
           /\ Carried(disk.dirs, disk'.dirs) \/ SaveStores
<1>0. TypeInv /\ \A id \in DOMAIN disk.dirs : IsDir(disk.dirs[id])
    BY StoresAre DEF Inv
<1>1. CASE SameDirs
    BY <1>0, <1>1 DEF SameDirs, Carried
<1>2. CASE CreateStores
    <2>1. CASE CreateStoresMisses
        BY <1>0, <1>1, <2>1 DEF CreateStoresMisses, SameDirs
    <2>2. CASE CreateStoresMakes
        <3>1. disk'.dirs = Opened(disk.dirs, {job.frame.config}) /\ job.kind = "apply"
            BY <2>2 DEF CreateStoresMakes, Creating
        <3>2. job.frame.config.shape \in Shapes
            BY <3>1 DEF Inv, ApplyInv, LogInv, LogOK, IsFrame, IsConfig
        <3>3. \A c \in {job.frame.config} : c.shape \in Shapes
            BY <3>2
        <3> QED BY <1>0, <3>1, <3>3, OpenedIsCarried
    <2> QED BY <1>0, <1>2, <2>1, <2>2, CreateStoresDoes
<1>3. CASE CreateEntry
    <2>1. disk'.dirs = Kept(disk.dirs)
        BY <1>0, <1>3, CreateEntryDoes
    <2> QED BY <1>0, <2>1, KeptIsCarried
<1>4. CASE WriteCatalog
    <2>1. SameDirs \/ disk'.dirs = Kept(disk.dirs)
        BY <1>0, <1>4, WriteCatalogDoes, StoresAre
    <2> QED BY <1>0, <1>1, <2>1, KeptIsCarried
<1>5. CASE SaveStores
    BY <1>0, <1>5, SavedIs
<1>6. CASE MakeMissing
    <2>1. CASE MissingMisses
        BY <1>0, <1>1, <2>1 DEF MissingMisses, SameDirs
    <2>2. ASSUME NEW c \in mem.registry, MissingMakes(c)
          PROVE  /\ \A id \in DOMAIN disk'.dirs : IsDir(disk'.dirs[id])
                 /\ Carried(disk.dirs, disk'.dirs)
        <3>1. disk'.dirs = Opened(disk.dirs, {c})
            BY <2>2 DEF MissingMakes
        <3>2. \A d \in {c} : d.shape \in Shapes
            BY <1>0, <1>6, MakeMissingDoes DEF Inv, RegisterInv, IsConfigs, IsConfig
        <3> QED BY <1>0, <3>1, <3>2, OpenedIsCarried
    <2> QED BY <1>0, <1>6, <2>1, <2>2, MakeMissingDoes
<1>7. CASE Kill
    BY <1>0, <1>7, KillDoes, StoresAre, LeftIsCarried DEF OneKindOfFailure
<1> QED BY <1>1, <1>2, <1>3, <1>4, <1>5, <1>6, <1>7, WhatMoves


LEMMA DirStep ==
    ASSUME Inv, OneKindOfFailure, Works
    PROVE  DirInv'
<1>0. TypeInv /\ DirInv /\ JobInv
    BY DEF Inv
<1>1. SUFFICES ASSUME NEW i \in told'.inserts
               PROVE  HeldOK(i, disk'.log, disk'.dirs)
    BY DirsMove DEF DirInv
<1>2. CASE ApplyInsert
    <2>0. job.kind = "apply" /\ job.frame.kind = "insert"
        BY <1>2 DEF ApplyInsert, Applying
    <2>1. disk' = disk
        BY <1>0, <1>2, <2>0, ApplyInsertDoes, StoresAre DEF ApplyInsertMisses, ApplyInsertWrites
    <2>2. CASE i \in told.inserts
        BY <1>0, <2>1, <2>2 DEF DirInv
    <2>3. CASE i \notin told.inserts
        <3>1. ApplyInsertWrites
            BY <1>0, <1>2, <2>0, <2>3, ApplyInsertDoes, StoresAre, BrokenDoes DEF ApplyInsertMisses
        <3>2. job.from # "none" /\ i = [config |-> job.frame.config, lsn |-> job.frame.lsn]
            BY <2>3, <3>1 DEF ApplyInsertWrites
        <3>3. i.config = job.frame.config /\ i.lsn = job.frame.lsn
            BY <3>2
        <3>4. phase # "opening"
            BY <1>0, <3>2 DEF JobInv
        <3>5. job.frame \in disk.log /\ IsFrame(job.frame)
              /\ \A id \in DOMAIN mem.stores : mem.stores[id].lsn < job.frame.lsn
            BY <2>0, <3>4 DEF Inv, ApplyInv, LogInv, LogOK
        <3>6. i.config.id \in DOMAIN mem.stores
            BY <3>1, <3>3 DEF ApplyInsertWrites
        <3>7. disk.dirs[i.config.id].store.lsn <= mem.stores[i.config.id].lsn
              /\ IsStore(mem.stores[i.config.id]) /\ i.config.id \in DOMAIN disk.dirs
            BY <2>0, <3>6, Phases DEF Inv, MemInv
        <3>8. IsStore(disk.dirs[i.config.id].store)
            BY <3>7, StoresAre DEF IsDir
        <3>9. ~(i.lsn <= disk.dirs[i.config.id].store.lsn)
            BY <3>3, <3>5, <3>6, <3>7, <3>8 DEF IsStore, IsFrame
        <3>10. Frame("insert", i.config, i.lsn) \in disk.log
            BY <2>0, <3>3, <3>5 DEF IsFrame
        <3>11. i.lsn \in Nat \ {0}
            BY <3>3, <3>5 DEF IsFrame
        <3> QED BY <2>1, <3>9, <3>10, <3>11 DEF HeldOK
    <2> QED BY <2>2, <2>3
<1>3. CASE SaveStores
    <2>1. PICK id \in job.left :
              /\ job.kind = "checkpoint" /\ id \in DOMAIN mem.stores /\ id \in DOMAIN disk.dirs
              /\ DOMAIN disk'.dirs = DOMAIN disk.dirs
              /\ disk'.dirs[id].store = mem.stores[id] /\ disk'.dirs[id].kept = disk.dirs[id].kept
              /\ \A k \in DOMAIN disk.dirs : k # id => disk'.dirs[k] = disk.dirs[k]
        BY <1>3, SavedIs
    <2>2. disk'.log = disk.log /\ told' = told
        BY <1>0, <1>3, SaveStoresDoes DEF SameLog
    <2>3. HeldOK(i, disk.log, disk.dirs)
        BY <1>0, <2>2 DEF DirInv
    <2>4. CASE i.config.id # id
        BY <2>1, <2>2, <2>3, <2>4 DEF HeldOK
    <2>5. CASE i.config.id = id
        <3>1. Loaded /\ phase # "opening"
            BY <1>0, <2>1, Phases DEF JobInv
        <3>2. i.lsn \in mem.stores[id].rows
            BY <2>1, <2>2, <2>5, <3>1 DEF Inv, HomeInv
        <3> QED BY <2>1, <2>2, <2>3, <2>5, <3>2 DEF HeldOK
    <2> QED BY <2>4, <2>5
<1>4. CASE Truncate
    <2>1. /\ job.kind = "checkpoint" /\ job.step > 5 /\ told' = told /\ SameDirs
          /\ disk'.log = Above(disk.log, Min({mem.stores[id].lsn : id \in DOMAIN mem.stores}
                                                 \cup {Watermark(mem)}))
        BY <1>0, <1>4, TruncateDoes
    <2>2. Loaded /\ phase # "opening" /\ ~mem.poisoned /\ job.step = 6
        BY <1>0, <2>1, Phases DEF JobInv
    <2>3. i.config \in mem.registry
        BY <2>1, <2>2 DEF Inv, HomeInv, Awaited, ToCome, Doing
    <2>4. i.config.id \in DOMAIN mem.stores
        BY <2>2, <2>3 DEF Inv, MemInv, Ids
    <2>5. job.left = {} /\ \A id \in DOMAIN disk.dirs : disk.dirs[id].kept
        BY <2>1, <2>2 DEF Inv, CheckpointInv
    <2>6. disk.dirs[i.config.id].store = mem.stores[i.config.id] /\ disk.dirs[i.config.id].kept
          /\ i.config.id \in DOMAIN disk.dirs
        BY <2>1, <2>2, <2>4, <2>5 DEF Inv, CheckpointInv, MemInv
    <2>7. HeldOK(i, disk.log, disk.dirs)
        BY <1>0, <2>1 DEF DirInv
    <2>8. CASE i.lsn \in disk.dirs[i.config.id].store.rows
        BY <2>1, <2>6, <2>7, <2>8 DEF HeldOK, SameDirs
    <2>9. CASE i.lsn \notin disk.dirs[i.config.id].store.rows
        <3>1. /\ Frame("insert", i.config, i.lsn) \in disk.log /\ i.lsn \in Nat
              /\ ~(i.lsn <= disk.dirs[i.config.id].store.lsn)
            BY <2>6, <2>7, <2>9 DEF HeldOK
        <3> DEFINE lsns == {mem.stores[id].lsn : id \in DOMAIN mem.stores} \cup {Watermark(mem)}
        <3>2. Watermark(mem) = mem.last /\ mem.last \in Nat
            BY <2>2 DEF Inv, MemInv, Watermark
        <3>3. lsns \subseteq Nat /\ mem.stores[i.config.id].lsn \in lsns
            BY <2>2, <2>4, <3>2 DEF Inv, MemInv, IsStore
        <3> HIDE DEF lsns
        <3>4. Min(lsns) \in Nat /\ Min(lsns) <= mem.stores[i.config.id].lsn
            BY <3>3, MinIsLeast
        <3>5. i.lsn > Min(lsns)
            <4>1. PICK m, u, l : m = Min(lsns) /\ u = mem.stores[i.config.id].lsn /\ l = i.lsn
                OBVIOUS
            <4>2. u \in Nat /\ m \in Nat /\ m <= u /\ l \in Nat
                BY <3>1, <3>3, <3>4, <4>1
            <4>3. ~(l <= u)
                BY <2>6, <3>1, <4>1
            <4> QED BY <4>1, <4>2, <4>3
        <3>6. Frame("insert", i.config, i.lsn).lsn = i.lsn
            BY FrameFields
        <3>7. Frame("insert", i.config, i.lsn) \in disk'.log
            BY <2>1, <3>1, <3>5, <3>6 DEF Above, lsns
        <3> QED BY <2>1, <2>7, <3>7 DEF HeldOK, SameDirs
    <2> QED BY <2>8, <2>9
<1>5. CASE told'.inserts \subseteq told.inserts /\ disk.log \subseteq disk'.log /\ Carried(disk.dirs, disk'.dirs)
    BY <1>0, <1>5, HeldIsCarried DEF DirInv
<1>6. ~ApplyInsert => told'.inserts \subseteq told.inserts
    BY <1>0, WhatMoves, CreateAgainDoes, PublishDoes, ReadyDoes
<1>7. ~Truncate => disk.log \subseteq disk'.log
    BY <1>0, WhatMoves, LogFrameDoes, LogFailsDoes DEF SameLog
<1> QED BY <1>2, <1>3, <1>4, <1>5, <1>6, <1>7, DirsMove

-----------------------------------------------------------------------------
(* What is known.                                                          *)
LEMMA KnownAre ==
    ASSUME NEW configs, NEW log, NEW k
    PROVE  k \in Known(configs, log) <=> k \in configs \/ \E f \in log : f.kind = "create" /\ f.config = k
BY DEF Known

LEMMA KnownGrows ==
    ASSUME NEW known, NEW dirs, KnownIn(known, dirs), NEW c,
           \A k \in known : k.id # c.id /\ k.name # c.name
    PROVE  KnownIn(known \cup {c}, dirs)
<1>1. Distinct(known \cup {c})
    BY DEF KnownIn, Distinct
<1>2. DOMAIN dirs \subseteq Ids(known) /\ c.id \notin Ids(known)
    BY DEF KnownIn, Ids
<1> QED BY <1>1, <1>2 DEF KnownIn, Ids

LEMMA KnownKeeps ==
    ASSUME NEW known, NEW dirs, KnownIn(known, dirs), NEW new, DOMAIN new \subseteq DOMAIN dirs,
           \A id \in DOMAIN new : new[id].store.shape = dirs[id].store.shape
    PROVE  KnownIn(known, new)
BY DEF KnownIn

LEMMA KnownOpens ==
    ASSUME NEW known, NEW dirs, KnownIn(known, dirs), NEW configs, configs \subseteq known,
           NEW new, OpensTo(dirs, configs, new)
    PROVE  KnownIn(known, new)
<1>1. DOMAIN new \subseteq Ids(known)
    BY DEF OpensTo, KnownIn, Ids
<1>2. ASSUME NEW c \in known, c.id \in DOMAIN new PROVE new[c.id].store.shape = c.shape
    <2>1. CASE c.id \in DOMAIN dirs
        BY <2>1 DEF OpensTo, KnownIn
    <2>2. CASE c.id \notin DOMAIN dirs
        <3>1. PICK d \in configs : d.id = c.id /\ new[c.id] = Unkept(Empty(d.shape))
            BY <1>2, <2>2 DEF OpensTo
        <3>2. d = c
            BY <3>1 DEF KnownIn, Distinct
        <3>3. new[c.id].store = Empty(c.shape)
            BY <3>1, <3>2, UnkeptFields
        <3> QED BY <3>3, EmptyFields
    <2> QED BY <2>1, <2>2
<1> QED BY <1>1, <1>2 DEF KnownIn

\* When the Db is up and nothing is being created, what is known is what is
\* registered.
LEMMA KnownIsRegistered ==
    ASSUME Inv, NoFlush, Loaded, phase # "opening", ~mem.poisoned, job.kind # "apply"
    PROVE  Known(Entry.configs, disk.log) = mem.registry /\ Entry.configs = mem.registry
<1>1. Entry.configs = mem.registry
    BY DEF Inv, MemInv, Creating
<1>2. \A f \in disk.log : f.kind = "create" => f.config \in mem.registry
    BY DEF Inv, HomeInv, Awaited, ToCome, Doing
<1>3. \A k : k \in Known(Entry.configs, disk.log) <=> k \in mem.registry
    BY <1>1, <1>2, KnownAre
<1>4. Known(Entry.configs, disk.log) = mem.registry
    BY <1>3 DEF Known
<1> QED BY <1>1, <1>4

\* Writing the catalog adds nothing to what is known.
LEMMA KnownWritten ==
    ASSUME Inv, NoFlush, OneKindOfFailure, WriteCatalog
    PROVE  KnownInv'
<1>0. TypeInv /\ KnownIn(Known(Entry.configs, disk.log), disk.dirs)
    BY DEF Inv, KnownInv
<1>1. /\ SameLog /\ (job.step # 5 => SameDirs) /\ (job.step = 5 => disk'.dirs = Kept(disk.dirs))
      /\ job.step \in 1 .. 5
    BY <1>0, WriteCatalogDoes, StoresAre
<1>2. CASE job.step \notin {4, 5}
    BY <1>0, <1>1, <1>2, WriteEntries DEF KnownInv, SameLog, SameDirs
<1>3. CASE job.step = 5
    <2>1. KnownIn(Known(Entry.configs, disk.log), disk'.dirs)
        <3>1. PICK dirs, new : dirs = disk.dirs /\ new = disk'.dirs
            OBVIOUS
        <3>2. new = Kept(dirs) /\ \A id \in DOMAIN dirs : IsDir(dirs[id])
            BY <1>1, <1>3, <3>1, StoresAre
        <3>3. DOMAIN new = DOMAIN dirs /\ \A id \in DOMAIN dirs : new[id].store = dirs[id].store
            BY <3>2, KeptIsCarried
        <3> QED BY <1>0, <3>1, <3>3, KnownKeeps
    <2> QED BY <1>1, <1>3, <2>1, WriteEntries DEF KnownInv, SameLog
<1>4. CASE job.step = 4
    <2>1. PICK configs : Writing(configs) /\ Entry'.configs = configs
        BY <1>4, WriteEntries
    <2>2. disk'.log = disk.log /\ disk'.dirs = disk.dirs
        BY <1>1, <1>4 DEF SameLog, SameDirs
    <2>3. CASE job.kind = "register"
        <3>1. configs = mem.registry /\ Distinct(mem.registry) /\ disk.log = {} /\ DOMAIN disk.dirs = {}
            BY <1>4, <2>1, <2>3 DEF Inv, RegisterInv, Fresh, Writing
        <3>0. \A k : k \in Known(configs, disk.log) <=> k \in mem.registry
            BY <3>1, KnownAre
        <3>2. Known(configs, disk.log) = mem.registry
            BY <3>0 DEF Known
        <3>3. KnownIn(mem.registry, disk.dirs)
            BY <3>1 DEF KnownIn
        <3> QED BY <2>1, <2>2, <3>2, <3>3 DEF KnownInv
    <2>4. CASE job.kind # "register"
        <3>1. Loaded /\ ~mem.poisoned
            BY <1>4, <2>4, Phases, IdleFields DEF Inv, JobInv
        <3>2. /\ mem.registry \subseteq Entry.configs
              /\ \A c \in Entry.configs : c \in mem.registry \/ (Creating /\ c = job.frame.config)
            BY <3>1 DEF Inv, MemInv
        <3>3. \/ job.kind # "apply" /\ configs = mem.registry
              \/ configs = mem.registry \cup {job.frame.config} /\ job.frame \in disk.log /\ Creating
            BY <2>1 DEF Writing
        <3>4. \A k : k \in Known(configs, disk.log) <=> k \in Known(Entry.configs, disk.log)
            BY <3>2, <3>3, KnownAre DEF Creating
        <3>5. Known(configs, disk.log) = Known(Entry.configs, disk.log)
            BY <3>4 DEF Known
        <3> QED BY <1>0, <2>1, <2>2, <3>5 DEF KnownInv
    <2> QED BY <2>3, <2>4
<1> QED BY <1>2, <1>3, <1>4

LEMMA KnownKilled ==
    ASSUME Inv, NoFlush, OneKindOfFailure, Kill
    PROVE  KnownInv'
<1>0. TypeInv /\ RecallInv /\ KnownIn(Known(Entry.configs, disk.log), disk.dirs)
    BY DEF Inv, KnownInv
<1>1. disk'.log = disk.log /\ Left(disk.dirs, disk'.dirs)
    BY <1>0, KillDoes, StoresAre DEF OneKindOfFailure, SameLog
<1>2. KnownIn(Known(Entry.configs, disk.log), disk'.dirs)
    <2>1. PICK dirs, new : dirs = disk.dirs /\ new = disk'.dirs
        OBVIOUS
    <2>2. Left(dirs, new) /\ \A id \in DOMAIN dirs : IsDir(dirs[id])
        BY <1>1, <2>1, StoresAre
    <2>3. DOMAIN new \subseteq DOMAIN dirs /\ \A id \in DOMAIN new : new[id].store = dirs[id].store
        BY <2>2, LeftIsCarried DEF Left
    <2> QED BY <1>0, <2>1, <2>3, KnownKeeps
<1>3. CASE Entry' = Entry
    BY <1>1, <1>2, <1>3 DEF KnownInv
<1>4. CASE Entry' = Flushed
    <2>1. \A k : k \in Known(Flushed.configs, disk.log) => k \in Known(Entry.configs, disk.log)
        BY <1>0, KnownAre DEF RecallInv
    <2>2. CASE disk.catalog.flushed.there
        <3>1. \A k \in Entry.configs : Finds(disk.log, Flushed, k)
            BY <1>0, <2>2 DEF RecallInv, RecallOK
        <3>2. \A k \in Entry.configs : k \in Known(Flushed.configs, disk.log)
            BY <3>1, KnownAre DEF Finds, Coming
        <3>3. \A k : k \in Known(Entry.configs, disk.log) => k \in Known(Flushed.configs, disk.log)
            BY <3>2, KnownAre
        <3>4. Known(Flushed.configs, disk.log) = Known(Entry.configs, disk.log)
            BY <2>1, <3>3 DEF Known
        <3> QED BY <1>1, <1>2, <1>4, <3>4 DEF KnownInv
    <2>3. CASE ~disk.catalog.flushed.there
        <3>1. DOMAIN disk.dirs = {}
            BY <1>0, <2>3 DEF RecallInv, Fresh
        <3>2. DOMAIN disk'.dirs = {}
            BY <1>1, <3>1 DEF Left
        <3>3. Distinct(Known(Flushed.configs, disk.log))
            BY <1>0, <2>1 DEF KnownIn, Distinct
        <3>4. KnownIn(Known(Flushed.configs, disk.log), disk'.dirs)
            BY <3>2, <3>3 DEF KnownIn
        <3> QED BY <1>1, <1>4, <3>4 DEF KnownInv
    <2> QED BY <2>2, <2>3
<1> QED BY <1>3, <1>4, KillEntries

LEMMA KnownStep ==
    ASSUME Inv, OneKindOfFailure, Works
    PROVE  KnownInv'
<1> SUFFICES ASSUME NoFlush PROVE KnownInv'
    BY DEF KnownInv
<1>0. TypeInv /\ JobInv /\ KnownIn(Known(Entry.configs, disk.log), disk.dirs)
      /\ \A id \in DOMAIN disk.dirs : IsDir(disk.dirs[id])
    BY StoresAre DEF Inv, KnownInv
<1>1. CASE WriteCatalog
    BY <1>1, KnownWritten
<1>2. CASE Kill
    BY <1>2, KnownKilled
<1>3. ~WriteCatalog /\ ~Kill => Entry' = Entry
    BY WhatMoves, SameEntries
<1>4. CASE LogFrame
    <2>1. /\ phase \in {"up", "closing"} /\ queue # <<>> /\ job = Idle /\ ~mem.poisoned
          /\ Asked.kind \in {"create", "insert"} /\ SameCatalog /\ disk'.dirs = disk.dirs
          /\ disk'.log = disk.log \cup {NewFrame}
        BY <1>0, <1>4, LogFrameDoes DEF SameDirs
    <2>2. NewFrame.kind = Asked.kind /\ NewFrame.config = Asked.config
        BY <2>1, NewFrameIs
    <2>3. Entry' = Entry
        BY <2>1, SameEntries DEF SameCatalog, SameContents
    <2>4. CASE Asked.kind = "insert"
        <3>1. \A k : k \in Known(Entry.configs, disk'.log) <=> k \in Known(Entry.configs, disk.log)
            BY <2>1, <2>2, <2>4, KnownAre
        <3>2. Known(Entry.configs, disk'.log) = Known(Entry.configs, disk.log)
            BY <3>1 DEF Known
        <3> QED BY <1>0, <2>1, <2>3, <3>2 DEF KnownInv
    <2>5. CASE Asked.kind = "create"
        <3>1. Loaded /\ ~Taken(Asked.config)
            BY <2>1, <2>5, AskedIs
        <3>2. Known(Entry.configs, disk.log) = mem.registry
            BY <2>1, <3>1, KnownIsRegistered, IdleFields
        <3>3. \A k \in mem.registry : k.id # Asked.config.id /\ k.name # Asked.config.name
            BY <3>1 DEF Inv, MemInv, Taken, Ids, Called
        <3>4. \A k : k \in Known(Entry.configs, disk'.log)
                     <=> k \in Known(Entry.configs, disk.log) \cup {Asked.config}
            BY <2>1, <2>2, <2>5, KnownAre
        <3>5. Known(Entry.configs, disk'.log) = Known(Entry.configs, disk.log) \cup {Asked.config}
            BY <3>4 DEF Known
        <3>6. KnownIn(Known(Entry.configs, disk'.log), disk.dirs)
            BY <1>0, <3>2, <3>3, <3>5, KnownGrows
        <3> QED BY <2>1, <2>3, <3>6 DEF KnownInv
    <2> QED BY <2>1, <2>4, <2>5
<1>5. CASE Truncate
    <2>1. job.kind = "checkpoint" /\ disk'.log \subseteq disk.log /\ disk'.dirs = disk.dirs /\ SameCatalog
        BY <1>0, <1>5, TruncateDoes DEF Above, SameDirs
    <2>2. Loaded /\ phase # "opening" /\ ~mem.poisoned
        BY <1>0, <2>1, Phases DEF JobInv
    <2>3. Known(Entry.configs, disk.log) = mem.registry /\ Entry.configs = mem.registry
        BY <2>1, <2>2, KnownIsRegistered
    <2>4. \A k : k \in Known(Entry.configs, disk'.log) <=> k \in Known(Entry.configs, disk.log)
        BY <2>1, <2>3, KnownAre
    <2>5. Known(Entry.configs, disk'.log) = Known(Entry.configs, disk.log)
        BY <2>4 DEF Known
    <2>6. Entry' = Entry
        BY <2>1, SameEntries DEF SameCatalog, SameContents
    <2> QED BY <1>0, <2>1, <2>5, <2>6 DEF KnownInv
<1>6. CASE CreateStores
    <2>1. CASE CreateStoresMisses
        <3>1. disk' = disk
            BY <2>1 DEF CreateStoresMisses
        <3> QED BY <1>0, <3>1 DEF KnownInv, Entry
    <2>2. CASE CreateStoresMakes
        <3>1. /\ disk'.dirs = Opened(disk.dirs, {job.frame.config}) /\ Creating
              /\ SameCatalog /\ disk'.log = disk.log
            BY <2>2 DEF CreateStoresMakes, SameLog
        <3>2. Entry' = Entry
            BY <3>1, SameEntries DEF SameCatalog, SameContents
        <3>3. job.frame \in disk.log
            BY <3>1 DEF Inv, ApplyInv, Creating
        <3>4. {job.frame.config} \subseteq Known(Entry.configs, disk.log)
            BY <3>1, <3>3, KnownAre DEF Creating
        <3>5. OpensTo(disk.dirs, {job.frame.config}, disk'.dirs)
            BY <3>1, OpenedAre
        <3>6. KnownIn(Known(Entry.configs, disk.log), disk'.dirs)
            BY <1>0, <3>4, <3>5, KnownOpens
        <3> QED BY <3>1, <3>2, <3>6 DEF KnownInv
    <2> QED BY <1>0, <1>6, <2>1, <2>2, CreateStoresDoes
<1>7. CASE MakeMissing
    <2>1. CASE MissingMisses
        <3>1. disk' = disk
            BY <2>1 DEF MissingMisses
        <3> QED BY <1>0, <3>1 DEF KnownInv, Entry
    <2>2. ASSUME NEW c \in mem.registry, MissingMakes(c) PROVE KnownInv'
        <3>1. disk'.dirs = Opened(disk.dirs, {c}) /\ SameCatalog /\ disk'.log = disk.log
            BY <2>2 DEF MissingMakes, SameLog
        <3>2. Entry' = Entry
            BY <3>1, SameEntries DEF SameCatalog, SameContents
        <3>3. Entry.configs = mem.registry
            BY <1>0, <1>7, MakeMissingDoes DEF Inv, RegisterInv, JobInv
        <3>4. {c} \subseteq Known(Entry.configs, disk.log)
            BY <3>3, KnownAre
        <3>5. OpensTo(disk.dirs, {c}, disk'.dirs)
            BY <3>1, OpenedAre
        <3>6. KnownIn(Known(Entry.configs, disk.log), disk'.dirs)
            BY <1>0, <3>4, <3>5, KnownOpens
        <3> QED BY <3>1, <3>2, <3>6 DEF KnownInv
    <2> QED BY <1>0, <1>7, <2>1, <2>2, MakeMissingDoes
<1>8. CASE CreateEntry
    <2>1. disk'.dirs = Kept(disk.dirs) /\ SameCatalog /\ disk'.log = disk.log
        BY <1>0, <1>8, CreateEntryDoes DEF SameLog
    <2>2. Entry' = Entry
        BY <2>1, SameEntries DEF SameCatalog, SameContents
    <2>3. PICK dirs, new : dirs = disk.dirs /\ new = disk'.dirs
        OBVIOUS
    <2>6. new = Kept(dirs) /\ \A id \in DOMAIN dirs : IsDir(dirs[id])
        BY <1>0, <2>1, <2>3
    <2>4. DOMAIN new = DOMAIN dirs /\ \A id \in DOMAIN dirs : new[id].store = dirs[id].store
        BY <2>6, KeptIsCarried
    <2>5. KnownIn(Known(Entry.configs, disk.log), disk'.dirs)
        BY <1>0, <2>3, <2>4, KnownKeeps
    <2> QED BY <2>1, <2>2, <2>5 DEF KnownInv
<1>9. CASE SaveStores
    <2>1. PICK id \in job.left :
              /\ job.kind = "checkpoint" /\ id \in DOMAIN mem.stores /\ id \in DOMAIN disk.dirs
              /\ DOMAIN disk'.dirs = DOMAIN disk.dirs /\ disk'.dirs[id].store = mem.stores[id]
              /\ \A k \in DOMAIN disk.dirs : k # id => disk'.dirs[k] = disk.dirs[k]
        BY <1>9, SavedIs
    <2>2. disk.dirs[id].store.shape = mem.stores[id].shape
        BY <2>1, Phases DEF Inv, MemInv
    <2>3. KnownIn(Known(Entry.configs, disk.log), disk'.dirs)
        BY <1>0, <2>1, <2>2, KnownKeeps
    <2>4. SameCatalog /\ disk'.log = disk.log
        BY <1>0, <1>9, SaveStoresDoes DEF SameLog
    <2>5. Entry' = Entry
        BY <2>4, SameEntries DEF SameCatalog, SameContents
    <2> QED BY <2>3, <2>4, <2>5 DEF KnownInv
<1>10. CASE LogFails
    BY <1>0, <1>10, LogFailsDoes DEF NoFlush
<1>11. CASE SameLog /\ SameDirs /\ Entry' = Entry
    BY <1>0, <1>11 DEF KnownInv, SameLog, SameDirs
<1> QED
    BY <1>1, <1>2, <1>3, <1>4, <1>5, <1>6, <1>7, <1>8, <1>9, <1>10, <1>11, WhatMoves

-----------------------------------------------------------------------------
(* What is in memory.                                                      *)
\* An apply or a checkpoint that fails, once the Db is open.
Fails ==
    /\ phase # "opening" /\ phase' = phase /\ job' = Idle /\ told' = told /\ queue' = queue
    /\ job.kind # "none" /\ job.kind # "register"
    /\ SameStores /\ UNCHANGED <<mem.last, mem.next, mem.read>>
    /\ job.kind = "apply" => mem'.poisoned = TRUE
    /\ job.kind # "apply" => mem' = mem
    /\ SameContents /\ SameDirs /\ SameLog

LEMMA BrokenFails ==
    ASSUME TypeInv, NEW how, how \notin {"up", "closing", "opening"}, Broken(how), Loaded',
           job.kind # "none", job.kind = "register" => phase = "opening",
           SameContents, SameDirs, SameLog
    PROVE  Fails
<1>1. phase # "opening"
    BY BrokenDoes DEF Loaded
<1> QED BY <1>1, BrokenDoes DEF Fails

Continues ==
    \/ LogFrame \/ LogFails \/ StartCheckpoint \/ (ApplyInsert /\ ApplyInsertWrites) \/ CreateAgain
    \/ (CreateStores /\ CreateStoresMakes) \/ CreateEntry \/ Publish \/ WriteCatalog \/ SaveStores
    \/ Truncate \/ Replay \/ Ready \/ Fails

LEMMA LoadedBefore ==
    ASSUME Inv, OneKindOfFailure, Works, Loaded'
    PROVE  (OpenStores /\ OpenStoresOpens) \/ (Loaded /\ Continues)
<1>0. TypeInv /\ JobInv /\ RegisterInv
    BY DEF Inv
<1>1. disk' = disk => SameContents /\ SameDirs /\ SameLog
    BY DEF SameContents, SameDirs, SameLog
<1>2. job.kind = "register" => phase = "opening"
    BY <1>0 DEF RegisterInv
<1>3. phase \in {"up", "closing"} \/ job.kind \in {"apply", "checkpoint"} \/ (job = Idle /\ phase = "opening") => Loaded
    BY Phases
<1>4. Fails => Loaded
    BY <1>0, <1>3, IdleFields DEF Fails, JobInv
<1>5. CASE ApplyInsert
    <2>1. job.kind = "apply"
        BY <1>5 DEF ApplyInsert, Applying
    <2>2. ApplyInsertMisses => Fails
        BY <1>0, <1>1, <1>2, <2>1, BrokenFails DEF ApplyInsertMisses
    <2> QED BY <1>0, <1>3, <1>4, <1>5, <2>1, <2>2, ApplyInsertDoes, StoresAre DEF Continues
<1>6. CASE CreateStores
    <2>1. job.kind = "apply"
        BY <1>6 DEF CreateStores, Applying
    <2>2. CreateStoresMisses => Fails
        BY <1>0, <1>1, <1>2, <2>1, BrokenFails DEF CreateStoresMisses
    <2> QED BY <1>0, <1>3, <1>6, <2>1, <2>2, CreateStoresDoes DEF Continues
<1>7. CASE StepFails
    <2>1. Fails
        BY <1>0, <1>2, <1>7, StepFailsDoes, BrokenFails DEF SameContents
    <2> QED BY <1>4, <2>1 DEF Continues
<1>8. CASE OpenStores
    BY <1>0, <1>8, OpenStoresDoes
<1>16. CASE MakeMissing
    <2>1. job.kind = "register" /\ phase = "opening"
        BY <1>0, <1>2, <1>16, MakeMissingDoes
    <2>2. MissingMisses => phase' = "refused"
        BY <1>0, <2>1, BrokenDoes DEF MissingMisses
    <2>3. \A c : MissingMakes(c) => phase' = phase /\ job' = job
        BY DEF MissingMakes
    <2> QED BY <1>0, <1>16, <2>1, <2>2, <2>3, MakeMissingDoes DEF Loaded
<1>9. CASE Start
    <2>1. phase' \notin {"up", "closing"}
        BY <1>0, <1>9, StartDoes, StoresAre DEF StartRefuses, StartFails, StartRegisters
    <2>2. phase' = "opening"
        BY <2>1 DEF Loaded
    <2>3. job'.kind = "register"
        <3>1. phase # "opening"
            BY <1>0, <1>9, StartDoes, StoresAre
        <3> QED BY <1>0, <1>9, <2>2, <3>1, StartDoes, StoresAre DEF StartRefuses, StartFails, StartRegisters
    <2> QED BY <2>1, <2>3 DEF Loaded
<1>10. CASE Shutdown \/ Kill
    <2>1. phase' = "down"
        BY <1>10 DEF Shutdown, Kill
    <2> QED BY <2>1 DEF Loaded
<1>11. CASE LogFrame \/ LogFails \/ StartCheckpoint
    BY <1>0, <1>3, <1>11, LogFrameDoes, LogFailsDoes, StartCheckpointDoes DEF Continues
<1>12. CASE CreateAgain \/ CreateEntry \/ Publish
    BY <1>0, <1>3, <1>12, CreateAgainDoes, CreateEntryDoes, PublishDoes DEF Continues, Creating
<1>13. CASE SaveStores \/ Truncate
    BY <1>0, <1>3, <1>13, SaveStoresDoes, TruncateDoes DEF Continues
<1>14. CASE Replay \/ Ready
    BY <1>0, <1>3, <1>14, ReplayDoes, ReadyDoes DEF Continues
<1>15. CASE WriteCatalog
    <2>1. phase' = phase /\ job'.kind = job.kind
        BY <1>0, <1>15, WriteCatalogDoes, StoresAre
    <2> QED BY <1>15, <2>1 DEF Loaded, Continues
<1> QED
    BY <1>5, <1>6, <1>7, <1>8, <1>9, <1>10, <1>11, <1>12, <1>13, <1>14, <1>15, <1>16 DEF Works

\* The parts of MemInv.
MemStores ==
    /\ mem.published = mem.registry /\ IsConfigs(mem.registry) /\ Distinct(mem.registry)
    /\ DOMAIN mem.stores = Ids(mem.registry) /\ DOMAIN mem.stores \subseteq DOMAIN mem.floors
    /\ DOMAIN mem.stores \subseteq DOMAIN disk.dirs
    /\ \A id \in DOMAIN mem.stores :
          /\ IsStore(mem.stores[id]) /\ mem.floors[id] \in Nat /\ mem.floors[id] <= mem.stores[id].lsn
          /\ disk.dirs[id].store.lsn <= mem.stores[id].lsn
          /\ disk.dirs[id].store.shape = mem.stores[id].shape
MemCounts ==
    /\ mem.last \in Nat /\ mem.next \in Nat /\ mem.read \in Nat /\ mem.last < mem.next
    /\ mem.poisoned \in BOOLEAN /\ (~mem.poisoned => mem.failed = 0)
    /\ \A f \in disk.log : f.lsn < mem.next \/ (phase = "opening" /\ f.lsn > mem.read)
MemCatalog ==
    /\ told.configs \subseteq mem.registry /\ Supplied \subseteq mem.registry
    /\ mem.registry \subseteq Entry.configs
    /\ \A c \in Entry.configs :
          c \in mem.registry \/ mem.poisoned \/ (Creating /\ job.made /\ c = job.frame.config)
    /\ disk.catalog.entry.there /\ disk.catalog.flushed.there

LEMMA MemParts ==
    /\ MemInv <=> (Loaded => MemStores /\ MemCounts /\ MemCatalog)
    /\ MemInv' <=> (Loaded' => MemStores' /\ MemCounts' /\ MemCatalog')
BY DEF MemInv, MemStores, MemCounts, MemCatalog

\* The frame that is applied has been read.
LEMMA AppliedIs ==
    ASSUME Inv, job.kind = "apply"
    PROVE  /\ job.frame \in disk.log /\ IsFrame(job.frame) /\ job.frame.lsn \in Nat
           /\ mem.last \in Nat /\ mem.next \in Nat
           /\ mem.last < job.frame.lsn /\ job.frame.lsn < mem.next
           /\ Max({mem.last, job.frame.lsn}) = job.frame.lsn
<1>1. Loaded /\ job.frame \in disk.log /\ job.frame.lsn > mem.last
      /\ (phase = "opening" => job.frame.lsn = mem.read)
    BY Phases DEF Inv, ApplyInv
<1>2. IsFrame(job.frame) /\ job.frame.lsn \in Nat
    BY <1>1 DEF Inv, LogInv, LogOK, IsFrame
<1>3. mem.last \in Nat /\ mem.next \in Nat /\ mem.read \in Nat
      /\ (job.frame.lsn < mem.next \/ (phase = "opening" /\ job.frame.lsn > mem.read))
    BY <1>1 DEF Inv, MemInv
<1>4. job.frame.lsn < mem.next /\ mem.last < job.frame.lsn
    BY <1>1, <1>2, <1>3
<1>5. Max({mem.last, job.frame.lsn}) = job.frame.lsn
    BY <1>2, <1>3, <1>4, MaxOfTwo
<1> QED BY <1>1, <1>2, <1>3, <1>4, <1>5

LEMMA MemCountsStep ==
    ASSUME Inv, OneKindOfFailure, Works, Loaded'
    PROVE  MemCounts'
<1>0. TypeInv /\ JobInv /\ RegisterInv /\ (Loaded => MemCounts) /\ \A f \in disk.log : f.lsn \in Nat \ {0}
    BY MemParts DEF Inv, LogInv, LogOK, IsFrame
<1>1. CASE OpenStores /\ OpenStoresOpens
    <2>1. /\ mem.read = 0 /\ mem.poisoned = FALSE /\ mem.failed = 0 /\ phase = "opening"
        BY <1>0, <1>1, OpenStoresDoes, NoMemoryFields DEF RegisterInv, TypeInv, NoMemory
    <2>2. mem.last \in Nat
        BY <1>0, <1>1, OpenStoresDoes DEF Inv, RegisterInv, JobInv, FileInv, IsContent, Entry
    <2> DEFINE lsns == {disk'.dirs[id].store.lsn : id \in Ids(mem.registry)} \cup {mem.last}
    <2>3. lsns \subseteq Nat
        <3>2. OpensTo(disk.dirs, mem.registry, disk'.dirs)
            BY <1>1, AllAreThere
        <3>3. \A id \in Ids(mem.registry) : id \in DOMAIN disk'.dirs
            BY <3>2 DEF OpensTo
        <3>4. \A id \in Ids(mem.registry) : disk'.dirs[id].store.lsn \in Nat
            BY <3>3, DirsMove DEF IsDir, IsStore
        <3> QED BY <2>2, <3>4
    <2> HIDE DEF lsns
    <2>4. Min(lsns) \in Nat
        <3>1. lsns # {}
            BY DEF lsns
        <3> QED BY <2>3, <3>1, MinIsLeast
    <2>5. /\ mem'.last = Min(lsns) /\ mem'.next = mem'.last + 1 /\ mem'.read = mem.read /\ SameLog
          /\ phase' = phase /\ mem'.poisoned = mem.poisoned /\ mem'.failed = mem.failed
        BY <1>1 DEF OpenStoresOpens, SameFlags, lsns
    <2>6. mem'.last \in Nat /\ mem'.next \in Nat /\ mem'.last < mem'.next /\ mem'.read = 0
        BY <2>1, <2>4, <2>5
    <2>7. \A f \in disk'.log : f.lsn > mem'.read
        <3>1. disk'.log = disk.log
            BY <2>5 DEF SameLog
        <3>2. ASSUME NEW f \in disk.log PROVE f.lsn > mem'.read
            <4>1. PICK l, r : l = f.lsn /\ r = mem'.read
                OBVIOUS
            <4>2. l \in Nat \ {0} /\ r = 0
                BY <1>0, <2>6, <4>1
            <4> QED BY ONLY <4>1, <4>2
        <3> QED BY <3>1, <3>2
    <2>8. phase' = "opening" /\ mem'.poisoned \in BOOLEAN /\ mem'.failed = 0 /\ mem'.read \in Nat
        <3>1. PICK p, q : p = mem.poisoned /\ q = mem'.poisoned
            OBVIOUS
        <3>2. q = p /\ p \in BOOLEAN
            BY <2>1, <2>5, <3>1
        <3>3. PICK r : r = mem'.read
            OBVIOUS
        <3>4. r \in Nat
            BY <2>6, <3>3
        <3>5. phase' = "opening" /\ mem'.failed = 0
            BY <2>1, <2>5
        <3> QED BY ONLY <3>1, <3>2, <3>3, <3>4, <3>5
    <2> QED BY <2>6, <2>7, <2>8 DEF MemCounts
<1> SUFFICES ASSUME Loaded, Continues PROVE MemCounts'
    BY <1>1, LoadedBefore
<1>2. MemCounts
    BY <1>0
<1>3. CASE LogFrame \/ LogFails
    <2>1. /\ job = Idle /\ SameFlags /\ UNCHANGED <<phase, mem.last, mem.read>> /\ mem'.next = mem.next + 1
          /\ disk'.log \subseteq disk.log \cup {NewFrame}
          /\ phase \in {"up", "closing"} /\ queue # <<>> /\ job = Idle /\ ~mem.poisoned
          /\ Asked.kind \in {"create", "insert"}
        BY <1>0, <1>3, LogFrameDoes, LogFailsDoes DEF SameLog
    <2>2. NewFrame.lsn = mem.next
        BY <2>1, NewFrameIs
    <2>3. mem.next \in Nat /\ mem.last \in Nat /\ mem.last < mem.next
        BY <1>2 DEF MemCounts
    <2>4. mem'.next \in Nat /\ mem'.last < mem'.next
        BY <2>1, <2>3
    <2>5. \A f \in disk'.log : f.lsn < mem'.next \/ (phase' = "opening" /\ f.lsn > mem'.read)
        BY <1>0, <1>2, <2>1, <2>2, <2>3 DEF MemCounts
    <2> QED BY <1>2, <2>1, <2>4, <2>5 DEF MemCounts, SameFlags
<1>4. CASE mem' = mem /\ phase' = phase /\ disk'.log \subseteq disk.log
    BY <1>2, <1>4 DEF MemCounts
<1>5. CASE (ApplyInsert /\ ApplyInsertWrites) \/ CreateAgain \/ Publish
    <2>1. job.kind = "apply"
        BY <1>5 DEF ApplyInsert, CreateAgain, Publish, Applying
    <2>2. /\ phase' = phase /\ disk' = disk /\ SameFlags /\ UNCHANGED <<mem.next, mem.read>>
          /\ mem'.last = Max({mem.last, job.frame.lsn})
        BY <1>0, <1>5, CreateAgainDoes, PublishDoes DEF ApplyInsertWrites
    <2>3. mem'.last \in Nat /\ mem'.last < mem'.next
        BY <2>1, <2>2, AppliedIs
    <2> QED BY <1>2, <2>2, <2>3 DEF MemCounts, SameFlags
<1>6. CASE CreateStores /\ CreateStoresMakes
    BY <1>2, <1>6 DEF CreateStoresMakes, MemCounts, SameFlags, SameLog
<1>7. CASE Replay
    <2>1. PICK frame \in disk.log : ReplayReads(frame)
        BY <1>0, <1>7, ReplayDoes
    <2>2. mem.next \in Nat /\ frame.lsn \in Nat /\ mem.read \in Nat /\ mem.last \in Nat /\ mem.last < mem.next
        BY <1>0, <1>2 DEF MemCounts
    <2>3. mem'.next = Max({mem.next, frame.lsn + 1}) /\ mem'.read = frame.lsn /\ mem'.last = mem.last
          /\ disk' = disk /\ phase' = phase /\ SameFlags
          /\ \A f \in disk.log : f.lsn > mem.read => frame.lsn <= f.lsn
        BY <2>1 DEF ReplayReads
    <2>4. mem'.next = IF mem.next > frame.lsn + 1 THEN mem.next ELSE frame.lsn + 1
        BY <2>2, <2>3, MaxOfTwo, frame.lsn + 1 \in Nat
    <2>5. mem'.next \in Nat /\ mem'.last < mem'.next /\ mem'.next >= mem.next /\ mem'.next > frame.lsn
        BY <2>2, <2>3, <2>4
    <2>6. \A f \in disk.log : f.lsn < mem.next \/ (phase = "opening" /\ f.lsn > mem.read)
        BY <1>2 DEF MemCounts
    <2>7. ASSUME NEW f \in disk.log PROVE f.lsn < mem'.next \/ (phase = "opening" /\ f.lsn > mem'.read)
        <3>1. PICK a, n, m : a = f.lsn /\ n = mem'.next /\ m = frame.lsn
            OBVIOUS
        <3>2. a \in Nat /\ n \in Nat /\ m \in Nat
            BY <1>0, <2>2, <2>5, <3>1
        <3>3. CASE f.lsn < mem.next
            BY <2>2, <2>5, <3>1, <3>2, <3>3
        <3>4. CASE phase = "opening" /\ f.lsn > mem.read
            <4>1. m <= a /\ n > m
                BY <2>3, <2>5, <3>1, <3>4
            <4>2. a < n \/ a > m
                BY <3>2, <4>1
            <4> QED BY <2>3, <3>1, <3>4, <4>2
        <3> QED BY <2>6, <3>3, <3>4
    <2> QED BY <1>2, <2>2, <2>3, <2>5, <2>7 DEF MemCounts, SameFlags
<1>8. CASE Ready
    <2>1. mem' = mem /\ disk' = disk /\ \A f \in disk.log : ~(f.lsn > mem.read)
        BY <1>0, <1>8, ReadyDoes
    <2> QED BY <1>2, <2>1 DEF MemCounts
<1>9. CASE Fails
    BY <1>2, <1>9 DEF Fails, MemCounts, SameLog
<1>10. CASE StartCheckpoint \/ CreateEntry \/ WriteCatalog \/ SaveStores \/ Truncate
    <2>1. mem' = mem /\ phase' = phase
        BY <1>0, <1>10, StartCheckpointDoes, CreateEntryDoes, WriteCatalogDoes, SaveStoresDoes,
           TruncateDoes, StoresAre
    <2>2. disk'.log \subseteq disk.log
        BY <1>0, <1>10, StartCheckpointDoes, CreateEntryDoes, WriteCatalogDoes, SaveStoresDoes,
           TruncateDoes, StoresAre DEF SameLog, Above
    <2> QED BY <1>4, <2>1, <2>2
<1> QED BY <1>3, <1>5, <1>6, <1>7, <1>8, <1>9, <1>10 DEF Continues

LEMMA MemCatalogStep ==
    ASSUME Inv, OneKindOfFailure, Works, Loaded'
    PROVE  MemCatalog'
<1>0. TypeInv /\ JobInv /\ RegisterInv /\ RecallInv /\ (Loaded => MemCatalog /\ MemCounts)
    BY MemParts DEF Inv
<1>1. CASE OpenStores /\ OpenStoresOpens
    <2>1. job.kind = "register" /\ job.step = 6
        BY <1>0, <1>1, OpenStoresDoes DEF JobInv
    <2>2. Entry.configs = mem.registry /\ Supplied \subseteq mem.registry
        BY <1>0, <2>1 DEF RegisterInv
    <2>3. told' = told /\ mem'.registry = mem.registry /\ SameContents
        BY <1>1 DEF OpenStoresOpens, SameCatalog, SameContents
    <2>4. told.configs \subseteq Entry.configs
        BY <1>0 DEF RecallInv, RecallOK
    <2>5. Entry' = Entry
        BY <2>3, SameEntries
    <2>6. disk.catalog.entry.there /\ disk.catalog.flushed.there
        BY <2>1, BothThere
    <2> QED BY <2>2, <2>3, <2>4, <2>5, <2>6 DEF MemCatalog, SameContents
<1> SUFFICES ASSUME Loaded, Continues PROVE MemCatalog'
    BY <1>1, LoadedBefore
<1>2. MemCatalog /\ mem.poisoned \in BOOLEAN
    BY <1>0 DEF MemCounts
<1>3. CASE WriteCatalog
    <2>1. /\ mem' = mem /\ told' = told /\ UNCHANGED <<job.kind, job.frame, job.made>> /\ job.step \in 1 .. 5
        BY <1>0, <1>3, WriteCatalogDoes, StoresAre
    <2>2. CASE job.step # 4
        <3>1. Entry' = Entry /\ disk'.catalog.entry.there /\ disk'.catalog.flushed.there
            BY <1>2, <1>3, <2>1, <2>2, WriteEntries DEF MemCatalog
        <3> QED BY <1>2, <2>1, <3>1 DEF MemCatalog, Creating
    <2>3. CASE job.step = 4
        <3>1. PICK configs : Writing(configs) /\ Entry'.configs = configs
            BY <1>3, <2>3, WriteEntries
        <3>2. disk'.catalog.entry.there /\ disk'.catalog.flushed.there
            BY <1>2, <1>3, <2>3, WriteEntries DEF MemCatalog
        <3>3. mem.registry \subseteq configs
            BY <3>1 DEF Writing
        <3>4. \A c \in configs : c \in mem.registry \/ (Creating /\ job.made /\ c = job.frame.config)
            BY <3>1 DEF Writing
        <3> QED BY <1>2, <2>1, <3>1, <3>2, <3>3, <3>4 DEF MemCatalog, Creating
    <2> QED BY <2>2, <2>3
<1>4. (Entry' = Entry /\ SameContents) \/ WriteCatalog
    <2>1. Kill => FALSE
        <3>1. Kill => phase' = "down"
            BY DEF Kill
        <3> QED BY <3>1 DEF Loaded
    <2> QED BY <2>1, WhatMoves, SameEntries
<1> SUFFICES ASSUME Entry' = Entry, SameContents PROVE MemCatalog'
    BY <1>3, <1>4
<1>5. CASE ~Creating /\ told' = told /\ mem'.registry = mem.registry
           /\ (mem'.poisoned = mem.poisoned \/ mem'.poisoned = TRUE)
    BY <1>2, <1>5 DEF MemCatalog, SameContents
<1>6. job.kind # "apply" => ~Creating
    BY DEF Creating
<1>7. CASE LogFrame \/ LogFails \/ StartCheckpoint \/ SaveStores \/ Truncate \/ Replay
    <2>1. ~Creating
        BY <1>0, <1>6, <1>7, LogFrameDoes, LogFailsDoes, StartCheckpointDoes, SaveStoresDoes,
           TruncateDoes, ReplayDoes, IdleFields
    <2>2. told' = told /\ mem'.registry = mem.registry /\ mem'.poisoned = mem.poisoned
        BY <1>0, <1>7, LogFrameDoes, LogFailsDoes, StartCheckpointDoes, SaveStoresDoes,
           TruncateDoes, ReplayDoes DEF SameStores, SameFlags, ReplayReads
    <2> QED BY <1>5, <2>1, <2>2
<1>8. CASE ApplyInsert /\ ApplyInsertWrites
    <2>1. ~Creating
        BY <1>8 DEF ApplyInsert, Applying, Creating
    <2>2. told'.configs = told.configs /\ mem'.registry = mem.registry /\ mem'.poisoned = mem.poisoned
        BY <1>8 DEF ApplyInsertWrites, SameFlags
    <2> QED BY <1>2, <2>1, <2>2 DEF MemCatalog, SameContents
<1>9. CASE CreateAgain
    <2>1. Creating /\ ~job.made /\ Taken(job.frame.config)
          /\ mem'.registry = mem.registry /\ mem'.poisoned = mem.poisoned
          /\ (job.from = "none" => told'.configs = told.configs)
        BY <1>0, <1>9, CreateAgainDoes DEF SameStores, SameFlags
    <2>2. phase = "opening"
        BY <2>1 DEF Inv, ApplyInv, Creating
    <2>3. job.from = "none"
        BY <1>0, <2>2 DEF JobInv
    <2> QED BY <1>2, <2>1, <2>3 DEF MemCatalog, SameContents
<1>10. CASE CreateStores /\ CreateStoresMakes
    <2>1. ~job.made /\ told' = told /\ mem'.registry = mem.registry /\ mem'.poisoned = mem.poisoned
        BY <1>0, <1>10, CreateStoresDoes DEF CreateStoresMakes, SameFlags
    <2> QED BY <1>2, <2>1 DEF MemCatalog, SameContents
<1>11. CASE CreateEntry
    <2>1. told' = told /\ mem' = mem /\ UNCHANGED <<job.kind, job.frame, job.made>>
        BY <1>0, <1>11, CreateEntryDoes
    <2> QED BY <1>2, <2>1 DEF MemCatalog, SameContents, Creating
<1>12. CASE Publish
    <2>1. Creating /\ job.step > 5 /\ SameFlags /\ mem'.registry = mem.registry \cup {job.frame.config}
          /\ told'.configs \subseteq told.configs \cup {job.frame.config}
        BY <1>0, <1>12, PublishDoes
    <2>2. job.step = 6 /\ job.kind # "register" /\ job.kind = "apply"
        BY <1>0, <2>1 DEF JobInv, Creating
    <2>3. job.frame.config \in Entry.configs
        BY <2>2, WrittenOut DEF Writing
    <2> QED BY <1>2, <2>1, <2>3 DEF MemCatalog, SameContents, SameFlags
<1>13. CASE Ready
    <2>1. /\ mem' = mem /\ job' = job /\ told'.configs = told.configs \cup (mem.registry \cap Supplied)
        BY <1>0, <1>13, ReadyDoes
    <2> QED BY <1>2, <2>1 DEF MemCatalog, SameContents, Creating
<1>14. CASE Fails
    <2>1. told' = told /\ mem'.registry = mem.registry
          /\ (job.kind = "apply" => mem'.poisoned = TRUE) /\ (job.kind # "apply" => mem'.poisoned = mem.poisoned)
        BY <1>14 DEF Fails, SameStores
    <2>2. CASE job.kind = "apply"
        BY <1>2, <2>1, <2>2 DEF MemCatalog, SameContents
    <2>3. CASE job.kind # "apply"
        BY <1>5, <1>6, <2>1, <2>3
    <2> QED BY <2>2, <2>3
<1> QED BY <1>3, <1>7, <1>8, <1>9, <1>10, <1>11, <1>12, <1>13, <1>14 DEF Continues

\* A map, entered.
EntersTo(map, key, value, new) ==
    /\ DOMAIN new = DOMAIN map \cup {key} /\ new[key] = value
    /\ \A k \in DOMAIN map : k # key => new[k] = map[k]

LEMMA EnteredIs ==
    ASSUME NEW map, NEW key, NEW value, NEW new, new = Entered(map, key, value)
    PROVE  EntersTo(map, key, value, new)
BY DEF Entered, EntersTo

\* The stores in memory, when neither they nor what matters of the
\* directories changes.
LEMMA MemStoresKept ==
    ASSUME MemStores, SameStores, DOMAIN disk.dirs \subseteq DOMAIN disk'.dirs,
           \A id \in DOMAIN disk.dirs : disk'.dirs[id].store = disk.dirs[id].store
    PROVE  MemStores'
<1>1. /\ mem'.published = mem'.registry /\ IsConfigs(mem'.registry) /\ Distinct(mem'.registry)
      /\ DOMAIN mem'.stores = Ids(mem'.registry) /\ DOMAIN mem'.stores \subseteq DOMAIN mem'.floors
    BY DEF MemStores, SameStores
<1>2. DOMAIN mem'.stores \subseteq DOMAIN disk'.dirs
    BY DEF MemStores, SameStores
<1>3. ASSUME NEW id \in DOMAIN mem'.stores
      PROVE  /\ IsStore(mem'.stores[id]) /\ mem'.floors[id] \in Nat /\ mem'.floors[id] <= mem'.stores[id].lsn
             /\ disk'.dirs[id].store.lsn <= mem'.stores[id].lsn
             /\ disk'.dirs[id].store.shape = mem'.stores[id].shape
    <2>1. id \in DOMAIN mem.stores /\ id \in DOMAIN disk.dirs /\ disk'.dirs[id].store = disk.dirs[id].store
        BY DEF MemStores, SameStores
    <2> QED BY <2>1 DEF MemStores, SameStores
<1> QED BY <1>1, <1>2, <1>3 DEF MemStores

LEMMA MemStoresStep ==
    ASSUME Inv, OneKindOfFailure, Works, Loaded'
    PROVE  MemStores'
<1>0. TypeInv /\ JobInv /\ RegisterInv /\ (Loaded => MemStores)
      /\ \A id \in DOMAIN disk.dirs : IsDir(disk.dirs[id])
    BY MemParts, StoresAre DEF Inv
<1>1. CASE OpenStores /\ OpenStoresOpens
    <2>1. job.kind = "register" /\ job.step = 6
        BY <1>0, <1>1, OpenStoresDoes DEF JobInv
    <2>2. IsConfigs(mem.registry) /\ Distinct(mem.registry)
        BY <1>0, <2>1 DEF RegisterInv
    <2>3. /\ mem'.registry = mem.registry /\ mem'.published = mem.registry
          /\ mem'.stores = [id \in Ids(mem.registry) |-> disk'.dirs[id].store]
          /\ mem'.floors = [id \in Ids(mem.registry) |-> disk'.dirs[id].store.lsn]
        BY <1>1 DEF OpenStoresOpens
    <2>4. OpensTo(disk.dirs, mem.registry, disk'.dirs)
        BY <1>1, AllAreThere
    <2>5. Ids(mem.registry) \subseteq DOMAIN disk'.dirs
        BY <2>4 DEF OpensTo
    <2>6. DOMAIN mem'.stores = Ids(mem.registry) /\ DOMAIN mem'.floors = Ids(mem.registry)
        BY <2>3
    <2>7. ASSUME NEW id \in DOMAIN mem'.stores
          PROVE  /\ IsStore(mem'.stores[id]) /\ mem'.floors[id] \in Nat /\ mem'.floors[id] <= mem'.stores[id].lsn
                 /\ disk'.dirs[id].store.lsn <= mem'.stores[id].lsn
                 /\ disk'.dirs[id].store.shape = mem'.stores[id].shape
        <3>1. mem'.stores[id] = disk'.dirs[id].store /\ mem'.floors[id] = disk'.dirs[id].store.lsn
            BY <2>3, <2>6, <2>7
        <3>2. IsStore(disk'.dirs[id].store)
            BY <2>5, <2>6, <2>7, DirsMove DEF IsDir
        <3>3. PICK l : l = disk'.dirs[id].store.lsn
            OBVIOUS
        <3>4. l \in Nat
            BY <3>2, <3>3 DEF IsStore
        <3> QED BY <3>1, <3>2, <3>3, <3>4
    <2> QED BY <2>2, <2>3, <2>5, <2>6, <2>7 DEF MemStores
<1> SUFFICES ASSUME Loaded, Continues PROVE MemStores'
    BY <1>1, LoadedBefore
<1>2. MemStores
    BY <1>0
<1>3. CASE SameStores /\ SameDirs
    BY <1>2, <1>3, MemStoresKept DEF SameDirs
<1>4. mem' = mem => SameStores
    BY DEF SameStores
<1>5. disk' = disk => SameDirs
    BY DEF SameDirs
<1>6. CASE LogFrame \/ LogFails \/ StartCheckpoint \/ CreateAgain \/ Truncate \/ Replay \/ Ready \/ Fails
    BY <1>0, <1>3, <1>4, <1>5, <1>6, LogFrameDoes, LogFailsDoes, StartCheckpointDoes, CreateAgainDoes,
       TruncateDoes, ReplayDoes, ReadyDoes DEF ReplayReads, Fails
<1>7. CASE SameStores /\ disk'.dirs = Kept(disk.dirs)
    <2>1. PICK dirs, new : dirs = disk.dirs /\ new = disk'.dirs
        OBVIOUS
    <2>2. new = Kept(dirs) /\ \A id \in DOMAIN dirs : IsDir(dirs[id])
        BY <1>0, <1>7, <2>1
    <2>3. DOMAIN new = DOMAIN dirs /\ \A id \in DOMAIN dirs : new[id].store = dirs[id].store
        BY <2>2, KeptIsCarried
    <2> QED BY <1>2, <1>7, <2>1, <2>3, MemStoresKept
<1>8. CASE CreateEntry \/ WriteCatalog
    BY <1>0, <1>3, <1>4, <1>7, <1>8, CreateEntryDoes, WriteCatalogDoes, StoresAre
<1>9. CASE ApplyInsert /\ ApplyInsertWrites
    <2> DEFINE at == job.frame.config.id
               lsn == job.frame.lsn
    <2>1. lsn \in Nat /\ job.kind = "apply"
        BY <1>9, AppliedIs DEF ApplyInsert, Applying
    <2>2. /\ UNCHANGED <<mem.registry, mem.published, mem.floors>> /\ disk' = disk
          /\ DOMAIN mem'.stores = DOMAIN mem.stores
          /\ \A id \in DOMAIN mem.stores : id # at => mem'.stores[id] = mem.stores[id]
          /\ \/ mem'.stores[at] = mem.stores[at]
             \/ mem'.stores[at] = [shape |-> mem.stores[at].shape, lsn |-> Max({mem.stores[at].lsn, lsn}),
                                   rows |-> mem.stores[at].rows \cup {lsn}]
        BY <1>9 DEF ApplyInsertWrites
    <2>3. ASSUME NEW id \in DOMAIN mem'.stores
          PROVE  /\ IsStore(mem'.stores[id]) /\ mem'.floors[id] \in Nat /\ mem'.floors[id] <= mem'.stores[id].lsn
                 /\ disk'.dirs[id].store.lsn <= mem'.stores[id].lsn
                 /\ disk'.dirs[id].store.shape = mem'.stores[id].shape
        <3>1. /\ IsStore(mem.stores[id]) /\ mem.floors[id] \in Nat /\ mem.floors[id] <= mem.stores[id].lsn
              /\ disk.dirs[id].store.lsn <= mem.stores[id].lsn
              /\ disk.dirs[id].store.shape = mem.stores[id].shape /\ id \in DOMAIN disk.dirs
            BY <1>2, <2>2 DEF MemStores
        <3>2. CASE mem'.stores[id] = mem.stores[id]
            BY <2>2, <3>1, <3>2
        <3>3. CASE id = at /\ mem'.stores[at] = [shape |-> mem.stores[at].shape,
                                   lsn |-> Max({mem.stores[at].lsn, lsn}), rows |-> mem.stores[at].rows \cup {lsn}]
            <4>1. PICK s, n, l : s = mem.stores[id] /\ n = Max({s.lsn, lsn}) /\ l = s.lsn
                OBVIOUS
            <4>2. s.shape \in Shapes /\ l \in Nat /\ n \in Nat /\ l <= n
                BY <2>1, <3>1, <4>1, MaxOfTwo DEF IsStore
            <4>3. PICK t : t = mem'.stores[id]
                OBVIOUS
            <4>4. t = [shape |-> s.shape, lsn |-> n, rows |-> s.rows \cup {lsn}]
                BY <3>3, <4>1, <4>3
            <4>5. t.shape = s.shape /\ t.lsn = n /\ t.rows = s.rows \cup {lsn}
                BY <4>4
            <4>6. IsStore(t)
                BY <4>2, <4>4, <4>5 DEF IsStore
            <4>7. PICK fl, dl : fl = mem.floors[id] /\ dl = disk.dirs[id].store.lsn
                OBVIOUS
            <4>8. fl \in Nat /\ dl \in Nat /\ fl <= l /\ dl <= l
                BY <1>0, <3>1, <4>1, <4>7 DEF IsDir, IsStore
            <4>9. fl <= n /\ dl <= n
                BY <4>2, <4>8
            <4> QED BY <2>2, <3>1, <4>1, <4>3, <4>5, <4>6, <4>7, <4>8, <4>9
        <3> QED BY <2>2, <3>2, <3>3
    <2> QED BY <1>2, <2>2, <2>3 DEF MemStores
<1>10. CASE CreateStores /\ CreateStoresMakes
    <2>1. /\ ~Taken(job.frame.config) /\ UNCHANGED <<mem.registry, mem.published, mem.stores>>
          /\ mem'.floors = Entered(mem.floors, job.frame.config.id, disk'.dirs[job.frame.config.id].store.lsn)
          /\ disk'.dirs = Opened(disk.dirs, {job.frame.config})
        BY <1>0, <1>10, CreateStoresDoes DEF CreateStoresMakes
    <2>2. /\ DOMAIN mem'.floors = DOMAIN mem.floors \cup {job.frame.config.id}
          /\ \A id \in DOMAIN mem.floors : id # job.frame.config.id => mem'.floors[id] = mem.floors[id]
        <3>1. EntersTo(mem.floors, job.frame.config.id, disk'.dirs[job.frame.config.id].store.lsn, mem'.floors)
            BY <2>1, EnteredIs
        <3> QED BY <3>1 DEF EntersTo
    <2>3. OpensTo(disk.dirs, {job.frame.config}, disk'.dirs)
        BY <2>1, OpenedAre
    <2>4. DOMAIN disk.dirs \subseteq DOMAIN disk'.dirs /\ \A id \in DOMAIN disk.dirs : disk'.dirs[id] = disk.dirs[id]
        BY <2>3 DEF OpensTo
    <2>5. job.frame.config.id \notin DOMAIN mem.stores
        BY <2>1 DEF Taken
    <2>6. \A id \in DOMAIN mem.stores : mem'.floors[id] = mem.floors[id] /\ disk'.dirs[id] = disk.dirs[id]
        BY <1>2, <2>2, <2>4, <2>5 DEF MemStores
    <2>7. DOMAIN mem.stores \subseteq DOMAIN mem'.floors /\ DOMAIN mem.stores \subseteq DOMAIN disk'.dirs
        BY <1>2, <2>2, <2>4 DEF MemStores
    <2> QED BY <1>2, <2>1, <2>6, <2>7 DEF MemStores
<1>11. CASE Publish
    <2> DEFINE config == job.frame.config
    <2>1. /\ Creating /\ job.step > 5 /\ disk' = disk /\ mem'.floors = mem.floors
          /\ mem'.registry = mem.registry \cup {config} /\ mem'.published = mem.published \cup {config}
          /\ mem'.stores = Entered(mem.stores, config.id, disk.dirs[config.id].store)
        BY <1>0, <1>11, PublishDoes
    <2>2. job.kind = "apply" /\ job.step > 0 /\ job.step \in 0 .. 6
        BY <1>0, <2>1 DEF JobInv, Creating
    <2>3. /\ ~Taken(config) /\ config.id \in DOMAIN disk.dirs /\ config.id \in DOMAIN mem.floors
          /\ mem.floors[config.id] = disk.dirs[config.id].store.lsn
        BY <2>1, <2>2 DEF Inv, ApplyInv
    <2>4. IsConfig(config)
        BY <2>2, AppliedIs DEF IsFrame
    <2>5. IsConfigs(mem'.registry)
        BY <1>2, <2>1, <2>4, FS_AddElement DEF MemStores, IsConfigs
    <2>6. Distinct(mem'.registry)
        <3>1. \A c \in mem.registry : c.id # config.id /\ c.name # config.name
            BY <1>2, <2>3 DEF Taken, MemStores, Ids, Called
        <3>2. Distinct(mem.registry)
            BY <1>2 DEF MemStores
        <3> QED BY <2>1, <3>1, <3>2 DEF Distinct
    <2>7. /\ DOMAIN mem'.stores = DOMAIN mem.stores \cup {config.id}
          /\ mem'.stores[config.id] = disk.dirs[config.id].store
          /\ \A id \in DOMAIN mem.stores : id # config.id => mem'.stores[id] = mem.stores[id]
        <3>1. EntersTo(mem.stores, config.id, disk.dirs[config.id].store, mem'.stores)
            BY <2>1, EnteredIs
        <3> QED BY <3>1 DEF EntersTo
    <2>8. DOMAIN mem'.stores = Ids(mem'.registry)
        <3>1. Ids(mem.registry \cup {config}) = Ids(mem.registry) \cup {config.id}
            BY DEF Ids
        <3> QED BY <1>2, <2>1, <2>7, <3>1 DEF MemStores
    <2>9. ASSUME NEW id \in DOMAIN mem'.stores
          PROVE  /\ IsStore(mem'.stores[id]) /\ mem'.floors[id] \in Nat /\ mem'.floors[id] <= mem'.stores[id].lsn
                 /\ disk'.dirs[id].store.lsn <= mem'.stores[id].lsn
                 /\ disk'.dirs[id].store.shape = mem'.stores[id].shape
        <3>1. CASE id # config.id
            BY <1>2, <2>1, <2>7, <3>1 DEF MemStores
        <3>2. CASE id = config.id
            <4>1. PICK s, l : s = disk.dirs[id].store /\ l = s.lsn
                OBVIOUS
            <4>2. IsStore(s) /\ l \in Nat
                BY <1>0, <2>3, <3>2, <4>1 DEF IsDir, IsStore
            <4>3. mem'.stores[id] = s /\ mem'.floors[id] = l /\ disk'.dirs[id].store = s
                BY <2>1, <2>3, <2>7, <3>2, <4>1
            <4> QED BY <4>1, <4>2, <4>3
        <3> QED BY <3>1, <3>2
    <2>10. mem'.published = mem'.registry /\ DOMAIN mem'.stores \subseteq DOMAIN mem'.floors
           /\ DOMAIN mem'.stores \subseteq DOMAIN disk'.dirs
        BY <1>2, <2>1, <2>3, <2>7 DEF MemStores
    <2> QED BY <2>5, <2>6, <2>8, <2>9, <2>10 DEF MemStores
<1>12. CASE SaveStores
    <2>1. PICK id \in job.left :
              /\ DOMAIN disk'.dirs = DOMAIN disk.dirs /\ id \in DOMAIN mem.stores /\ id \in DOMAIN disk.dirs
              /\ disk'.dirs[id].store = mem.stores[id]
              /\ \A k \in DOMAIN disk.dirs : k # id => disk'.dirs[k] = disk.dirs[k]
        BY <1>12, SavedIs
    <2>2. mem' = mem
        BY <1>0, <1>12, SaveStoresDoes
    <2>3. ASSUME NEW k \in DOMAIN mem.stores
          PROVE  disk'.dirs[k].store.lsn <= mem.stores[k].lsn /\ disk'.dirs[k].store.shape = mem.stores[k].shape
        <3>1. CASE k # id
            BY <1>2, <2>1, <3>1 DEF MemStores
        <3>2. CASE k = id
            <4>1. mem.stores[k].lsn \in Nat
                BY <1>2 DEF MemStores, IsStore
            <4>2. PICK l : l = mem.stores[k].lsn
                OBVIOUS
            <4> QED BY <2>1, <3>2, <4>1, <4>2
        <3> QED BY <3>1, <3>2
    <2> QED BY <1>2, <2>1, <2>2, <2>3 DEF MemStores
<1> QED BY <1>6, <1>8, <1>9, <1>10, <1>11, <1>12 DEF Continues

LEMMA MemStep ==
    ASSUME Inv, OneKindOfFailure, Works
    PROVE  MemInv'
BY MemParts, MemStoresStep, MemCountsStep, MemCatalogStep

-----------------------------------------------------------------------------
(* LSNs: what is marked is in the log.                                     *)
Lows == Marks(disk.dirs) \cup MemLsns
Highs == Bases \cup MemLsns

LEMMA LowsAre ==
    /\ \A l : l \in Lows <=>
          \/ \E id \in DOMAIN disk.dirs : l = disk.dirs[id].store.lsn
          \/ l = Entry.lsn \/ l = Flushed.lsn
          \/ Loaded /\ (l = mem.last \/ \E id \in DOMAIN mem.stores : l = mem.stores[id].lsn)
    /\ \A l : l \in Lows' <=>
          \/ \E id \in DOMAIN disk'.dirs : l = disk'.dirs[id].store.lsn
          \/ l = Entry'.lsn \/ l = Flushed'.lsn
          \/ Loaded' /\ (l = mem'.last \/ \E id \in DOMAIN mem'.stores : l = mem'.stores[id].lsn)
<1>1. /\ MemLsns = IF Loaded THEN {mem.stores[id].lsn : id \in DOMAIN mem.stores} \cup {mem.last} ELSE {}
      /\ MemLsns' = IF Loaded' THEN {mem'.stores[id].lsn : id \in DOMAIN mem'.stores} \cup {mem'.last} ELSE {}
    BY DEF MemLsns
<1> QED BY <1>1 DEF Lows, Marks

LEMMA HighsAre ==
    /\ \A m : m \in Highs <=>
          \/ \E c \in Entry.configs \cup Flushed.configs : m = Base(disk.dirs, c.id)
          \/ m = Entry.lsn \/ m = Flushed.lsn
          \/ Loaded /\ (m = mem.last \/ \E id \in DOMAIN mem.stores : m = mem.stores[id].lsn)
    /\ \A m : m \in Highs' <=>
          \/ \E c \in Entry'.configs \cup Flushed'.configs : m = Base(disk'.dirs, c.id)
          \/ m = Entry'.lsn \/ m = Flushed'.lsn
          \/ Loaded' /\ (m = mem'.last \/ \E id \in DOMAIN mem'.stores : m = mem'.stores[id].lsn)
<1>1. /\ MemLsns = IF Loaded THEN {mem.stores[id].lsn : id \in DOMAIN mem.stores} \cup {mem.last} ELSE {}
      /\ MemLsns' = IF Loaded' THEN {mem'.stores[id].lsn : id \in DOMAIN mem'.stores} \cup {mem'.last} ELSE {}
    BY DEF MemLsns
<1> QED BY <1>1 DEF Highs, Bases

LEMMA BaseIs ==
    ASSUME NEW dirs, \A id \in DOMAIN dirs : IsDir(dirs[id]), NEW id
    PROVE  /\ Base(dirs, id) \in Nat
           /\ id \in DOMAIN dirs => dirs[id].store.lsn \in Nat /\ Base(dirs, id) <= dirs[id].store.lsn
           /\ id \in DOMAIN dirs /\ dirs[id].kept => Base(dirs, id) = dirs[id].store.lsn
           /\ id \notin DOMAIN dirs \/ ~dirs[id].kept => Base(dirs, id) = 0
<1>1. CASE id \in DOMAIN dirs
    <2>1. PICK l : l = dirs[id].store.lsn
        OBVIOUS
    <2>2. l \in Nat
        BY <1>1, <2>1 DEF IsDir, IsStore
    <2> QED BY <1>1, <2>1, <2>2 DEF Base
<1>2. CASE id \notin DOMAIN dirs
    BY <1>2 DEF Base
<1> QED BY <1>1, <1>2

LEMMA LsnsAreNat ==
    /\ FileInv /\ DirInv /\ MemInv => Lows \subseteq Nat /\ Highs \subseteq Nat
    /\ FileInv' /\ DirInv' /\ MemInv' => Lows' \subseteq Nat /\ Highs' \subseteq Nat
<1>1. ASSUME FileInv, DirInv, MemInv PROVE Lows \subseteq Nat /\ Highs \subseteq Nat
    <2>1. Entry.lsn \in Nat /\ Flushed.lsn \in Nat
        BY <1>1 DEF FileInv, IsContent, Entry, Flushed
    <2>2. \A id \in DOMAIN disk.dirs : disk.dirs[id].store.lsn \in Nat
        BY <1>1 DEF DirInv, IsDir, IsStore
    <2>3. \A id : Base(disk.dirs, id) \in Nat
        BY <1>1, BaseIs DEF DirInv
    <2>4. Loaded => mem.last \in Nat /\ \A id \in DOMAIN mem.stores : mem.stores[id].lsn \in Nat
        BY <1>1 DEF MemInv, IsStore
    <2>5. Lows \subseteq Nat
        BY <2>1, <2>2, <2>4, LowsAre
    <2>6. Highs \subseteq Nat
        BY <2>1, <2>3, <2>4, HighsAre
    <2> QED BY <2>5, <2>6
<1>2. ASSUME FileInv', DirInv', MemInv' PROVE Lows' \subseteq Nat /\ Highs' \subseteq Nat
    <2>1. Entry'.lsn \in Nat /\ Flushed'.lsn \in Nat
        BY <1>2 DEF FileInv, IsContent, Entry, Flushed
    <2>2. \A id \in DOMAIN disk'.dirs : disk'.dirs[id].store.lsn \in Nat
        BY <1>2 DEF DirInv, IsDir, IsStore
    <2>3. \A id : Base(disk'.dirs, id) \in Nat
        <3>1. PICK dirs : dirs = disk'.dirs
            OBVIOUS
        <3>2. \A id \in DOMAIN dirs : IsDir(dirs[id])
            BY <1>2, <3>1 DEF DirInv
        <3>3. \A id : Base(dirs, id) \in Nat
            BY <3>2, BaseIs
        <3> QED BY <3>1, <3>3
    <2>4. Loaded' => mem'.last \in Nat /\ \A id \in DOMAIN mem'.stores : mem'.stores[id].lsn \in Nat
        BY <1>2 DEF MemInv, IsStore
    <2>5. Lows' \subseteq Nat
        BY <2>1, <2>2, <2>4, LowsAre
    <2>6. Highs' \subseteq Nat
        BY <2>1, <2>3, <2>4, HighsAre
    <2> QED BY <2>5, <2>6
<1> QED BY <1>1, <1>2

LEMMA CoverIs ==
    /\ CoverInv <=> \A l \in Lows, m \in Highs : Above0(disk.log, l, m)
    /\ CoverInv' <=> \A l \in Lows', m \in Highs' : Above0(disk'.log, l, m)
BY DEF CoverInv, Lows, Highs

\* What is no higher than a mark was, or than a frame; what is no lower than
\* a base was.
IsLow(l) == l = 0 \/ (\E x \in Lows : l <= x) \/ \E f \in disk'.log : l <= f.lsn
IsHigh(m) == \E y \in Highs : y <= m

LEMMA CoverFollows ==
    ASSUME Inv, LogInv', FileInv', DirInv', MemInv', disk.log \subseteq disk'.log,
           \A l \in Lows' : IsLow(l), \A m \in Highs' : IsHigh(m)
    PROVE  CoverInv'
<1>1. Lows \subseteq Nat /\ Highs \subseteq Nat /\ Lows' \subseteq Nat /\ Highs' \subseteq Nat
    BY LsnsAreNat DEF Inv
<1>2. \A f \in disk'.log : f.lsn \in Nat
    BY DEF LogInv, LogOK, IsFrame
<1>3. ASSUME NEW l \in Lows', NEW m \in Highs' PROVE Above0(disk'.log, l, m)
    <2>1. l \in Nat /\ m \in Nat
        BY <1>1
    <2>2. CASE l = 0
        BY <2>1, <2>2 DEF Above0
    <2>3. CASE \E f \in disk'.log : l <= f.lsn
        BY <2>3 DEF Above0
    <2>4. CASE \E x \in Lows : l <= x
        <3>1. PICK x \in Lows : l <= x
            BY <2>4
        <3>2. PICK y \in Highs : y <= m
            BY DEF IsHigh
        <3>3. x \in Nat /\ y \in Nat
            BY <1>1
        <3>4. Above0(disk.log, x, y)
            BY CoverIs DEF Inv
        <3>5. CASE x <= y
            BY <2>1, <3>1, <3>2, <3>3, <3>5 DEF Above0
        <3>6. CASE \E f \in disk.log : x <= f.lsn
            <4>1. PICK f \in disk.log : x <= f.lsn
                BY <3>6
            <4>2. f \in disk'.log /\ f.lsn \in Nat
                BY <1>2
            <4>3. l <= f.lsn
                BY <2>1, <3>1, <3>3, <4>1, <4>2
            <4> QED BY <4>2, <4>3 DEF Above0
        <3> QED BY <3>4, <3>5, <3>6 DEF Above0
    <2> QED BY <2>2, <2>3, <2>4 DEF IsLow
<1> QED BY <1>3, CoverIs

LEMMA OldIsLow ==
    ASSUME Inv
    PROVE  (\A l \in Lows : IsLow(l)) /\ (\A m \in Highs : IsHigh(m))
<1>1. Lows \subseteq Nat /\ Highs \subseteq Nat
    BY LsnsAreNat DEF Inv
<1> QED BY <1>1 DEF IsLow, IsHigh

\* The directories' LSNs.
LEMMA BaseGrows ==
    ASSUME NEW dirs, \A id \in DOMAIN dirs : IsDir(dirs[id]),
           NEW new, \A id \in DOMAIN new : IsDir(new[id]), Carried(dirs, new), NEW id
    PROVE  Base(dirs, id) <= Base(new, id)
<1>1. CASE id \in DOMAIN dirs /\ dirs[id].kept
    <2>1. id \in DOMAIN new /\ new[id].store = dirs[id].store /\ new[id].kept
        BY <1>1 DEF Carried
    <2>2. Base(new, id) = Base(dirs, id) /\ Base(dirs, id) \in Nat
        BY <1>1, <2>1, BaseIs
    <2> QED BY <2>2
<1>2. CASE id \notin DOMAIN dirs \/ ~dirs[id].kept
    <2>1. Base(dirs, id) = 0 /\ Base(new, id) \in Nat
        BY <1>2, BaseIs
    <2> QED BY <2>1
<1> QED BY <1>1, <1>2

LEMMA DirsCover ==
    ASSUME Inv, OneKindOfFailure, Works
    PROVE  /\ \A id \in DOMAIN disk'.dirs : IsLow(disk'.dirs[id].store.lsn)
           /\ \A id : Base(disk.dirs, id) <= Base(disk'.dirs, id)
<1>0. /\ \A id \in DOMAIN disk.dirs : IsDir(disk.dirs[id])
      /\ \A id \in DOMAIN disk'.dirs : IsDir(disk'.dirs[id])
    BY StoresAre, DirsMove
<1>1. CASE Carried(disk.dirs, disk'.dirs)
    <2>1. ASSUME NEW id \in DOMAIN disk'.dirs PROVE IsLow(disk'.dirs[id].store.lsn)
        <3>1. CASE id \in DOMAIN disk.dirs /\ disk'.dirs[id].store = disk.dirs[id].store
            <4>1. disk'.dirs[id].store.lsn \in Lows
                BY <3>1, LowsAre
            <4> QED BY <4>1, OldIsLow
        <3>2. CASE disk'.dirs[id].store.lsn = 0
            BY <3>2 DEF IsLow
        <3> QED BY <1>1, <3>1, <3>2 DEF Carried
    <2>2. \A id : Base(disk.dirs, id) <= Base(disk'.dirs, id)
        <3>1. PICK dirs, new : dirs = disk.dirs /\ new = disk'.dirs
            OBVIOUS
        <3>2. /\ \A id \in DOMAIN dirs : IsDir(dirs[id])
              /\ \A id \in DOMAIN new : IsDir(new[id])
              /\ Carried(dirs, new)
            BY <1>0, <1>1, <3>1
        <3>3. \A id : Base(dirs, id) <= Base(new, id)
            BY <3>2, BaseGrows
        <3> QED BY <3>1, <3>3
    <2> QED BY <2>1, <2>2
<1>2. CASE SaveStores
    <2>1. PICK at \in job.left :
              /\ job.kind = "checkpoint" /\ at \in DOMAIN mem.stores /\ at \in DOMAIN disk.dirs
              /\ DOMAIN disk'.dirs = DOMAIN disk.dirs
              /\ disk'.dirs[at].store = mem.stores[at] /\ disk'.dirs[at].kept = disk.dirs[at].kept
              /\ \A k \in DOMAIN disk.dirs : k # at => disk'.dirs[k] = disk.dirs[k]
        BY <1>2, SavedIs
    <2>2. Loaded
        BY <2>1, Phases
    <2>3. disk.dirs[at].store.lsn <= mem.stores[at].lsn
        BY <2>1, <2>2 DEF Inv, MemInv
    <2>4. ASSUME NEW id \in DOMAIN disk'.dirs PROVE IsLow(disk'.dirs[id].store.lsn)
        <3>1. disk'.dirs[id].store.lsn \in Lows
            BY <2>1, <2>2, LowsAre
        <3> QED BY <3>1, OldIsLow
    <2>5. ASSUME NEW id PROVE Base(disk.dirs, id) <= Base(disk'.dirs, id)
        <3>1. PICK dirs, new : dirs = disk.dirs /\ new = disk'.dirs
            OBVIOUS
        <3>2. /\ \A k \in DOMAIN dirs : IsDir(dirs[k])
              /\ \A k \in DOMAIN new : IsDir(new[k])
            BY <1>0, <3>1
        <3>3. Base(dirs, id) \in Nat /\ Base(new, id) \in Nat
            BY <3>2, BaseIs
        <3>4. CASE id # at
            <4>1. Base(new, id) = Base(dirs, id)
                BY <2>1, <3>1, <3>4 DEF Base
            <4> QED BY <3>1, <3>3, <4>1
        <3>5. CASE id = at /\ dirs[at].kept
            <4>1. Base(new, id) = new[at].store.lsn /\ Base(dirs, id) = dirs[at].store.lsn
                BY <2>1, <3>1, <3>2, <3>5, BaseIs
            <4> QED BY <2>1, <2>3, <3>1, <4>1
        <3>6. CASE id = at /\ ~dirs[at].kept
            <4>1. Base(dirs, id) = 0
                BY <3>2, <3>6, BaseIs
            <4> QED BY <3>1, <3>3, <4>1
        <3> QED BY <3>4, <3>5, <3>6
    <2> QED BY <2>4, <2>5
<1> QED BY <1>1, <1>2, DirsMove

LEMMA EntriesMove ==
    ASSUME Inv, OneKindOfFailure, Works, ~(WriteCatalog /\ job.step = 4)
    PROVE  Entry' \in {Entry, Flushed} /\ Flushed' \in {Entry, Flushed}
BY WhatMoves, SameEntries, WriteEntries, KillEntries

LEMMA MemCovers ==
    ASSUME Inv, OneKindOfFailure, Works, Loaded'
    PROVE  /\ IsLow(mem'.last) /\ IsHigh(mem'.last)
           /\ \A id \in DOMAIN mem'.stores : IsLow(mem'.stores[id].lsn) /\ IsHigh(mem'.stores[id].lsn)
<1>0. /\ TypeInv /\ JobInv /\ RegisterInv /\ MemInv
      /\ \A id \in DOMAIN disk.dirs : IsDir(disk.dirs[id])
      /\ \A id \in DOMAIN disk'.dirs : IsDir(disk'.dirs[id])
    BY StoresAre, DirsMove DEF Inv
<1>00. (\A k \in DOMAIN disk.dirs : IsDir(disk.dirs[k])) /\ (\A k \in DOMAIN disk'.dirs : IsDir(disk'.dirs[k]))
    BY StoresAre, DirsMove
<1>1. CASE OpenStores /\ OpenStoresOpens
    <2>1. job.kind = "register" /\ job.step = 6
        BY <1>0, <1>1, OpenStoresDoes DEF JobInv
    <2>2. Entry.configs = mem.registry /\ Entry.lsn = mem.last
        BY <1>0, <2>1 DEF RegisterInv
    <2>3. /\ mem'.stores = [id \in Ids(mem.registry) |-> disk'.dirs[id].store]
          /\ mem'.last = Min({disk'.dirs[id].store.lsn : id \in Ids(mem.registry)} \cup {mem.last})
        BY <1>1 DEF OpenStoresOpens
    <2>4. OpensTo(disk.dirs, mem.registry, disk'.dirs)
        BY <1>1, AllAreThere
    <2>5. Ids(mem.registry) \subseteq DOMAIN disk'.dirs
        BY <2>4 DEF OpensTo
    <2>6. ASSUME NEW id \in Ids(mem.registry)
          PROVE  /\ disk'.dirs[id].store.lsn \in Nat
                 /\ IsLow(disk'.dirs[id].store.lsn) /\ IsHigh(disk'.dirs[id].store.lsn)
        <3>1. IsLow(disk'.dirs[id].store.lsn)
            BY <2>5, DirsCover
        <3>2. Base(disk.dirs, id) \in Highs
            BY <2>2, HighsAre DEF Ids
        <3>3. PICK dirs, new : dirs = disk.dirs /\ new = disk'.dirs
            OBVIOUS
        <3>9. (\A k \in DOMAIN dirs : IsDir(dirs[k])) /\ (\A k \in DOMAIN new : IsDir(new[k]))
            BY <1>00, <3>3
        <3>10. id \in DOMAIN new
            BY <2>5, <2>6, <3>3
        <3>4. /\ \A k \in DOMAIN dirs : IsDir(dirs[k])
              /\ \A k \in DOMAIN new : IsDir(new[k])
              /\ id \in DOMAIN new
            BY <3>9, <3>10
        <3>7. Base(disk.dirs, id) <= Base(disk'.dirs, id)
            BY DirsCover
        <3>8. Base(dirs, id) <= Base(new, id)
            BY <3>3, <3>7
        <3>5. /\ Base(dirs, id) \in Nat /\ Base(new, id) \in Nat /\ new[id].store.lsn \in Nat
              /\ Base(new, id) <= new[id].store.lsn
            BY <3>4, BaseIs
        <3>6. Base(dirs, id) <= new[id].store.lsn
            BY <3>5, <3>8
        <3> QED BY <3>1, <3>2, <3>3, <3>5, <3>6 DEF IsHigh
    <2>7. mem.last \in Nat /\ mem.last \in Lows /\ mem.last \in Highs
        BY <2>2, LowsAre, HighsAre DEF Inv, FileInv, IsContent, Entry
    <2>8. IsLow(mem.last) /\ IsHigh(mem.last)
        BY <2>7, OldIsLow
    <2> DEFINE lsns == {disk'.dirs[id].store.lsn : id \in Ids(mem.registry)} \cup {mem.last}
    <2>9. lsns \subseteq Nat /\ \A l \in lsns : IsLow(l) /\ IsHigh(l)
        BY <2>6, <2>7, <2>8
    <2>10. lsns # {}
        OBVIOUS
    <2> HIDE DEF lsns
    <2>11. Min(lsns) \in lsns
        BY <2>9, <2>10, MinIsLeast
    <2>12. IsLow(mem'.last) /\ IsHigh(mem'.last)
        <3>1. mem'.last = Min(lsns)
            BY <2>3 DEF lsns
        <3> QED BY <2>9, <2>11, <3>1
    <2>13. ASSUME NEW id \in DOMAIN mem'.stores
           PROVE  IsLow(mem'.stores[id].lsn) /\ IsHigh(mem'.stores[id].lsn)
        <3>1. id \in Ids(mem.registry) /\ mem'.stores[id] = disk'.dirs[id].store
            BY <2>3
        <3> QED BY <2>6, <3>1
    <2> QED BY <2>12, <2>13
<1> SUFFICES ASSUME Loaded, Continues
             PROVE  /\ IsLow(mem'.last) /\ IsHigh(mem'.last)
                    /\ \A id \in DOMAIN mem'.stores : IsLow(mem'.stores[id].lsn) /\ IsHigh(mem'.stores[id].lsn)
    BY <1>1, LoadedBefore
<1>2. /\ IsLow(mem.last) /\ IsHigh(mem.last)
      /\ \A id \in DOMAIN mem.stores : IsLow(mem.stores[id].lsn) /\ IsHigh(mem.stores[id].lsn)
    BY OldIsLow, LowsAre, HighsAre
<1>3. CASE mem'.stores = mem.stores /\ mem'.last = mem.last
    BY <1>2, <1>3
<1>4. job.kind = "apply" /\ disk' = disk => IsLow(job.frame.lsn) /\ IsHigh(job.frame.lsn)
    <2> SUFFICES ASSUME job.kind = "apply", disk' = disk PROVE IsLow(job.frame.lsn) /\ IsHigh(job.frame.lsn)
        OBVIOUS
    <2>1. job.frame \in disk.log /\ job.frame.lsn \in Nat /\ mem.last \in Nat /\ mem.last < job.frame.lsn
        BY AppliedIs
    <2>2. mem.last \in Highs
        BY HighsAre
    <2> QED BY <2>1, <2>2 DEF IsLow, IsHigh
<1>5. CASE CreateAgain
    <2>1. job.kind = "apply" /\ disk' = disk /\ mem'.stores = mem.stores
          /\ mem'.last = Max({mem.last, job.frame.lsn})
        BY <1>0, <1>5, CreateAgainDoes DEF Creating, SameStores
    <2> QED BY <1>2, <1>4, <2>1, AppliedIs
<1>6. CASE ApplyInsert /\ ApplyInsertWrites
    <2> DEFINE at == job.frame.config.id
    <2>1. /\ job.kind = "apply" /\ disk' = disk /\ mem'.last = Max({mem.last, job.frame.lsn})
          /\ DOMAIN mem'.stores = DOMAIN mem.stores
          /\ \A id \in DOMAIN mem.stores : id # at => mem'.stores[id] = mem.stores[id]
          /\ \/ mem'.stores[at] = mem.stores[at]
             \/ mem'.stores[at] = [shape |-> mem.stores[at].shape, lsn |-> Max({mem.stores[at].lsn, job.frame.lsn}),
                                   rows |-> mem.stores[at].rows \cup {job.frame.lsn}]
        BY <1>6 DEF ApplyInsert, Applying, ApplyInsertWrites
    <2>2. mem'.last = job.frame.lsn
        BY <2>1, AppliedIs
    <2>3. ASSUME NEW id \in DOMAIN mem'.stores
          PROVE  IsLow(mem'.stores[id].lsn) /\ IsHigh(mem'.stores[id].lsn)
        <3>1. CASE mem'.stores[id] = mem.stores[id]
            BY <1>2, <2>1, <3>1
        <3>2. CASE id = at /\ mem'.stores[at] = [shape |-> mem.stores[at].shape,
                    lsn |-> Max({mem.stores[at].lsn, job.frame.lsn}), rows |-> mem.stores[at].rows \cup {job.frame.lsn}]
            <4>1. mem'.stores[id].lsn = Max({mem.stores[at].lsn, job.frame.lsn})
                BY <3>2
            <4>2. mem.stores[at].lsn \in Nat /\ job.frame.lsn \in Nat
                BY <1>0, <2>1, <3>2, AppliedIs DEF MemInv, IsStore
            <4>3. PICK n : n = mem'.stores[id].lsn
                OBVIOUS
            <4>4. n = mem.stores[at].lsn \/ n = job.frame.lsn
                BY <4>1, <4>2, <4>3, MaxOfTwo
            <4> QED BY <1>2, <1>4, <2>1, <3>2, <4>3, <4>4
        <3> QED BY <2>1, <3>1, <3>2
    <2> QED BY <1>4, <2>1, <2>2, <2>3
<1>7. CASE Publish
    <2> DEFINE config == job.frame.config
    <2>1. /\ Creating /\ job.step > 5 /\ disk' = disk /\ mem'.last = Max({mem.last, job.frame.lsn})
          /\ mem'.stores = Entered(mem.stores, config.id, disk.dirs[config.id].store)
        BY <1>0, <1>7, PublishDoes
    <2>2. job.kind = "apply" /\ job.step = 6
        BY <1>0, <2>1 DEF JobInv, Creating
    <2>3. EntersTo(mem.stores, config.id, disk.dirs[config.id].store, mem'.stores)
        BY <2>1, EnteredIs
    <2>4. config.id \in DOMAIN disk.dirs /\ disk.dirs[config.id].kept
        BY <2>1, <2>2 DEF Inv, ApplyInv
    <2>5. config \in Entry.configs
        BY <2>2, WrittenOut DEF Writing
    <2>6. Base(disk.dirs, config.id) = disk.dirs[config.id].store.lsn
        BY <2>4 DEF Base
    <2>7. disk.dirs[config.id].store.lsn \in Lows /\ disk.dirs[config.id].store.lsn \in Highs
        <3>1. disk.dirs[config.id].store.lsn \in Lows
            BY <2>4, LowsAre
        <3>2. Base(disk.dirs, config.id) \in Highs
            BY <2>5, HighsAre
        <3> QED BY <2>6, <3>1, <3>2
    <2>8. IsLow(disk.dirs[config.id].store.lsn) /\ IsHigh(disk.dirs[config.id].store.lsn)
        BY <2>7, OldIsLow
    <2>9. ASSUME NEW id \in DOMAIN mem'.stores
          PROVE  IsLow(mem'.stores[id].lsn) /\ IsHigh(mem'.stores[id].lsn)
        BY <1>2, <2>3, <2>8 DEF EntersTo
    <2>10. mem'.last = job.frame.lsn
        BY <2>1, <2>2, AppliedIs
    <2> QED BY <1>4, <2>1, <2>2, <2>9, <2>10
<1>8. CASE CreateStores /\ CreateStoresMakes
    BY <1>2, <1>8 DEF CreateStoresMakes
<1>9. mem' = mem => mem'.stores = mem.stores /\ mem'.last = mem.last
    OBVIOUS
<1>10. SameStores => mem'.stores = mem.stores
    BY DEF SameStores
<1>11. CASE \/ LogFrame \/ LogFails \/ StartCheckpoint \/ CreateEntry \/ WriteCatalog \/ SaveStores
            \/ Truncate \/ Replay \/ Ready \/ Fails
    <2>1. mem'.stores = mem.stores /\ mem'.last = mem.last
        BY <1>0, <1>9, <1>10, <1>11, LogFrameDoes, LogFailsDoes, StartCheckpointDoes, CreateEntryDoes,
           WriteCatalogDoes, SaveStoresDoes, TruncateDoes, ReplayDoes, ReadyDoes, StoresAre
           DEF ReplayReads, Fails
    <2> QED BY <1>3, <2>1
<1> QED BY <1>5, <1>6, <1>7, <1>8, <1>11 DEF Continues

LEMMA CoverTruncate ==
    ASSUME Inv, OneKindOfFailure, Truncate
    PROVE  CoverInv'
<1>0. TypeInv /\ JobInv /\ Lows \subseteq Nat /\ Highs \subseteq Nat
    BY LsnsAreNat DEF Inv
<1>1. /\ job.kind = "checkpoint" /\ job.step > 5 /\ phase' = phase /\ mem' = mem
      /\ SameContents /\ disk'.dirs = disk.dirs
      /\ disk'.log = Above(disk.log, Min({mem.stores[id].lsn : id \in DOMAIN mem.stores} \cup {Watermark(mem)}))
    BY <1>0, TruncateDoes DEF SameCatalog, SameContents, SameDirs
<1>2. Loaded /\ ~mem.poisoned /\ job.step = 6 /\ phase \in {"up", "closing"}
    BY <1>0, <1>1, Phases DEF JobInv, Inv, CheckpointInv
<1>3. Watermark(mem) = mem.last
    BY <1>2 DEF Inv, MemInv, Watermark
<1> DEFINE lsns == {mem.stores[id].lsn : id \in DOMAIN mem.stores} \cup {mem.last}
<1>4. disk'.log = Above(disk.log, Min(lsns))
    BY <1>1, <1>3
<1>5. lsns \subseteq Nat /\ lsns # {}
    BY <1>0, <1>2, LowsAre
<1> HIDE DEF lsns
<1>6. Min(lsns) \in Nat /\ \A l \in lsns : Min(lsns) <= l
    BY <1>5, MinIsLeast
<1>7. Entry' = Entry /\ Flushed' = Flushed /\ Loaded'
    BY <1>1, <1>2, SameEntries DEF Loaded
<1>8. Lows' = Lows /\ Highs' = Highs
    <2>1. \A l : l \in Lows' <=> l \in Lows
        BY <1>1, <1>2, <1>7, LowsAre
    <2>2. \A l : l \in Highs' <=> l \in Highs
        BY <1>1, <1>2, <1>7, HighsAre
    <2> QED BY <2>1, <2>2 DEF Lows, Highs
<1>9. ASSUME NEW m \in Highs PROVE Min(lsns) <= m
    <2>1. Flushed = Entry /\ Entry.configs = mem.registry /\ Entry.lsn = mem.last
        BY <1>1, <1>2, WrittenOut DEF Writing
    <2>2. CASE m = mem.last \/ \E id \in DOMAIN mem.stores : m = mem.stores[id].lsn
        <3>1. m \in lsns
            BY <2>2 DEF lsns
        <3> QED BY <1>6, <3>1
    <2>3. CASE \E c \in Entry.configs : m = Base(disk.dirs, c.id)
        <3>1. PICK c \in mem.registry : m = Base(disk.dirs, c.id)
            BY <2>1, <2>3
        <3>2. c.id \in DOMAIN mem.stores /\ c.id \in DOMAIN disk.dirs
            BY <1>2, <3>1 DEF Inv, MemInv, Ids
        <3>3. job.left = {}
            BY <1>1, <1>2 DEF Inv, CheckpointInv
        <3>4. disk.dirs[c.id].store = mem.stores[c.id] /\ disk.dirs[c.id].kept
            BY <1>1, <1>2, <3>2, <3>3 DEF Inv, CheckpointInv
        <3>5. m = mem.stores[c.id].lsn
            BY <3>1, <3>2, <3>4 DEF Base
        <3> QED BY <2>2, <3>2, <3>5
    <2> QED BY <2>1, <2>2, <2>3, HighsAre
<1>10. ASSUME NEW l \in Lows, NEW m \in Highs PROVE Above0(disk'.log, l, m)
    <2>1. Above0(disk.log, l, m)
        BY CoverIs DEF Inv
    <2>2. l \in Nat /\ m \in Nat
        BY <1>0
    <2>3. CASE l <= m
        BY <2>3 DEF Above0
    <2>4. CASE \E f \in disk.log : l <= f.lsn
        <3>1. PICK f \in disk.log : l <= f.lsn
            BY <2>4
        <3>2. f.lsn \in Nat
            BY DEF Inv, LogInv, LogOK, IsFrame
        <3>3. CASE f.lsn > Min(lsns)
            BY <1>4, <3>1, <3>3 DEF Above, Above0
        <3>4. CASE ~(f.lsn > Min(lsns))
            <4>1. PICK k, n : k = Min(lsns) /\ n = f.lsn
                OBVIOUS
            <4>2. l <= n /\ ~(n > k) /\ k <= m /\ k \in Nat /\ n \in Nat
                BY <1>6, <1>9, <3>1, <3>2, <3>4, <4>1
            <4>3. l <= m
                BY <2>2, <4>2
            <4> QED BY <4>3 DEF Above0
        <3> QED BY <3>3, <3>4
    <2> QED BY <2>1, <2>3, <2>4 DEF Above0
<1> QED BY <1>8, <1>10, CoverIs

LEMMA CoverWrite ==
    ASSUME Inv, OneKindOfFailure, WriteCatalog, job.step = 4, LogInv', FileInv', DirInv', MemInv'
    PROVE  CoverInv'
<1>0. TypeInv /\ JobInv /\ Lows \subseteq Nat /\ Highs \subseteq Nat /\ Lows' \subseteq Nat /\ Highs' \subseteq Nat
    BY LsnsAreNat DEF Inv
<1>1. /\ phase' = phase /\ mem' = mem /\ disk'.log = disk.log /\ disk'.dirs = disk.dirs /\ job'.kind = job.kind
    BY <1>0, WriteCatalogDoes, StoresAre DEF SameLog, SameDirs
<1>2. Flushed' = Flushed /\ (Loaded' <=> Loaded)
    BY <1>1, WriteEntries DEF Loaded
<1>3. PICK configs : Writing(configs) /\ Entry'.configs = configs /\ Entry'.lsn = mem.last
    BY WriteEntries
<1>4. CASE job.kind = "apply"
    <2>1. Loaded /\ job.frame \in disk.log /\ job.frame.lsn \in Nat /\ mem.last \in Nat /\ mem.last < job.frame.lsn
        BY <1>4, Phases, AppliedIs
    <2>2. mem.last \in Lows /\ mem.last \in Highs
        BY <2>1, LowsAre, HighsAre
    <2>3. Lows' \subseteq Lows
        BY <1>1, <1>2, <1>3, <2>1, <2>2, LowsAre
    <2>4. ASSUME NEW l \in Lows PROVE \E f \in disk.log : l <= f.lsn
        <3>1. Above0(disk.log, l, mem.last) /\ l \in Nat
            BY <1>0, <2>2, CoverIs DEF Inv
        <3>2. CASE l <= mem.last
            BY <2>1, <3>1, <3>2
        <3> QED BY <3>1, <3>2 DEF Above0
    <2> QED BY <1>1, <2>3, <2>4, CoverIs DEF Above0
<1>5. CASE job.kind = "checkpoint"
    <2>1. Loaded /\ configs = mem.registry
        BY <1>3, <1>5, Phases DEF Writing
    <2>2. configs \subseteq Entry.configs
        BY <2>1 DEF Inv, MemInv
    <2>3. Lows' \subseteq Lows
        BY <1>1, <1>2, <1>3, <2>1, LowsAre
    <2>4. Highs' \subseteq Highs
        BY <1>1, <1>2, <1>3, <2>1, <2>2, HighsAre
    <2> QED BY <1>1, <2>3, <2>4, OldIsLow, CoverFollows
<1>6. CASE job.kind = "register"
    <2>1. Fresh /\ mem.last = 0 /\ ~disk.catalog.entry.there /\ phase = "opening"
        BY <1>6 DEF Inv, RegisterInv
    <2>2. ~disk.catalog.flushed.there
        BY <2>1 DEF Inv, FileInv
    <2>3. Entry.lsn = 0 /\ Flushed.lsn = 0
        BY <2>1, <2>2, BothThere
    <2>4. ~Loaded
        BY <1>6, <2>1 DEF Loaded
    <2>5. DOMAIN disk.dirs = {}
        BY <2>1 DEF Fresh
    <2>6. \A l \in Lows' : l = 0
        BY <1>1, <1>2, <1>3, <2>1, <2>3, <2>4, <2>5, LowsAre
    <2>7. 0 \in Highs
        BY <2>3, HighsAre
    <2>8. \A m \in Highs' : IsHigh(m)
        BY <1>0, <2>7 DEF IsHigh
    <2>9. \A l \in Lows' : IsLow(l)
        BY <2>6 DEF IsLow
    <2> QED BY <1>1, <2>8, <2>9, CoverFollows
<1>7. job.kind # "none"
    <2>1. job.kind = "none" => job.step = 0
        BY IdleFields, <1>0 DEF JobInv
    <2> QED BY <2>1
<1> QED BY <1>0, <1>4, <1>5, <1>6, <1>7 DEF JobInv

LEMMA CoverStep ==
    ASSUME Inv, OneKindOfFailure, Works
    PROVE  CoverInv'
<1>0. TypeInv
    BY DEF Inv
<1>1. LogInv' /\ FileInv' /\ DirInv' /\ MemInv'
    BY LogStep, FileStep, DirStep, MemStep
<1>2. CASE Truncate
    BY <1>2, CoverTruncate
<1>3. CASE WriteCatalog /\ job.step = 4
    BY <1>1, <1>3, CoverWrite
<1>4. CASE ~Truncate /\ ~(WriteCatalog /\ job.step = 4)
    <2>1. disk.log \subseteq disk'.log
        BY <1>0, <1>4, WhatMoves, LogFrameDoes, LogFailsDoes DEF SameLog
    <2>2. Entry' \in {Entry, Flushed} /\ Flushed' \in {Entry, Flushed}
        BY <1>4, EntriesMove
    <2>3. IsLow(Entry'.lsn) /\ IsLow(Flushed'.lsn) /\ IsHigh(Entry'.lsn) /\ IsHigh(Flushed'.lsn)
        <3>1. Entry.lsn \in Lows /\ Flushed.lsn \in Lows /\ Entry.lsn \in Highs /\ Flushed.lsn \in Highs
            BY LowsAre, HighsAre
        <3>2. IsLow(Entry.lsn) /\ IsLow(Flushed.lsn) /\ IsHigh(Entry.lsn) /\ IsHigh(Flushed.lsn)
            BY <3>1, OldIsLow
        <3> QED BY <2>2, <3>2
    <2>4. ASSUME NEW l \in Lows' PROVE IsLow(l)
        BY <2>3, <2>4, LowsAre, DirsCover, MemCovers
    <2>5. ASSUME NEW c \in Entry'.configs \cup Flushed'.configs PROVE IsHigh(Base(disk'.dirs, c.id))
        <3>1. c \in Entry.configs \cup Flushed.configs
            BY <2>2, <2>5
        <3>2. Base(disk.dirs, c.id) \in Highs
            BY <3>1, HighsAre
        <3>3. Base(disk.dirs, c.id) <= Base(disk'.dirs, c.id)
            BY DirsCover
        <3> QED BY <3>2, <3>3 DEF IsHigh
    <2>6. ASSUME NEW m \in Highs' PROVE IsHigh(m)
        BY <2>3, <2>5, <2>6, HighsAre, MemCovers
    <2> QED BY <1>1, <2>1, <2>4, <2>6, CoverFollows
<1> QED BY <1>2, <1>3, <1>4
-----------------------------------------------------------------------------
(* What the commit thread is at.                                           *)
LEMMA JobMoves ==
    ASSUME Inv, OneKindOfFailure, Works
    PROVE  \/ job' = Idle
           \/ LogFrame \/ Replay \/ (CreateStores /\ CreateStoresMakes) \/ CreateEntry \/ WriteCatalog
           \/ StartCheckpoint \/ SaveStores \/ MakeMissing
           \/ Start /\ \E supplied \in Openings : StartRegisters(supplied)
<1>0. TypeInv
    BY DEF Inv
<1>1. CASE ApplyInsert
    <2>1. job.kind \in {"apply", "checkpoint"}
        BY <1>1 DEF ApplyInsert, Applying
    <2> QED BY <1>0, <1>1, <2>1, ApplyInsertDoes, BrokenDoes, StoresAre DEF ApplyInsertMisses, ApplyInsertWrites
<1>2. CASE CreateStores
    BY <1>0, <1>2, CreateStoresDoes, BrokenDoes DEF CreateStoresMisses
<1>3. CASE Start
    BY <1>0, <1>3, StartDoes, StoresAre DEF StartRefuses, StartFails
<1>4. CASE OpenStores
    BY <1>0, <1>4, OpenStoresDoes DEF OpenStoresOpens
<1>5. CASE LogFails \/ CreateAgain \/ Publish \/ Truncate
    BY <1>0, <1>5, LogFailsDoes, CreateAgainDoes, PublishDoes, TruncateDoes
<1>6. CASE StepFails
    BY <1>0, <1>6, StepFailsDoes, BrokenDoes
<1>7. CASE Ready \/ Shutdown \/ Kill
    BY <1>0, <1>7, ReadyDoes DEF Shutdown, Kill
<1> QED BY <1>1, <1>2, <1>3, <1>4, <1>5, <1>6, <1>7 DEF Works

LEMMA JobBroken ==
    ASSUME Inv, NEW how \in {"failed", "refused"}, Broken(how), job.kind # "none"
    PROVE  JobInv'
<1>0. TypeInv /\ JobInv
    BY DEF Inv
<1>1. job' = Idle /\ job'.kind = "none" /\ job'.step = 0 /\ job'.from = "none"
    BY <1>0, BrokenDoes, IdleFields
<1>2. phase \notin {"down", "failed", "refused"}
    BY <1>0, IdleFields DEF JobInv
<1>3. CASE phase = "opening"
    BY <1>0, <1>1, <1>3, BrokenDoes, NoMemoryFields DEF JobInv
<1>4. CASE phase # "opening"
    <2>1. phase' = phase
        BY <1>0, <1>4, BrokenDoes
    <2>2. phase' \in {"up", "closing"}
        BY <1>0, <1>2, <1>4, <2>1 DEF JobInv
    <2> QED BY <1>1, <2>2 DEF JobInv
<1> QED BY <1>3, <1>4

LEMMA JobStep ==
    ASSUME Inv, OneKindOfFailure, Works
    PROVE  JobInv'
<1>0. TypeInv /\ JobInv
    BY DEF Inv
<1>1. job.kind \in {"apply", "checkpoint", "register"} => ~mem.poisoned /\ phase \notin {"down", "failed", "refused"}
    BY <1>0, IdleFields DEF JobInv
<1>2. job' = Idle => job'.kind = "none" /\ job'.step = 0 /\ job'.from = "none"
    BY IdleFields
<1>3. CASE LogFrame
    <2>1. job'.kind = "apply" /\ job'.step = 0 /\ job'.from = Asked.from
        BY <1>0, <1>3, LogFrameDoes, JobFields
    <2> QED BY <1>0, <1>3, <2>1, LogFrameDoes DEF JobInv, SameFlags
<1>4. CASE LogFails
    BY <1>0, <1>2, <1>4, LogFailsDoes DEF JobInv, SameFlags
<1>5. CASE StartCheckpoint
    BY <1>0, <1>5, StartCheckpointDoes DEF JobInv, SavingDoes
<1>6. CASE ApplyInsert
    <2>1. job.kind = "apply"
        BY <1>6 DEF ApplyInsert, Applying
    <2>2. CASE ApplyInsertMisses
        BY <2>1, <2>2, JobBroken DEF ApplyInsertMisses
    <2>3. CASE ApplyInsertWrites
        BY <1>0, <1>1, <1>2, <2>1, <2>3 DEF ApplyInsertWrites, JobInv, SameFlags
    <2> QED BY <1>0, <1>6, <2>1, <2>2, <2>3, ApplyInsertDoes, StoresAre
<1>7. CASE CreateAgain
    BY <1>0, <1>1, <1>2, <1>7, CreateAgainDoes DEF JobInv, SameFlags, Creating
<1>8. CASE CreateStores
    <2>1. CASE CreateStoresMisses
        BY <2>1, JobBroken DEF CreateStoresMisses, Creating
    <2>2. CASE CreateStoresMakes
        BY <1>0, <1>1, <2>2 DEF CreateStoresMakes, Creating, JobInv, SameFlags
    <2> QED BY <1>0, <1>8, <2>1, <2>2, CreateStoresDoes
<1>9. CASE CreateEntry
    BY <1>0, <1>1, <1>9, CreateEntryDoes DEF Creating, JobInv
<1>10. CASE Publish
    BY <1>0, <1>1, <1>2, <1>10, PublishDoes DEF JobInv, SameFlags, Creating
<1>11. CASE WriteCatalog
    <2>1. job.step \in 1 .. 5 /\ UNCHANGED <<phase, mem>> /\ UNCHANGED <<job.kind, job.from>> /\ job'.step = job.step + 1
        BY <1>0, <1>11, WriteCatalogDoes, StoresAre
    <2>2. job.kind # "none"
        BY <1>0, <2>1, IdleFields DEF JobInv
    <2>3. job.kind \in {"apply", "checkpoint", "register"} /\ job'.step \in 0 .. 6
        BY <1>0, <2>1, <2>2 DEF JobInv
    <2> QED BY <1>0, <1>1, <2>1, <2>3 DEF JobInv
<1>12. CASE StepFails
    BY <1>0, <1>12, StepFailsDoes, JobBroken
<1>13. CASE SaveStores
    <2>1. PICK left : SavingDoes(left)
        BY <1>13, SavedIs
    <2>2. job.kind = "checkpoint" /\ phase' = phase /\ mem' = mem
        BY <1>0, <1>13, SaveStoresDoes
    <2> QED BY <1>0, <1>1, <2>1, <2>2 DEF JobInv, SavingDoes
<1>14. CASE Truncate
    BY <1>0, <1>1, <1>2, <1>14, TruncateDoes DEF JobInv
<1>15. CASE Start
    <2>1. phase \in {"down", "failed", "refused"} /\ job = Idle /\ mem = NoMemory
        BY <1>0, <1>15, StartDoes, StoresAre DEF JobInv
    <2>2. CASE StartRefuses \/ StartFails
        BY <1>0, <1>2, <2>1, <2>2 DEF JobInv, StartRefuses, StartFails
    <2>3. CASE \E supplied \in Openings : StartRegisters(supplied)
        <3>1. PICK supplied \in Openings : StartRegisters(supplied)
            BY <2>3
        <3>2. phase' = "opening" /\ mem'.poisoned = FALSE /\ job'.kind = "register" /\ job'.from = "none"
              /\ job'.step \in {1, 6}
            BY <3>1 DEF StartRegisters
        <3> QED BY <3>2 DEF JobInv
    <2> QED BY <1>0, <1>15, <2>2, <2>3, StartDoes, StoresAre
<1>16. CASE OpenStores
    <2>1. job.kind = "register" /\ OpenStoresOpens
        BY <1>0, <1>16, OpenStoresDoes
    <2> QED BY <1>0, <1>1, <1>2, <2>1 DEF OpenStoresOpens, JobInv, SameFlags
<1>17. CASE Replay
    <2>1. PICK frame \in disk.log : ReplayReads(frame)
        BY <1>0, <1>17, ReplayDoes
    <2>2. phase = "opening" /\ phase' = phase /\ SameFlags /\ (job' = Idle \/ job' = Job("apply", "none", frame))
        BY <1>0, <1>17, <2>1, ReplayDoes DEF ReplayReads
    <2>3. job' = Idle \/ (job'.kind = "apply" /\ job'.from = "none" /\ job'.step = 0)
        BY <2>2, JobFields
    <2> QED BY <1>0, <1>2, <2>2, <2>3 DEF JobInv, SameFlags
<1>18. CASE Ready
    BY <1>0, <1>2, <1>18, ReadyDoes DEF JobInv
<1>19. CASE Shutdown
    BY <1>2, <1>19, ShutdownDoes, NoMemoryFields DEF JobInv
<1>20. CASE Kill
    <2>1. job' = Idle /\ phase' = "down" /\ mem' = NoMemory
        BY <1>20 DEF Kill
    <2> QED BY <1>2, <2>1, NoMemoryFields DEF JobInv
<1>21. CASE MakeMissing
    <2>1. job.kind = "register"
        BY <1>0, <1>21, MakeMissingDoes
    <2>2. CASE MissingMisses
        BY <2>1, <2>2, JobBroken DEF MissingMisses
    <2>3. CASE \E c \in mem.registry : MissingMakes(c)
        BY <1>0, <2>3 DEF MissingMakes, JobInv
    <2> QED BY <1>0, <1>21, <2>2, <2>3, MakeMissingDoes
<1> QED
    BY <1>3, <1>4, <1>5, <1>6, <1>7, <1>8, <1>9, <1>10, <1>11, <1>12, <1>13, <1>14, <1>15,
       <1>16, <1>17, <1>18, <1>19, <1>20, <1>21 DEF Works

\* What the embedder supplies.
LEMMA SuppliedIs ==
    ASSUME NEW supplied \in Openings
    PROVE  IsConfigs(supplied) /\ supplied \subseteq Supplied /\ (OneList => supplied = Supplied)
<1>1. IsFiniteSet(supplied) /\ \A c \in supplied : c.id \in Nat
    BY CatalogAssumption
<1>2. supplied \subseteq Supplied
    BY DEF Supplied
<1>3. \A c \in supplied : c.shape \in Shapes
    BY <1>2 DEF Shapes
<1>4. OneList => Supplied \subseteq supplied
    BY DEF Supplied, OneList
<1> QED BY <1>1, <1>2, <1>3, <1>4 DEF IsConfigs, IsConfig

LEMMA RegisterStarts ==
    ASSUME Inv, OneKindOfFailure, OneList, Start, NEW supplied \in Openings, StartRegisters(supplied)
    PROVE  RegisterInv'
<1>0. TypeInv /\ FileInv /\ RecallInv /\ disk' = disk /\ told' = told
    BY StartDoes, StoresAre DEF Inv
<1> DEFINE registry == Entry.configs \cup supplied
<1>1. /\ Distinct(registry) /\ phase' = "opening"
      /\ mem'.registry = registry /\ mem'.last = Entry.lsn
      /\ mem'.poisoned = FALSE /\ mem'.failed = 0 /\ mem'.read = 0
      /\ job'.kind = "register"
      /\ \/ registry = Entry.configs /\ disk.catalog.entry.there /\ job'.step = 6
         \/ /\ registry # Entry.configs \/ ~disk.catalog.entry.there
            /\ job'.step = 1 /\ job'.bytes = EncodeCatalog(registry, Entry.lsn)
    BY DEF StartRegisters
<1>2. IsConfigs(Entry.configs) /\ IsConfigs(supplied) /\ supplied = Supplied
    BY <1>0, SuppliedIs DEF FileInv, IsContent, Entry
<1>3. IsConfigs(registry)
    BY <1>2, FS_Union DEF IsConfigs
<1>4. disk.catalog.entry.there => Supplied \subseteq Entry.configs
    BY <1>0 DEF RecallInv, RecallOK
<1>5. Entry' = Entry /\ disk'.catalog.entry.there = disk.catalog.entry.there
    BY <1>0 DEF Entry
<1>6. CASE job'.step = 6
    BY <1>1, <1>2, <1>3, <1>5, <1>6 DEF RegisterInv
<1>7. CASE job'.step = 1
    <2>1. ~disk.catalog.entry.there
        BY <1>1, <1>2, <1>4, <1>7
    <2>2. Fresh /\ Entry.configs = {} /\ Entry.lsn = 0
        BY <1>0, <2>1, BothThere DEF RecallInv
    <2>3. Fresh'
        BY <1>0, <2>2 DEF Fresh
    <2>4. registry = Supplied
        BY <1>2, <2>2
    <2> QED BY <1>1, <1>3, <1>5, <1>7, <2>1, <2>2, <2>3, <2>4 DEF RegisterInv
<1> QED BY <1>1, <1>6, <1>7

LEMMA RegisterStep ==
    ASSUME Inv, OneKindOfFailure, OneList, Works
    PROVE  RegisterInv'
<1>0. TypeInv /\ JobInv /\ RegisterInv
    BY DEF Inv
<1>1. CASE Start
    <2>1. CASE \E supplied \in Openings : StartRegisters(supplied)
        BY <1>1, <2>1, RegisterStarts
    <2>2. CASE StartRefuses \/ StartFails
        <3>1. job' = job /\ job = Idle
            BY <1>0, <1>1, <2>2, StartDoes, StoresAre DEF StartRefuses, StartFails
        <3> QED BY <3>1, IdleFields DEF RegisterInv
    <2> QED BY <1>0, <1>1, <2>1, <2>2, StartDoes, StoresAre
<1>2. CASE WriteCatalog /\ job.kind = "register"
    <2>1. /\ job.step \in 1 .. 5 /\ UNCHANGED <<phase, mem, told>> /\ disk'.log = disk.log
          /\ job'.kind = job.kind /\ job'.bytes = job.bytes /\ job'.step = job.step + 1
          /\ job.step # 5 => disk'.dirs = disk.dirs
          /\ job.step = 5 => disk'.dirs = Kept(disk.dirs)
        BY <1>0, <1>2, WriteCatalogDoes, StoresAre DEF SameLog, SameDirs
    <2>2. /\ phase = "opening" /\ Fresh /\ mem.last = 0 /\ mem.registry = Supplied
          /\ job.bytes = EncodeCatalog(mem.registry, mem.last)
          /\ mem.poisoned = FALSE /\ mem.failed = 0 /\ mem.read = 0
          /\ IsConfigs(mem.registry) /\ Distinct(mem.registry) /\ Supplied \subseteq mem.registry
          /\ job.step <= 4 => ~disk.catalog.entry.there
        BY <1>0, <1>2, <2>1 DEF RegisterInv
    <2>3. Fresh'
        <3>1. DOMAIN Kept(disk.dirs) = DOMAIN disk.dirs
            BY DEF Kept
        <3> QED BY <2>1, <2>2, <3>1 DEF Fresh
    <2>4. CASE job.step \in 1 .. 3
        <3>1. disk'.catalog.entry = disk.catalog.entry
            BY <1>2, <2>4, WriteEntries
        <3> QED BY <2>1, <2>2, <2>3, <2>4, <3>1 DEF RegisterInv
    <2>5. CASE job.step = 4
        BY <2>1, <2>2, <2>3, <2>5 DEF RegisterInv
    <2>6. CASE job.step = 5
        <3>1. disk.catalog.entry = Synced(job.bytes)
            BY <2>6, StoresAre DEF StepOK
        <3>2. disk'.catalog.entry = disk.catalog.entry /\ Entry' = Entry
            BY <1>2, <2>6, WriteEntries
        <3>3. Entry.configs = mem.registry /\ Entry.lsn = mem.last
            BY <2>2, <3>1, EncodedIsLoaded DEF Entry
        <3>4. disk'.catalog.entry.there
            BY <3>1, <3>2, SyncedFields
        <3> QED BY <2>1, <2>2, <2>6, <3>2, <3>3, <3>4 DEF RegisterInv
    <2> QED BY <2>1, <2>4, <2>5, <2>6
<1>3. CASE job'.kind # "register"
    BY <1>3 DEF RegisterInv
<1>4. CASE LogFrame
    BY <1>0, <1>3, <1>4, LogFrameDoes, JobFields
<1>5. CASE Replay
    <2>1. PICK frame : job' = Idle \/ job' = Job("apply", "none", frame)
        BY <1>0, <1>5, ReplayDoes DEF ReplayReads
    <2> QED BY <1>3, <2>1, IdleFields, JobFields
<1>6. CASE CreateStores /\ CreateStoresMakes
    BY <1>3, <1>6 DEF CreateStoresMakes, Creating
<1>7. CASE CreateEntry
    BY <1>0, <1>3, <1>7, CreateEntryDoes DEF Creating
<1>8. CASE StartCheckpoint \/ SaveStores
    BY <1>0, <1>3, <1>8, StartCheckpointDoes, SavedIs DEF SavingDoes
<1>9. CASE WriteCatalog /\ job.kind # "register"
    BY <1>0, <1>3, <1>9, WriteCatalogDoes, StoresAre
<1>10. CASE job' = Idle
    BY <1>3, <1>10, IdleFields
<1>11. CASE MakeMissing
    <2>1. job.kind = "register" /\ job.step = 6
        BY <1>0, <1>11, MakeMissingDoes DEF JobInv
    <2>2. CASE MissingMisses
        BY <1>0, <1>10, <2>2, BrokenDoes DEF MissingMisses
    <2>3. ASSUME NEW c \in mem.registry, MissingMakes(c) PROVE RegisterInv'
        <3>1. UNCHANGED <<phase, mem, job, disk.catalog>> /\ Entry' = Entry
            BY <2>3, SameEntries DEF MissingMakes, SameCatalog, SameContents
        <3> QED BY <1>0, <2>1, <3>1 DEF RegisterInv
    <2> QED BY <1>0, <1>11, <2>2, <2>3, MakeMissingDoes
<1> QED BY <1>1, <1>2, <1>4, <1>5, <1>6, <1>7, <1>8, <1>9, <1>10, <1>11, JobMoves

-----------------------------------------------------------------------------
(* The frame that is applied.                                              *)
LEMMA StoresBelowNext ==
    ASSUME Inv, Loaded, phase # "opening"
    PROVE  \A id \in DOMAIN mem.stores : mem.stores[id].lsn < mem.next
<1> SUFFICES ASSUME NEW id \in DOMAIN mem.stores PROVE mem.stores[id].lsn < mem.next
    OBVIOUS
<1>1. /\ mem.last \in Nat /\ mem.next \in Nat /\ mem.last < mem.next /\ IsStore(mem.stores[id])
      /\ \A f \in disk.log : f.lsn < mem.next
    BY DEF Inv, MemInv
<1>2. mem.stores[id].lsn \in Nat /\ \A f \in disk.log : f.lsn \in Nat
    BY <1>1 DEF IsStore, Inv, LogInv, LogOK, IsFrame
<1>3. mem.stores[id].lsn \in Lows /\ mem.last \in Highs
    BY LowsAre, HighsAre
<1>4. Above0(disk.log, mem.stores[id].lsn, mem.last)
    BY <1>3, CoverIs DEF Inv
<1>5. PICK l : l = mem.stores[id].lsn
    OBVIOUS
<1>6. l \in Nat /\ (l <= mem.last \/ \E f \in disk.log : l <= f.lsn)
    BY <1>2, <1>4, <1>5 DEF Above0
<1>7. l < mem.next
    BY <1>1, <1>2, <1>6
<1> QED BY <1>5, <1>7

LEMMA ApplyLogged ==
    ASSUME Inv, OneKindOfFailure, LogFrame
    PROVE  ApplyInv'
<1>0. TypeInv
    BY DEF Inv
<1>1. /\ phase \in {"up", "closing"} /\ phase' = phase /\ job = Idle /\ queue # <<>>
      /\ ~mem.poisoned /\ Asked.kind \in {"create", "insert"}
      /\ disk'.log = disk.log \cup {NewFrame}
      /\ mem'.stores = mem.stores /\ mem'.registry = mem.registry /\ mem'.last = mem.last
      /\ job' = Job("apply", Asked.from, NewFrame)
    BY <1>0, LogFrameDoes DEF SameStores
<1>2. NewFrame.kind = Asked.kind /\ NewFrame.config = Asked.config /\ NewFrame.lsn = mem.next
    BY <1>1, NewFrameIs
<1>3. Loaded /\ phase # "opening" /\ mem.last < mem.next /\ mem.last \in Nat /\ mem.next \in Nat
    BY <1>1, Phases DEF Inv, MemInv
<1>4. job'.frame = NewFrame /\ job'.step = 0 /\ job'.made = FALSE /\ job'.kind = "apply"
    BY <1>1, JobFields
<1>5. Asked.kind = "insert" => Asked.config \in mem.registry
    BY <1>1, AskedIs
<1>6. Asked.kind = "create" => ~Taken(Asked.config)
    BY <1>1, AskedIs
<1>7. NewFrame.kind = "create" => ~(NewFrame.config.id \in DOMAIN mem'.stores \/ NewFrame.config.name \in Called(mem'.registry))
    BY <1>1, <1>2, <1>6 DEF Taken
<1>8. job'.made \in BOOLEAN /\ ~job'.made
    BY <1>4, Zenon
<1>11. ~(job'.step > 0)
    BY <1>4
<1>9. PICK frame : frame = NewFrame
    OBVIOUS
<1>10. /\ frame \in disk'.log /\ frame.lsn > mem'.last /\ job'.frame = frame /\ phase' # "opening"
       /\ \A id \in DOMAIN mem'.stores : mem'.stores[id].lsn < frame.lsn
       /\ frame.kind = "insert" => frame.config \in mem'.registry
       /\ frame.kind = "create" => ~(frame.config.id \in DOMAIN mem'.stores \/ frame.config.name \in Called(mem'.registry))
    BY <1>1, <1>2, <1>3, <1>4, <1>5, <1>7, <1>9, StoresBelowNext
<1> QED BY <1>4, <1>8, <1>10, <1>11 DEF ApplyInv, Creating, Taken

LEMMA ApplyStep ==
    ASSUME Inv, OneKindOfFailure, Works
    PROVE  ApplyInv'
<1>0. TypeInv /\ JobInv /\ ApplyInv
    BY DEF Inv
<1>1. CASE LogFrame
    BY <1>1, ApplyLogged
<1>2. CASE Replay
    <2>1. PICK frame \in disk.log : ReplayReads(frame)
        BY <1>0, <1>2, ReplayDoes
    <2>2. /\ phase = "opening" /\ phase' = phase /\ disk' = disk /\ mem'.last = mem.last /\ mem'.read = frame.lsn
          /\ job' = Idle \/ (job' = Job("apply", "none", frame) /\ ~(frame.lsn <= mem.last))
        BY <1>0, <1>2, <2>1, ReplayDoes DEF ReplayReads
    <2>3. frame.lsn \in Nat
        BY DEF Inv, LogInv, LogOK, IsFrame
    <2>4. Loaded
        BY <1>0, <1>2, Phases, ReplayDoes
    <2>5. mem.last \in Nat
        BY <2>4 DEF Inv, MemInv
    <2>6. CASE job' = Idle
        BY <2>6, IdleFields DEF ApplyInv
    <2>7. CASE job' = Job("apply", "none", frame) /\ ~(frame.lsn <= mem.last)
        <3>1. job'.frame = frame /\ job'.step = 0 /\ job'.made = FALSE
            BY <2>7, JobFields
        <3>2. job'.made \in BOOLEAN /\ ~job'.made
            BY <3>1, Zenon
        <3>4. ~(job'.step > 0)
            BY <3>1
        <3>3. frame.lsn > mem.last
            BY <2>3, <2>5, <2>7
        <3> QED BY <2>2, <3>1, <3>2, <3>3, <3>4 DEF ApplyInv, Creating
    <2> QED BY <2>2, <2>6, <2>7
<1>3. CASE CreateStores /\ CreateStoresMakes
    <2> DEFINE config == job.frame.config
    <2>1. /\ Creating /\ Opens(config) /\ ~Taken(config) /\ job.step = 0 /\ phase' = phase
          /\ disk'.log = disk.log /\ disk'.dirs = Opened(disk.dirs, {config})
          /\ job'.kind = job.kind /\ job'.frame = job.frame /\ job'.step = 0 /\ job'.made = TRUE
          /\ mem'.registry = mem.registry /\ mem'.stores = mem.stores /\ mem'.last = mem.last
          /\ mem'.read = mem.read
          /\ mem'.floors = Entered(mem.floors, config.id, disk'.dirs[config.id].store.lsn)
        BY <1>0, <1>3, CreateStoresDoes DEF CreateStoresMakes, SameLog
    <2>2. OpensTo(disk.dirs, {config}, disk'.dirs)
        BY <2>1, OpenedAre
    <2>3. EntersTo(mem.floors, config.id, disk'.dirs[config.id].store.lsn, mem'.floors)
        BY <2>1, EnteredIs
    <2>4. config.id \in DOMAIN disk'.dirs /\ disk'.dirs[config.id].store.shape = config.shape
        <3>1. config.id \in Ids({config})
            BY DEF Ids
        <3>2. config.id \in DOMAIN disk'.dirs
            BY <2>2, <3>1 DEF OpensTo
        <3>3. CASE config.id \in DOMAIN disk.dirs
            BY <2>1, <2>2, <3>2, <3>3 DEF OpensTo, Opens
        <3>4. CASE config.id \notin DOMAIN disk.dirs
            <4>1. disk'.dirs[config.id] = Unkept(Empty(config.shape))
                BY <2>2, <3>1, <3>4 DEF OpensTo
            <4>2. disk'.dirs[config.id].store = Empty(config.shape)
                BY <4>1, UnkeptFields
            <4> QED BY <3>2, <4>2, EmptyFields
        <3> QED BY <3>3, <3>4
    <2>5. config.id \in DOMAIN mem'.floors /\ mem'.floors[config.id] = disk'.dirs[config.id].store.lsn
        BY <2>3 DEF EntersTo
    <2>6. job.kind = "apply"
        BY <2>1 DEF Creating
    <2>7. ~(config.id \in DOMAIN mem'.stores \/ config.name \in Called(mem'.registry))
        BY <2>1 DEF Taken
    <2>8. job'.made \in BOOLEAN /\ job'.made
        BY <2>1, Zenon
    <2>10. ~(job'.step > 0) /\ job.frame.kind # "insert"
        BY <2>1 DEF Creating
    <2>9. /\ job.frame \in disk.log /\ job.frame.lsn > mem.last
          /\ phase = "opening" => job.frame.lsn = mem.read
          /\ phase # "opening" => \A id \in DOMAIN mem.stores : mem.stores[id].lsn < job.frame.lsn
        BY <1>0, <2>6 DEF ApplyInv
    <2> QED BY <2>1, <2>4, <2>5, <2>7, <2>8, <2>9, <2>10 DEF ApplyInv, Creating, Taken
<1>4. CASE CreateEntry
    <2>1. /\ Creating /\ job.step = 0 /\ job.made /\ UNCHANGED <<phase, mem>>
          /\ disk'.log = disk.log /\ disk'.dirs = Kept(disk.dirs)
          /\ UNCHANGED <<job.kind, job.frame, job.made>> /\ job'.step = 1
          /\ job'.bytes = EncodeCatalog(mem.registry \cup {job.frame.config}, Watermark(mem))
        BY <1>0, <1>4, CreateEntryDoes DEF SameLog
    <2>2. job.kind = "apply" /\ Loaded /\ ~mem.poisoned
        BY <2>1, Phases DEF Creating
    <2>3. Watermark(mem) = mem.last
        BY <2>2 DEF Inv, MemInv, Watermark
    <2>4. PICK dirs, new : dirs = disk.dirs /\ new = disk'.dirs
        OBVIOUS
    <2>5. new = Kept(dirs) /\ \A id \in DOMAIN dirs : IsDir(dirs[id])
        BY <2>1, <2>4, StoresAre
    <2>6. DOMAIN new = DOMAIN dirs /\ \A id \in DOMAIN dirs : new[id].kept = TRUE /\ new[id].store = dirs[id].store
        BY <2>5, KeptIsCarried
    <2>7. job.frame.kind # "insert"
        BY <2>1 DEF Creating
    <2> QED BY <1>0, <2>1, <2>2, <2>3, <2>4, <2>6, <2>7 DEF ApplyInv, Creating, Taken
<1>5. CASE WriteCatalog /\ job.kind = "apply"
    <2>1. /\ job.step \in 1 .. 5 /\ UNCHANGED <<phase, mem>> /\ disk'.log = disk.log
          /\ UNCHANGED <<job.kind, job.frame, job.made, job.bytes>> /\ job'.step = job.step + 1
          /\ job.step # 5 => disk'.dirs = disk.dirs
          /\ job.step = 5 => disk'.dirs = Kept(disk.dirs)
        BY <1>0, <1>5, WriteCatalogDoes, StoresAre DEF SameLog, SameDirs
    <2>2. /\ DOMAIN disk'.dirs = DOMAIN disk.dirs
          /\ \A id \in DOMAIN disk.dirs : disk'.dirs[id].store = disk.dirs[id].store
                                          /\ (disk.dirs[id].kept => disk'.dirs[id].kept)
        <3>1. CASE job.step # 5
            BY <2>1, <3>1
        <3>2. CASE job.step = 5
            <4>1. PICK dirs, new : dirs = disk.dirs /\ new = disk'.dirs
                OBVIOUS
            <4>2. new = Kept(dirs) /\ \A id \in DOMAIN dirs : IsDir(dirs[id])
                BY <2>1, <3>2, <4>1, StoresAre
            <4>3. DOMAIN new = DOMAIN dirs /\ \A id \in DOMAIN dirs : new[id].kept = TRUE /\ new[id].store = dirs[id].store
                BY <4>2, KeptIsCarried
            <4> QED BY <4>1, <4>3
        <3> QED BY <3>1, <3>2
    <2>3. Creating
        <3>1. PICK configs : Writing(configs)
            BY <2>1, WhatIsWritten
        <3> QED BY <1>5, <3>1 DEF Writing
    <2>4. job.frame.kind = "create" /\ job'.step > 0 /\ job.step > 0
        BY <2>1, <2>3 DEF Creating
    <2> QED BY <1>0, <1>5, <2>1, <2>2, <2>3, <2>4 DEF ApplyInv, Creating, Taken
<1>6. CASE job'.kind # "apply"
    BY <1>6 DEF ApplyInv
<1>7. CASE StartCheckpoint \/ SaveStores
    BY <1>0, <1>6, <1>7, StartCheckpointDoes, SavedIs DEF SavingDoes
<1>8. CASE WriteCatalog /\ job.kind # "apply"
    BY <1>0, <1>6, <1>8, WriteCatalogDoes, StoresAre
<1>9. CASE job' = Idle
    BY <1>6, <1>9, IdleFields
<1>10. CASE \E supplied \in Openings : StartRegisters(supplied)
    BY <1>6, <1>10 DEF StartRegisters
<1>11. CASE MakeMissing
    <2>1. job.kind = "register" /\ (job' = Idle \/ job' = job)
        BY <1>0, <1>11, MakeMissingDoes, BrokenDoes DEF MissingMisses, MissingMakes
    <2> QED BY <1>6, <1>9, <2>1
<1> QED BY <1>1, <1>2, <1>3, <1>4, <1>5, <1>7, <1>8, <1>9, <1>10, <1>11, JobMoves

-----------------------------------------------------------------------------
(* The checkpoint that is taken.                                           *)
LEMMA CheckpointStep ==
    ASSUME Inv, OneKindOfFailure, Works
    PROVE  CheckpointInv'
<1>0. TypeInv /\ JobInv /\ CheckpointInv
    BY DEF Inv
<1>1. CASE StartCheckpoint
    <2>1. /\ phase \in {"up", "closing"} /\ phase' = phase /\ ~mem.poisoned /\ disk' = disk /\ mem' = mem
          /\ SavingDoes(DOMAIN mem.stores)
        BY <1>0, <1>1, StartCheckpointDoes
    <2>2. Watermark(mem) = mem.last
        BY <2>1, Phases DEF Inv, MemInv, Watermark
    <2> QED BY <2>1, <2>2 DEF CheckpointInv, SavingDoes
<1>2. CASE SaveStores
    <2>1. PICK id \in job.left :
              /\ job.kind = "checkpoint" /\ id \in DOMAIN mem.stores /\ id \in DOMAIN disk.dirs
              /\ DOMAIN disk'.dirs = DOMAIN disk.dirs
              /\ disk'.dirs[id].store = mem.stores[id] /\ SavingDoes(job.left \ {id})
              /\ \A k \in DOMAIN disk.dirs : k # id => disk'.dirs[k] = disk.dirs[k]
        BY <1>2, SavedIs
    <2>2. mem' = mem /\ phase' = phase
        BY <1>0, <1>2, SaveStoresDoes
    <2>3. Loaded /\ ~mem.poisoned
        BY <2>1, Phases
    <2>4. Watermark(mem) = mem.last /\ DOMAIN mem.stores \subseteq DOMAIN disk.dirs
        BY <2>3 DEF Inv, MemInv, Watermark
    <2>5. /\ phase \in {"up", "closing"} /\ job.left \subseteq DOMAIN mem.stores
          /\ \A k \in DOMAIN mem.stores \ job.left : disk.dirs[k].store = mem.stores[k]
        BY <1>0, <2>1 DEF CheckpointInv
    <2>6. \A k \in DOMAIN mem.stores \ (job.left \ {id}) : disk'.dirs[k].store = mem.stores[k]
        BY <2>1, <2>4, <2>5
    <2>7. /\ job'.left = job.left \ {id}
          /\ job'.left # {} => job'.step = 0
          /\ job'.left = {} => job'.step = 1 /\ job'.bytes = EncodeCatalog(mem.registry, mem.last)
        BY <2>1, <2>4 DEF SavingDoes
    <2> QED BY <2>2, <2>5, <2>6, <2>7 DEF CheckpointInv
<1>3. CASE WriteCatalog /\ job.kind = "checkpoint"
    <2>1. /\ job.step \in 1 .. 5 /\ UNCHANGED <<phase, mem>>
          /\ UNCHANGED <<job.kind, job.left, job.bytes>> /\ job'.step = job.step + 1
          /\ job.step # 5 => disk'.dirs = disk.dirs
          /\ job.step = 5 => disk'.dirs = Kept(disk.dirs)
        BY <1>0, <1>3, WriteCatalogDoes, StoresAre DEF SameDirs
    <2>2. /\ phase \in {"up", "closing"} /\ job.left = {}
          /\ \A id \in DOMAIN mem.stores : disk.dirs[id].store = mem.stores[id]
          /\ job.bytes = EncodeCatalog(mem.registry, mem.last)
        BY <1>0, <1>3, <2>1 DEF CheckpointInv
    <2>3. CASE job.step # 5
        BY <2>1, <2>2, <2>3 DEF CheckpointInv
    <2>4. CASE job.step = 5
        <3>1. PICK dirs, new : dirs = disk.dirs /\ new = disk'.dirs
            OBVIOUS
        <3>2. new = Kept(dirs) /\ \A id \in DOMAIN dirs : IsDir(dirs[id])
            BY <2>1, <2>4, <3>1, StoresAre
        <3>3. DOMAIN new = DOMAIN dirs /\ \A id \in DOMAIN dirs : new[id].kept = TRUE /\ new[id].store = dirs[id].store
            BY <3>2, KeptIsCarried
        <3>4. DOMAIN mem.stores \subseteq DOMAIN disk.dirs
            BY <1>3, Phases DEF Inv, MemInv
        <3>5. \A id \in DOMAIN mem.stores : disk'.dirs[id].store = mem.stores[id]
            BY <2>2, <3>1, <3>3, <3>4
        <3> QED BY <2>1, <2>2, <2>4, <3>1, <3>3, <3>5 DEF CheckpointInv
    <2> QED BY <2>3, <2>4
<1>4. CASE job'.kind # "checkpoint"
    BY <1>4 DEF CheckpointInv
<1>5. CASE LogFrame
    BY <1>0, <1>4, <1>5, LogFrameDoes, JobFields
<1>6. CASE Replay
    <2>1. PICK frame : job' = Idle \/ job' = Job("apply", "none", frame)
        BY <1>0, <1>6, ReplayDoes DEF ReplayReads
    <2> QED BY <1>4, <2>1, IdleFields, JobFields
<1>7. CASE CreateStores /\ CreateStoresMakes
    BY <1>4, <1>7 DEF CreateStoresMakes, Creating
<1>8. CASE CreateEntry
    BY <1>0, <1>4, <1>8, CreateEntryDoes DEF Creating
<1>9. CASE WriteCatalog /\ job.kind # "checkpoint"
    BY <1>0, <1>4, <1>9, WriteCatalogDoes, StoresAre
<1>10. CASE job' = Idle
    BY <1>4, <1>10, IdleFields
<1>11. CASE \E supplied \in Openings : StartRegisters(supplied)
    BY <1>4, <1>11 DEF StartRegisters
<1>12. CASE MakeMissing
    <2>1. job.kind = "register" /\ (job' = Idle \/ job' = job)
        BY <1>0, <1>12, MakeMissingDoes, BrokenDoes DEF MissingMisses, MissingMakes
    <2> QED BY <1>4, <1>10, <2>1
<1> QED BY <1>1, <1>2, <1>3, <1>5, <1>6, <1>7, <1>8, <1>9, <1>10, <1>11, <1>12, JobMoves

-----------------------------------------------------------------------------
(* What the log and the callers expect of a Db that is open or opening.    *)
Expected(k) == k \in mem.registry \/ (phase = "opening" /\ NoFlush /\ Awaited(k))
HomeConfigs ==
    /\ \A f \in disk.log : f.kind = "insert" => Expected(f.config)
    /\ \A i \in told.inserts : Expected(i.config)
    /\ NoFlush => \A f \in disk.log : f.kind = "create" =>
          f.config \in mem.registry \/ (mem.poisoned /\ phase # "opening") \/ Awaited(f.config)
Stays(i) ==
    \/ i.lsn \in mem.stores[i.config.id].rows
    \/ \E f \in disk.log : /\ f = Frame("insert", i.config, i.lsn) /\ phase = "opening"
                           /\ ToCome(f) \/ Doing(f)
                           /\ i.lsn > mem.floors[i.config.id]
HomeRows == \A i \in told.inserts : i.config.id \in DOMAIN mem.stores => Stays(i)

LEMMA HomeParts ==
    /\ HomeInv <=> (Loaded => HomeConfigs /\ HomeRows)
    /\ HomeInv' <=> (Loaded' => HomeConfigs' /\ HomeRows')
BY DEF HomeInv, HomeConfigs, HomeRows, Expected, Stays

\* Once it is open.
LEMMA HomeWhenUp ==
    ASSUME Inv, Loaded, phase # "opening"
    PROVE  /\ \A f \in disk.log : f.kind = "insert" => f.config \in mem.registry
           /\ \A i \in told.inserts :
                 i.config \in mem.registry
                 /\ (i.config.id \in DOMAIN mem.stores => i.lsn \in mem.stores[i.config.id].rows)
           /\ NoFlush => \A f \in disk.log : f.kind = "create" =>
                 f.config \in mem.registry \/ mem.poisoned \/ (Creating /\ f.config = job.frame.config)
<1>1. HomeConfigs /\ HomeRows
    BY HomeParts DEF Inv
<1>2. \A k : Awaited(k) => Creating /\ k = job.frame.config
    BY DEF Awaited, ToCome, Doing, Creating
<1> QED BY <1>1, <1>2 DEF HomeConfigs, HomeRows, Expected, Stays

LEMMA HomeStaysUp ==
    ASSUME phase' # "opening",
           \A f \in disk'.log : f.kind = "insert" => f.config \in mem'.registry,
           \A i \in told'.inserts :
                 i.config \in mem'.registry
                 /\ (i.config.id \in DOMAIN mem'.stores => i.lsn \in mem'.stores[i.config.id].rows),
           NoFlush => \A f \in disk'.log : f.kind = "create" =>
                 \/ f.config \in mem'.registry \/ mem'.poisoned
                 \/ job'.kind = "apply" /\ job'.frame \in disk'.log /\ job'.frame.kind = "create"
                    /\ f.config = job'.frame.config
    PROVE  HomeInv'
<1>1. \A f \in disk'.log : f.kind = "insert" => Expected(f.config)'
    BY DEF Expected
<1>2. \A i \in told'.inserts : Expected(i.config)' /\ (i.config.id \in DOMAIN mem'.stores => Stays(i)')
    BY DEF Expected, Stays
<1>3. NoFlush => \A f \in disk'.log : f.kind = "create" =>
          f.config \in mem'.registry \/ (mem'.poisoned /\ phase' # "opening") \/ Awaited(f.config)'
    BY DEF Awaited, Doing
<1>4. HomeConfigs'
    BY <1>1, <1>2, <1>3 DEF HomeConfigs
<1>5. HomeRows'
    BY <1>2 DEF HomeRows
<1> QED BY <1>4, <1>5, HomeParts

\* The stores, the registry and the callers stay as they are.
LEMMA HomeSame ==
    ASSUME Inv, Loaded, phase # "opening", phase' = phase,
           mem'.registry = mem.registry, mem'.stores = mem.stores, told' = told,
           \A f \in disk'.log : f \in disk.log \/ f.config \in mem.registry
                                \/ (f.kind = "create" /\ job'.kind = "apply" /\ job'.frame = f),
           NoFlush /\ Creating /\ job.frame \in disk.log =>
               mem'.poisoned \/ (job'.kind = "apply" /\ job'.frame = job.frame /\ job.frame \in disk'.log),
           mem.poisoned => mem'.poisoned
    PROVE  HomeInv'
<1>1. \A f \in disk'.log : f.kind = "insert" => f.config \in mem'.registry
    BY HomeWhenUp
<1>2. \A i \in told'.inserts :
                 i.config \in mem'.registry
                 /\ (i.config.id \in DOMAIN mem'.stores => i.lsn \in mem'.stores[i.config.id].rows)
    BY HomeWhenUp
<1>3. Creating => job.frame \in disk.log
    BY DEF Inv, ApplyInv, Creating
<1>4. NoFlush => \A f \in disk'.log : f.kind = "create" =>
                 \/ f.config \in mem'.registry \/ mem'.poisoned
                 \/ job'.kind = "apply" /\ job'.frame \in disk'.log /\ job'.frame.kind = "create"
                    /\ f.config = job'.frame.config
    <2> SUFFICES ASSUME NoFlush, NEW f \in disk'.log, f.kind = "create", f.config \notin mem'.registry,
                        ~mem'.poisoned
                 PROVE  job'.kind = "apply" /\ job'.frame \in disk'.log /\ job'.frame.kind = "create"
                        /\ f.config = job'.frame.config
        OBVIOUS
    <2>1. CASE f \in disk.log
        <3>1. Creating /\ f.config = job.frame.config
            BY <2>1, HomeWhenUp
        <3> QED BY <1>3, <3>1 DEF Creating
    <2>2. CASE f \notin disk.log
        BY <2>2
    <2> QED BY <2>1, <2>2
<1> QED BY <1>1, <1>2, <1>4, HomeStaysUp

LEMMA HomePublishes ==
    ASSUME Inv, Publish, phase # "opening"
    PROVE  HomeInv'
<1> DEFINE config == job.frame.config
<1>1. /\ Creating /\ job.step > 5 /\ phase' = phase /\ disk' = disk /\ told'.inserts = told.inserts
      /\ mem'.registry = mem.registry \cup {config}
      /\ mem'.stores = Entered(mem.stores, config.id, disk.dirs[config.id].store)
    BY PublishDoes DEF Inv
<1>2. Loaded /\ ~Taken(config) /\ ~mem.poisoned
    BY <1>1, Phases DEF Inv, ApplyInv, Creating
<1>3. EntersTo(mem.stores, config.id, disk.dirs[config.id].store, mem'.stores)
    BY <1>1, EnteredIs
<1>4. DOMAIN mem.stores = Ids(mem.registry)
    BY <1>2 DEF Inv, MemInv
<1>5. ASSUME NEW i \in told'.inserts
      PROVE  i.config \in mem'.registry
             /\ (i.config.id \in DOMAIN mem'.stores => i.lsn \in mem'.stores[i.config.id].rows)
    <2>1. i.config \in mem.registry
          /\ (i.config.id \in DOMAIN mem.stores => i.lsn \in mem.stores[i.config.id].rows)
        BY <1>1, <1>2, HomeWhenUp
    <2>2. i.config.id \in DOMAIN mem.stores /\ i.config.id # config.id
        BY <1>2, <1>4, <2>1 DEF Ids, Taken
    <2> QED BY <1>1, <1>3, <2>1, <2>2 DEF EntersTo
<1>6. \A f \in disk'.log : f.kind = "insert" => f.config \in mem'.registry
    BY <1>1, <1>2, HomeWhenUp
<1>7. NoFlush => \A f \in disk'.log : f.kind = "create" => f.config \in mem'.registry
    BY <1>1, <1>2, HomeWhenUp
<1> QED BY <1>1, <1>5, <1>6, <1>7, HomeStaysUp

LEMMA HomeInserts ==
    ASSUME Inv, ApplyInsert, ApplyInsertWrites, phase # "opening"
    PROVE  HomeInv'
<1> DEFINE config == job.frame.config
           lsn == job.frame.lsn
<1>1. /\ job.kind = "apply" /\ job.frame.kind = "insert" /\ config.id \in DOMAIN mem.stores
      /\ phase' = phase /\ disk' = disk
      /\ mem'.registry = mem.registry /\ DOMAIN mem'.stores = DOMAIN mem.stores
      /\ \A id \in DOMAIN mem.stores : id # config.id => mem'.stores[id] = mem.stores[id]
      /\ ~(lsn <= mem.floors[config.id]) => mem'.stores[config.id].rows = mem.stores[config.id].rows \cup {lsn}
      /\ told'.inserts \in {told.inserts, told.inserts \cup {[config |-> config, lsn |-> lsn]}}
    BY DEF ApplyInsertWrites, Applying
<1>2. Loaded /\ ~mem.poisoned
    BY <1>1, Phases
<1>3. config \in mem.registry /\ mem.stores[config.id].lsn < lsn /\ lsn \in Nat
    BY <1>1, AppliedIs DEF Inv, ApplyInv
<1>4. mem.floors[config.id] \in Nat /\ mem.stores[config.id].lsn \in Nat /\ mem.floors[config.id] <= mem.stores[config.id].lsn
    BY <1>1, <1>2 DEF Inv, MemInv, IsStore
<1>5. mem'.stores[config.id].rows = mem.stores[config.id].rows \cup {lsn}
    <2>1. PICK a, b : a = mem.floors[config.id] /\ b = mem.stores[config.id].lsn
        OBVIOUS
    <2>2. ~(lsn <= a)
        BY <1>3, <1>4, <2>1
    <2> QED BY <1>1, <2>1, <2>2
<1>6. ASSUME NEW i \in told'.inserts
      PROVE  i.config \in mem'.registry
             /\ (i.config.id \in DOMAIN mem'.stores => i.lsn \in mem'.stores[i.config.id].rows)
    <2>1. CASE i \in told.inserts
        <3>1. i.config \in mem.registry
              /\ (i.config.id \in DOMAIN mem.stores => i.lsn \in mem.stores[i.config.id].rows)
            BY <1>2, <2>1, HomeWhenUp
        <3> QED BY <1>1, <1>5, <3>1
    <2>2. CASE i = [config |-> config, lsn |-> lsn]
        <3>1. i.config = config /\ i.lsn = lsn
            BY <2>2
        <3> QED BY <1>1, <1>3, <1>5, <3>1
    <2> QED BY <1>1, <2>1, <2>2
<1>7. ~Creating
    BY <1>1 DEF Creating
<1>8. \A f \in disk'.log : f.kind = "insert" => f.config \in mem'.registry
    BY <1>1, <1>2, HomeWhenUp
<1>9. NoFlush => \A f \in disk'.log : f.kind = "create" => f.config \in mem'.registry
    BY <1>1, <1>2, <1>7, HomeWhenUp
<1> QED BY <1>1, <1>6, <1>8, <1>9, HomeStaysUp

LEMMA HomeUp ==
    ASSUME Inv, OneKindOfFailure, Loaded, Continues, phase # "opening"
    PROVE  HomeInv'
<1>0. TypeInv /\ JobInv /\ RegisterInv
    BY DEF Inv
<1>1. CASE LogFrame
    <2>1. /\ phase \in {"up", "closing"} /\ phase' = phase /\ job = Idle /\ queue # <<>> /\ ~mem.poisoned
          /\ Asked.kind \in {"create", "insert"} /\ disk'.log = disk.log \cup {NewFrame}
          /\ mem'.registry = mem.registry /\ mem'.stores = mem.stores /\ told' = told
          /\ mem'.poisoned = mem.poisoned /\ job' = Job("apply", Asked.from, NewFrame)
        BY <1>0, <1>1, LogFrameDoes DEF SameStores, SameFlags
    <2>2. job'.kind = "apply" /\ job'.frame = NewFrame
        BY <2>1, JobFields
    <2>3. NewFrame.kind = Asked.kind /\ NewFrame.config = Asked.config
        BY <2>1, NewFrameIs
    <2>4. Asked.kind = "insert" => Asked.config \in mem.registry
        BY <2>1, AskedIs
    <2>5. ~Creating
        BY <2>1, IdleFields DEF Creating
    <2> QED BY <2>1, <2>2, <2>3, <2>4, <2>5, HomeSame
<1>2. CASE LogFails
    <2>1. /\ phase \in {"up", "closing"} /\ phase' = phase /\ job = Idle /\ queue # <<>> /\ ~mem.poisoned
          /\ Asked.kind \in {"create", "insert"} /\ ~NoFlush
          /\ disk'.log = disk.log \/ disk'.log = disk.log \cup {NewFrame}
          /\ mem'.registry = mem.registry /\ mem'.stores = mem.stores /\ told' = told
        BY <1>0, <1>2, LogFailsDoes DEF SameStores, SameLog, NoFlush
    <2>3. NewFrame.kind = Asked.kind /\ NewFrame.config = Asked.config
        BY <2>1, NewFrameIs
    <2>4. Asked.kind = "insert" => Asked.config \in mem.registry
        BY <2>1, AskedIs
    <2>5. \A f \in disk'.log : f.kind = "insert" => f.config \in mem'.registry
        BY <2>1, <2>3, <2>4, HomeWhenUp
    <2> QED BY <2>1, <2>5, HomeWhenUp, HomeStaysUp
<1>3. CASE StartCheckpoint
    <2>1. phase' = phase /\ disk' = disk /\ mem' = mem /\ told' = told /\ job = Idle
        BY <1>0, <1>3, StartCheckpointDoes
    <2>2. ~Creating
        BY <2>1, IdleFields DEF Creating
    <2> QED BY <2>1, <2>2, HomeSame
<1>4. CASE ApplyInsert /\ ApplyInsertWrites
    BY <1>4, HomeInserts
<1>5. CASE CreateAgain
    <2>1. Creating /\ Taken(job.frame.config)
        BY <1>0, <1>5, CreateAgainDoes
    <2> QED BY <2>1 DEF Inv, ApplyInv, Creating
<1>6. CASE CreateStores /\ CreateStoresMakes
    <2>1. /\ phase' = phase /\ disk'.log = disk.log /\ told' = told /\ mem'.registry = mem.registry
          /\ mem'.stores = mem.stores /\ mem'.poisoned = mem.poisoned
          /\ job'.kind = job.kind /\ job'.frame = job.frame
        BY <1>6 DEF CreateStoresMakes, SameLog, SameFlags
    <2> QED BY <2>1, HomeSame DEF Creating
<1>7. CASE CreateEntry
    <2>1. /\ phase' = phase /\ disk'.log = disk.log /\ told' = told /\ mem' = mem
          /\ job'.kind = job.kind /\ job'.frame = job.frame
        BY <1>0, <1>7, CreateEntryDoes DEF SameLog
    <2> QED BY <2>1, HomeSame DEF Creating
<1>8. CASE Publish
    BY <1>8, HomePublishes
<1>9. CASE WriteCatalog
    <2>1. /\ phase' = phase /\ disk'.log = disk.log /\ told' = told /\ mem' = mem
          /\ job'.kind = job.kind /\ job'.frame = job.frame
        BY <1>0, <1>9, WriteCatalogDoes, StoresAre DEF SameLog
    <2> QED BY <2>1, HomeSame DEF Creating
<1>10. CASE SaveStores
    <2>1. /\ phase' = phase /\ disk'.log = disk.log /\ told' = told /\ mem' = mem /\ job.kind = "checkpoint"
        BY <1>0, <1>10, SaveStoresDoes DEF SameLog
    <2> QED BY <2>1, HomeSame DEF Creating
<1>11. CASE Truncate
    <2>1. /\ phase' = phase /\ disk'.log \subseteq disk.log /\ told' = told /\ mem' = mem /\ job.kind = "checkpoint"
        BY <1>0, <1>11, TruncateDoes DEF Above
    <2> QED BY <2>1, HomeSame DEF Creating
<1>12. CASE Replay \/ Ready
    BY <1>0, <1>12, ReplayDoes, ReadyDoes
<1>13. CASE Fails
    <2>1. /\ phase' = phase /\ disk'.log = disk.log /\ told' = told /\ mem'.registry = mem.registry
          /\ mem'.stores = mem.stores
          /\ job.kind = "apply" => mem'.poisoned = TRUE
          /\ job.kind # "apply" => mem' = mem
        BY <1>13 DEF Fails, SameStores, SameLog
    <2>2. Creating => mem'.poisoned
        BY <2>1 DEF Creating
    <2>3. mem.poisoned => mem'.poisoned
        BY <2>1, Phases, <1>0
    <2> QED BY <2>1, <2>2, <2>3, HomeSame
<1> QED BY <1>1, <1>2, <1>3, <1>4, <1>5, <1>6, <1>7, <1>8, <1>9, <1>10, <1>11, <1>12, <1>13 DEF Continues

\* While it opens.
LEMMA HomeOpening ==
    ASSUME Inv, Loaded, phase = "opening", phase' = "opening", told'.inserts = told.inserts,
           disk'.log = disk.log, mem.registry \subseteq mem'.registry,
           \A f \in disk.log : NoFlush /\ f.kind = "create" /\ (ToCome(f) \/ Doing(f)) =>
               ToCome(f)' \/ Doing(f)' \/ f.config \in mem'.registry
    PROVE  HomeConfigs'
<1>1. HomeConfigs
    BY HomeParts DEF Inv
<1>2. ASSUME NoFlush, NEW k, Awaited(k) PROVE k \in mem'.registry \/ Awaited(k)'
    <2>1. PICK f \in disk.log : f.kind = "create" /\ f.config = k /\ (ToCome(f) \/ Doing(f))
        BY <1>2 DEF Awaited
    <2>2. ToCome(f)' \/ Doing(f)' \/ f.config \in mem'.registry
        BY <1>2, <2>1
    <2> QED BY <2>1, <2>2 DEF Awaited
<1>3. ASSUME NEW k, Expected(k) PROVE Expected(k)'
    BY <1>2, <1>3 DEF Expected
<1>4. NoFlush => \A f \in disk'.log : f.kind = "create" => f.config \in mem'.registry \/ Awaited(f.config)'
    BY <1>1, <1>2 DEF HomeConfigs
<1> QED BY <1>1, <1>3, <1>4 DEF HomeConfigs

LEMMA HomeOpeningRows ==
    ASSUME Inv, Loaded, phase = "opening", phase' = "opening", told'.inserts = told.inserts,
           disk'.log = disk.log,
           \A id \in DOMAIN mem.stores : /\ mem.stores[id].rows \subseteq mem'.stores[id].rows
                                         /\ mem'.floors[id] = mem.floors[id],
           \A i \in told.inserts : i.config.id \in DOMAIN mem'.stores =>
               i.config.id \in DOMAIN mem.stores \/ Stays(i)',
           \A f \in disk.log : f.kind = "insert" /\ (ToCome(f) \/ Doing(f)) =>
               \/ ToCome(f)' \/ Doing(f)'
               \/ f.config.id \in DOMAIN mem.stores /\ f.lsn > mem.floors[f.config.id]
                     => f.lsn \in mem'.stores[f.config.id].rows
    PROVE  HomeRows'
<1>1. HomeRows
    BY HomeParts DEF Inv
<1>2. ASSUME NEW i \in told.inserts, i.config.id \in DOMAIN mem.stores PROVE Stays(i)'
    <2>1. CASE i.lsn \in mem.stores[i.config.id].rows
        BY <1>2, <2>1 DEF Stays
    <2>2. CASE i.lsn \notin mem.stores[i.config.id].rows
        <3>1. PICK f \in disk.log : /\ f = Frame("insert", i.config, i.lsn)
                                    /\ ToCome(f) \/ Doing(f)
                                    /\ i.lsn > mem.floors[i.config.id]
            BY <1>1, <1>2, <2>2 DEF HomeRows, Stays
        <3>2. f.kind = "insert" /\ f.config = i.config /\ f.lsn = i.lsn
            BY <3>1, FrameFields
        <3>3. ToCome(f)' \/ Doing(f)' \/ i.lsn \in mem'.stores[i.config.id].rows
            BY <1>2, <3>1, <3>2
        <3> QED BY <1>2, <3>1, <3>3 DEF Stays
    <2> QED BY <2>1, <2>2
<1> QED BY <1>2 DEF HomeRows

\* What is asked of the log by the last frame that was read.
LEMMA NextToCome ==
    ASSUME Inv, job.kind = "apply", phase = "opening", phase' = "opening",
           mem'.last = Max({mem.last, job.frame.lsn}), mem'.read = mem.read, NEW f, ToCome(f)
    PROVE  ToCome(f)'
<1>1. job.frame.lsn = mem.read
    BY DEF Inv, ApplyInv
<1>2. mem'.last = mem.read
    BY <1>1, AppliedIs
<1> QED BY <1>2 DEF ToCome

\* What is in the log has one meaning.
LEMMA KnownAgree ==
    ASSUME Inv, Loaded, NoFlush, NEW c, NEW d, c.id = d.id \/ c.name = d.name,
           c \in mem.registry \/ Awaited(c), d \in mem.registry \/ Awaited(d)
    PROVE  c = d
<1>1. ASSUME NEW k, k \in mem.registry \/ Awaited(k) PROVE k \in Known(Entry.configs, disk.log)
    <2>1. mem.registry \subseteq Entry.configs
        BY DEF Inv, MemInv
    <2> QED BY <1>1, <2>1, KnownAre DEF Awaited
<1>2. Distinct(Known(Entry.configs, disk.log))
    BY DEF Inv, KnownInv, KnownIn
<1> QED BY <1>1, <1>2 DEF Distinct

\* A create that is replayed and finds its id or name taken is there.
LEMMA TakenIsThere ==
    ASSUME Inv, NoFlush, Creating, Taken(job.frame.config)
    PROVE  job.frame.config \in mem.registry
<1>1. Loaded /\ job.frame \in disk.log
    BY Phases DEF Creating, Inv, ApplyInv
<1>2. PICK c \in mem.registry : c.id = job.frame.config.id \/ c.name = job.frame.config.name
    BY <1>1 DEF Taken, Ids, Called, Inv, MemInv
<1>3. Awaited(job.frame.config)
    BY <1>1 DEF Awaited, Doing, Creating
<1> QED BY <1>1, <1>2, <1>3, KnownAgree

LEMMA HomeReplays ==
    ASSUME Inv, OneKindOfFailure, Loaded, Replay
    PROVE  HomeInv'
<1>0. TypeInv
    BY DEF Inv
<1>1. PICK frame \in disk.log : ReplayReads(frame)
    BY <1>0, ReplayDoes
<1>2. phase = "opening" /\ job = Idle
    BY <1>0, ReplayDoes
<1>3. /\ \A f \in disk.log : f.lsn > mem.read => frame.lsn <= f.lsn
      /\ phase' = "opening" /\ disk' = disk /\ told' = told /\ mem'.last = mem.last
      /\ mem'.registry = mem.registry /\ mem'.stores = mem.stores /\ mem'.floors = mem.floors
      /\ mem'.read = frame.lsn
      /\ ~(frame.lsn <= mem.last) => job' = Job("apply", "none", frame)
    BY <1>1, <1>2 DEF ReplayReads, SameStores
<1>4. \A f \in disk.log : f.lsn \in Nat
    BY DEF Inv, LogInv, LogOK, IsFrame
<1>5. mem.last \in Nat /\ mem.read \in Nat
    BY DEF Inv, MemInv
<1>6. ASSUME NEW f \in disk.log, ToCome(f) \/ Doing(f) PROVE ToCome(f)' \/ Doing(f)'
    <2>1. f.lsn > mem.read /\ f.lsn > mem.last
        BY <1>2, <1>6, IdleFields DEF ToCome, Doing
    <2>2. CASE f.lsn > frame.lsn
        BY <1>3, <2>1, <2>2 DEF ToCome
    <2>3. CASE ~(f.lsn > frame.lsn)
        <3>1. f.lsn = frame.lsn
            BY <1>3, <1>4, <2>1, <2>3
        <3>2. f = frame
            BY <3>1 DEF Inv, LogInv, LogOK
        <3>3. job' = Job("apply", "none", f)
            BY <1>3, <1>4, <1>5, <2>1, <3>2
        <3> QED BY <3>3, JobFields DEF Doing
    <2> QED BY <2>2, <2>3
<1>7. HomeConfigs'
    BY <1>2, <1>3, <1>6, HomeOpening
<1>8. HomeRows'
    BY <1>2, <1>3, <1>6, HomeOpeningRows
<1> QED BY <1>7, <1>8, HomeParts

LEMMA HomeReplaysInsert ==
    ASSUME Inv, OneKindOfFailure, Loaded, phase = "opening", ApplyInsert, ApplyInsertWrites
    PROVE  HomeInv'
<1> DEFINE config == job.frame.config
           lsn == job.frame.lsn
<1>1. /\ job.kind = "apply" /\ job.frame.kind = "insert" /\ config.id \in DOMAIN mem.stores
      /\ phase' = "opening" /\ disk' = disk /\ mem'.last = Max({mem.last, job.frame.lsn}) /\ mem'.read = mem.read
      /\ mem'.registry = mem.registry /\ DOMAIN mem'.stores = DOMAIN mem.stores /\ mem'.floors = mem.floors
      /\ \A id \in DOMAIN mem.stores : id # config.id => mem'.stores[id] = mem.stores[id]
      /\ lsn <= mem.floors[config.id] => mem'.stores[config.id] = mem.stores[config.id]
      /\ ~(lsn <= mem.floors[config.id]) => mem'.stores[config.id].rows = mem.stores[config.id].rows \cup {lsn}
      /\ job.from = "none" => told'.inserts = told.inserts
    BY DEF ApplyInsertWrites, Applying
<1>2. told'.inserts = told.inserts
    BY <1>1 DEF Inv, JobInv
<1>3. \A f \in disk.log : ToCome(f) => ToCome(f)'
    BY <1>1, NextToCome
<1>4. \A f \in disk.log : Doing(f) => f = job.frame
    BY DEF Doing
<1>5. lsn \in Nat /\ mem.floors[config.id] \in Nat
    BY <1>1, AppliedIs DEF Inv, MemInv
<1>6. HomeConfigs'
    BY <1>1, <1>2, <1>3, <1>4, HomeOpening
<1>7. \A id \in DOMAIN mem.stores : mem.stores[id].rows \subseteq mem'.stores[id].rows
    BY <1>1
<1>8. lsn > mem.floors[config.id] => lsn \in mem'.stores[config.id].rows
    <2>1. PICK n : n = mem.floors[config.id]
        OBVIOUS
    <2>2. lsn > n => ~(lsn <= n)
        BY <1>5, <2>1
    <2> QED BY <1>1, <2>1, <2>2
<1>9. HomeRows'
    BY <1>1, <1>2, <1>3, <1>4, <1>7, <1>8, HomeOpeningRows
<1> QED BY <1>6, <1>9, HomeParts

LEMMA HomeReplaysAgain ==
    ASSUME Inv, OneKindOfFailure, Loaded, phase = "opening", CreateAgain
    PROVE  HomeInv'
<1>1. /\ Creating /\ Taken(job.frame.config) /\ phase' = "opening" /\ disk' = disk
      /\ mem'.registry = mem.registry /\ mem'.stores = mem.stores /\ mem'.floors = mem.floors
      /\ told'.inserts = told.inserts /\ mem'.last = Max({mem.last, job.frame.lsn}) /\ mem'.read = mem.read
    BY CreateAgainDoes DEF Inv, SameStores
<1>2. \A f \in disk.log : ToCome(f) => ToCome(f)'
    BY <1>1, NextToCome DEF Creating
<1>3. \A f \in disk.log : Doing(f) => f = job.frame /\ f.kind = "create"
    BY <1>1 DEF Doing, Creating
<1>4. NoFlush => job.frame.config \in mem.registry
    BY <1>1, TakenIsThere
<1>5. HomeConfigs'
    BY <1>1, <1>2, <1>3, <1>4, HomeOpening
<1>6. HomeRows'
    BY <1>1, <1>2, <1>3, HomeOpeningRows
<1> QED BY <1>5, <1>6, HomeParts

\* Whatever does not end the job.
LEMMA HomeGoesOn ==
    ASSUME Inv, OneKindOfFailure, Loaded, phase = "opening", phase' = phase, told' = told,
           disk'.log = disk.log, mem'.registry = mem.registry, mem'.stores = mem.stores,
           mem'.last = mem.last, mem'.read = mem.read, job'.kind = job.kind, job'.frame = job.frame,
           \A id \in DOMAIN mem.stores : mem'.floors[id] = mem.floors[id]
    PROVE  HomeInv'
<1>1. \A f \in disk.log : (ToCome(f) => ToCome(f)') /\ (Doing(f) => Doing(f)')
    BY DEF ToCome, Doing
<1>2. HomeConfigs'
    BY <1>1, HomeOpening
<1>3. HomeRows'
    BY <1>1, HomeOpeningRows
<1> QED BY <1>2, <1>3, HomeParts

LEMMA HomeReplaysCreate ==
    ASSUME Inv, OneKindOfFailure, Loaded, phase = "opening", Publish
    PROVE  HomeInv'
<1> DEFINE config == job.frame.config
<1>1. /\ Creating /\ job.step > 5 /\ phase' = "opening" /\ disk' = disk /\ told'.inserts = told.inserts
      /\ mem'.registry = mem.registry \cup {config} /\ mem'.last = Max({mem.last, job.frame.lsn})
      /\ mem'.stores = Entered(mem.stores, config.id, disk.dirs[config.id].store)
      /\ mem'.floors = mem.floors /\ mem'.read = mem.read
    BY PublishDoes DEF Inv
<1>2. /\ ~Taken(config) /\ job.frame \in disk.log /\ job.frame.lsn = mem.read /\ job.frame.lsn > mem.last
      /\ config.id \in DOMAIN disk.dirs /\ mem.floors[config.id] = disk.dirs[config.id].store.lsn
    <2>1. job.kind = "apply" /\ job.frame.kind = "create" /\ job.step > 0
        BY <1>1 DEF Inv, JobInv, Creating
    <2>2. job.made
        BY <2>1 DEF Inv, ApplyInv, Creating
    <2> QED BY <2>1, <2>2 DEF Inv, ApplyInv, Creating
<1>3. EntersTo(mem.stores, config.id, disk.dirs[config.id].store, mem'.stores)
    BY <1>1, EnteredIs
<1>4. DOMAIN mem.stores = Ids(mem.registry)
    BY DEF Inv, MemInv
<1>5. \A f \in disk.log : ToCome(f) => ToCome(f)'
    BY <1>1, NextToCome DEF Creating
<1>6. \A f \in disk.log : Doing(f) => f = job.frame /\ f.kind = "create"
    BY <1>1 DEF Doing, Creating
<1>7. HomeConfigs'
    BY <1>1, <1>5, <1>6, HomeOpening
<1>8. ASSUME NEW i \in told.inserts, i.config.id \in DOMAIN mem'.stores, i.config.id \notin DOMAIN mem.stores
      PROVE  Stays(i)'
    <2>1. i.config.id = config.id
        BY <1>3, <1>8 DEF EntersTo
    <2>2. i.config \notin mem.registry
        BY <1>4, <1>8 DEF Ids
    <2>3. NoFlush /\ Awaited(i.config)
        BY <2>2, HomeParts DEF Inv, HomeConfigs, Expected
    <2>4. Awaited(config)
        BY <1>1, <1>2 DEF Awaited, Doing, Creating
    <2>5. i.config = config
        BY <2>1, <2>3, <2>4, KnownAgree
    <2>6. mem'.stores[i.config.id] = disk.dirs[config.id].store
        BY <1>3, <2>1 DEF EntersTo
    <2>7. HeldOK(i, disk.log, disk.dirs) /\ IsDir(disk.dirs[config.id])
        BY <1>2, StoresAre DEF Inv, DirInv
    <2>8. CASE i.lsn \in disk.dirs[config.id].store.rows
        BY <2>6, <2>8 DEF Stays
    <2>9. CASE i.lsn \notin disk.dirs[config.id].store.rows
        <3>1. PICK g : g = Frame("insert", i.config, i.lsn)
            OBVIOUS
        <3>2. g.kind = "insert" /\ g.config = i.config /\ g.lsn = i.lsn
            BY <3>1, FrameFields
        <3>3. g \in disk.log /\ ~(i.lsn <= disk.dirs[config.id].store.lsn) /\ i.lsn \in Nat
            BY <1>2, <2>1, <2>7, <2>9, <3>1 DEF HeldOK
        <3>4. job.frame.lsn < g.lsn
            BY <1>1, <1>2, <2>5, <3>2, <3>3 DEF Inv, LogInv, LogOK, Creating
        <3>5. job.frame.lsn \in Nat /\ mem.last \in Nat /\ mem'.last = job.frame.lsn
            BY <1>1, AppliedIs DEF Creating
        <3>6. ToCome(g)'
            BY <1>1, <1>2, <3>2, <3>3, <3>4, <3>5 DEF ToCome
        <3>7. i.lsn > mem.floors[config.id]
            <4>1. PICK n : n = disk.dirs[config.id].store.lsn
                OBVIOUS
            <4>2. n \in Nat
                BY <2>7, <4>1 DEF IsDir, IsStore
            <4>3. i.lsn > n
                BY <3>3, <4>1, <4>2
            <4> QED BY <1>2, <4>1, <4>3
        <3> QED BY <1>1, <2>1, <3>1, <3>3, <3>6, <3>7 DEF Stays
    <2> QED BY <2>8, <2>9
<1>9. \A id \in DOMAIN mem.stores : mem'.stores[id] = mem.stores[id]
    BY <1>2, <1>3 DEF EntersTo, Taken
<1>10. HomeRows'
    BY <1>1, <1>5, <1>6, <1>8, <1>9, HomeOpeningRows
<1> QED BY <1>7, <1>10, HomeParts

LEMMA HomeReady ==
    ASSUME Inv, OneKindOfFailure, Loaded, Ready
    PROVE  HomeInv'
<1>1. /\ phase = "opening" /\ job = Idle /\ phase' = "up" /\ \A f \in disk.log : ~(f.lsn > mem.read)
      /\ mem' = mem /\ disk' = disk /\ told'.inserts = told.inserts
    BY ReadyDoes DEF Inv
<1>2. \A f \in disk.log : ~ToCome(f) /\ ~Doing(f)
    BY <1>1, IdleFields DEF ToCome, Doing
<1>3. HomeConfigs /\ HomeRows
    BY HomeParts DEF Inv
<1>4. \A k : ~Awaited(k)
    BY <1>2 DEF Awaited
<1>5. \A f \in disk'.log : f.kind = "insert" => f.config \in mem'.registry
    BY <1>1, <1>3, <1>4 DEF HomeConfigs, Expected
<1>6. \A i \in told'.inserts :
          i.config \in mem'.registry
          /\ (i.config.id \in DOMAIN mem'.stores => i.lsn \in mem'.stores[i.config.id].rows)
    BY <1>1, <1>2, <1>3, <1>4 DEF HomeConfigs, HomeRows, Stays, Expected
<1>7. NoFlush => \A f \in disk'.log : f.kind = "create" => f.config \in mem'.registry
    BY <1>1, <1>3, <1>4 DEF HomeConfigs
<1> QED BY <1>1, <1>5, <1>6, <1>7, HomeStaysUp

LEMMA HomeOpens ==
    ASSUME Inv, OneKindOfFailure, OpenStores, OpenStoresOpens
    PROVE  HomeInv'
<1>0. TypeInv /\ DirInv' /\ job.kind = "register" /\ job.step = 6
    BY DirStep, OpenStoresDoes DEF Inv, JobInv, Works
<1>1. /\ phase' = phase /\ told' = told /\ mem'.registry = mem.registry /\ mem'.read = mem.read
      /\ SameCatalog /\ disk'.log = disk.log /\ job' = Idle
      /\ mem'.stores = [id \in Ids(mem.registry) |-> disk'.dirs[id].store]
      /\ mem'.floors = [id \in Ids(mem.registry) |-> disk'.dirs[id].store.lsn]
      /\ mem'.last = Min({disk'.dirs[id].store.lsn : id \in Ids(mem.registry)} \cup {mem.last})
      /\ OpensTo(disk.dirs, mem.registry, disk'.dirs)
    BY AllAreThere DEF OpenStoresOpens, SameLog
<1>2. /\ phase = "opening" /\ mem.read = 0 /\ disk.catalog.entry.there /\ Entry.configs = mem.registry
      /\ Entry.lsn = mem.last
    BY <1>0 DEF Inv, RegisterInv
<1>3. Ids(mem.registry) \subseteq DOMAIN disk'.dirs /\ \A id \in DOMAIN disk'.dirs : IsDir(disk'.dirs[id])
    BY <1>0, <1>1 DEF OpensTo, DirInv
<1> DEFINE lsns == {disk'.dirs[id].store.lsn : id \in Ids(mem.registry)} \cup {mem.last}
<1>4. mem.last \in Nat /\ \A id \in Ids(mem.registry) : disk'.dirs[id].store.lsn \in Nat
    BY <1>2, <1>3 DEF Inv, FileInv, IsContent, Entry, IsDir, IsStore
<1>5. lsns \subseteq Nat /\ lsns # {}
    BY <1>4
<1>6. mem'.last = Min(lsns) /\ mem.last \in lsns /\ \A id \in Ids(mem.registry) : disk'.dirs[id].store.lsn \in lsns
    BY <1>1
<1> HIDE DEF lsns
<1>7. mem'.last \in Nat /\ \A l \in lsns : mem'.last <= l
    BY <1>5, <1>6, MinIsLeast
<1>8. \A f \in disk.log : IsFrame(f) /\ f.lsn \in Nat \ {0}
    BY DEF Inv, LogInv, LogOK, IsFrame
<1>9. ASSUME NEW f \in disk.log, NEW l \in lsns, f.lsn > l PROVE ToCome(f)'
    <2>1. l \in Nat /\ mem'.last <= l
        BY <1>5, <1>7
    <2> QED BY <1>1, <1>2, <1>7, <1>8, <1>9, <2>1 DEF ToCome
<1>10. RecallOK(TRUE, Entry, disk.log, told.configs, told.inserts, Entry.configs)
    BY <1>2 DEF Inv, RecallInv, RecallOK
<1>11. ASSUME NEW k, Finds(disk.log, Entry, k) PROVE k \in mem'.registry \/ (NoFlush /\ Awaited(k)')
    <2>1. CASE k \in Entry.configs
        BY <1>1, <1>2, <2>1
    <2>2. CASE NoFlush /\ Coming(disk.log, Entry.lsn, k)
        <3>1. PICK f \in disk.log : f.kind = "create" /\ f.config = k /\ f.lsn > mem.last
            BY <1>2, <2>2 DEF Coming
        <3>2. ToCome(f)'
            BY <1>6, <1>9, <3>1
        <3> QED BY <1>1, <2>2, <3>1, <3>2 DEF Awaited
    <2> QED BY <1>11, <2>1, <2>2 DEF Finds
<1>12. HomeConfigs'
    BY <1>1, <1>2, <1>10, <1>11 DEF HomeConfigs, Expected, RecallOK
<1>13. ASSUME NEW i \in told'.inserts, i.config.id \in DOMAIN mem'.stores PROVE Stays(i)'
    <2> DEFINE id == i.config.id
    <2>1. id \in Ids(mem.registry) /\ id \in DOMAIN disk'.dirs /\ mem'.stores[id] = disk'.dirs[id].store
          /\ mem'.floors[id] = disk'.dirs[id].store.lsn
        BY <1>1, <1>3, <1>13
    <2>2. HeldOK(i, disk'.log, disk'.dirs)
        BY <1>0 DEF DirInv
    <2>3. CASE i.lsn \in disk'.dirs[id].store.rows
        BY <2>1, <2>3 DEF Stays
    <2>4. CASE i.lsn \notin disk'.dirs[id].store.rows
        <3>1. PICK g : g = Frame("insert", i.config, i.lsn)
            OBVIOUS
        <3>2. g.lsn = i.lsn
            BY <3>1, FrameFields
        <3>3. g \in disk.log /\ ~(i.lsn <= disk'.dirs[id].store.lsn) /\ i.lsn \in Nat
            BY <1>1, <2>1, <2>2, <2>4, <3>1 DEF HeldOK
        <3>4. PICK n : n = disk'.dirs[id].store.lsn
            OBVIOUS
        <3>5. n \in lsns /\ n \in Nat
            BY <1>4, <1>6, <2>1, <3>4
        <3>6. i.lsn > n
            BY <3>3, <3>4, <3>5
        <3>7. ToCome(g)'
            BY <1>9, <3>2, <3>3, <3>5, <3>6
        <3> QED BY <1>1, <1>2, <2>1, <3>1, <3>3, <3>4, <3>6, <3>7 DEF Stays
    <2> QED BY <2>3, <2>4
<1>14. HomeRows'
    BY <1>13 DEF HomeRows
<1> QED BY <1>12, <1>14, HomeParts

LEMMA HomeStep ==
    ASSUME Inv, OneKindOfFailure, Works
    PROVE  HomeInv'
<1> SUFFICES ASSUME Loaded' PROVE HomeInv'
    BY HomeParts
<1>0. TypeInv /\ JobInv
    BY DEF Inv
<1>1. CASE OpenStores /\ OpenStoresOpens
    BY <1>1, HomeOpens
<1>2. CASE Loaded /\ Continues /\ phase # "opening"
    BY <1>2, HomeUp
<1>3. CASE Loaded /\ Continues /\ phase = "opening"
    <2>1. CASE ApplyInsert /\ ApplyInsertWrites
        BY <1>3, <2>1, HomeReplaysInsert
    <2>2. CASE CreateAgain
        BY <1>3, <2>2, HomeReplaysAgain
    <2>3. CASE CreateStores /\ CreateStoresMakes
        <3> DEFINE config == job.frame.config
        <3>1. /\ ~Taken(config) /\ phase' = phase /\ told' = told /\ disk'.log = disk.log
              /\ mem'.registry = mem.registry /\ mem'.stores = mem.stores /\ mem'.last = mem.last
              /\ mem'.read = mem.read /\ job'.kind = job.kind /\ job'.frame = job.frame
              /\ mem'.floors = Entered(mem.floors, config.id, disk'.dirs[config.id].store.lsn)
            BY <1>0, <2>3, CreateStoresDoes DEF CreateStoresMakes, SameLog
        <3>2. EntersTo(mem.floors, config.id, disk'.dirs[config.id].store.lsn, mem'.floors)
            BY <3>1, EnteredIs
        <3>3. DOMAIN mem.stores \subseteq DOMAIN mem.floors /\ config.id \notin DOMAIN mem.stores
            BY <1>3, <3>1 DEF Inv, MemInv, Taken
        <3>4. \A id \in DOMAIN mem.stores : mem'.floors[id] = mem.floors[id]
            BY <3>2, <3>3 DEF EntersTo
        <3> QED BY <1>3, <3>1, <3>4, HomeGoesOn
    <2>4. CASE CreateEntry
        <3>1. /\ phase' = phase /\ told' = told /\ disk'.log = disk.log /\ mem' = mem
              /\ job'.kind = job.kind /\ job'.frame = job.frame
            BY <1>0, <2>4, CreateEntryDoes DEF SameLog
        <3> QED BY <1>3, <3>1, HomeGoesOn
    <2>5. CASE WriteCatalog
        <3>1. /\ phase' = phase /\ told' = told /\ disk'.log = disk.log /\ mem' = mem
              /\ job'.kind = job.kind /\ job'.frame = job.frame
            BY <1>0, <2>5, WriteCatalogDoes, StoresAre DEF SameLog
        <3> QED BY <1>3, <3>1, HomeGoesOn
    <2>6. CASE Publish
        BY <1>3, <2>6, HomeReplaysCreate
    <2>7. CASE Replay
        BY <1>3, <2>7, HomeReplays
    <2>8. CASE Ready
        BY <1>3, <2>8, HomeReady
    <2>9. ~LogFrame /\ ~LogFails /\ ~StartCheckpoint /\ ~Fails
        BY <1>0, <1>3, LogFrameDoes, LogFailsDoes, StartCheckpointDoes DEF Fails
    <2>10. ~SaveStores /\ ~Truncate
        BY <1>0, <1>3, SaveStoresDoes, TruncateDoes DEF JobInv
    <2> QED BY <1>3, <2>1, <2>2, <2>3, <2>4, <2>5, <2>6, <2>7, <2>8, <2>9, <2>10 DEF Continues
<1> QED BY <1>1, <1>2, <1>3, LoadedBefore

-----------------------------------------------------------------------------
(* Who waits for what.                                                     *)
LEMMA BrokenAnswers ==
    ASSUME NEW how, Broken(how)
    PROVE  ending' = ending /\ (phase = "opening" => waits' = waits) /\ (phase # "opening" => Answer(job.from))
BY DEF Broken

LEMMA WorksEnd == Works => ending' = ending \/ Shutdown \/ Kill
<1> SUFFICES ASSUME Works, ~Shutdown, ~Kill PROVE ending' = ending
    OBVIOUS
<1>1. \A how : Broken(how) => ending' = ending
    BY BrokenAnswers
<1>2. CASE LogFrame \/ LogFails \/ StartCheckpoint
    BY <1>2 DEF LogFrame, LogFails, StartCheckpoint
<1>3. CASE ApplyInsert \/ CreateAgain \/ CreateStores \/ CreateEntry \/ Publish
    BY <1>1, <1>3 DEF ApplyInsert, CreateAgain, CreateStores, CreateEntry, Publish, Done
<1>4. CASE WriteCatalog \/ StepFails \/ SaveStores \/ Truncate
    BY <1>1, <1>4 DEF WriteCatalog, StepFails, SaveStores, Truncate, Done
<1>5. CASE Start \/ MakeMissing \/ OpenStores \/ Replay \/ Ready
    BY <1>1, <1>5 DEF Start, MakeMissing, OpenStores, Replay, Ready
<1> QED BY <1>2, <1>3, <1>4, <1>5 DEF Works

\* Who is answered.
LEMMA AnswerIs ==
    ASSUME DOMAIN waits = Threads, NEW t, Answer(t), t \in Threads
    PROVE  DOMAIN waits' = Threads /\ waits'[t] = "idle" /\ \A u \in Threads : u # t => waits'[u] = waits[u]
<1>1. "none" \notin Threads
    BY CatalogAssumption DEF Threads
<1>2. waits' = [waits EXCEPT ![t] = "idle"]
    BY <1>1 DEF Answer
<1> QED BY <1>2

\* What the job's caller waits for.
LEMMA AtIs ==
    ASSUME Inv, phase # "opening", job # Idle
    PROVE  At \in Kinds /\ job.from \in Threads /\ waits[job.from] = At
<1>1. job.kind \in {"apply", "checkpoint"}
    BY DEF Inv, JobInv, RegisterInv
<1>2. job.kind = "apply" => job.frame.kind \in {"create", "insert"}
    BY AppliedIs DEF IsFrame
<1> QED BY <1>1, <1>2 DEF At, Kinds, Inv, WaitInv

\* Nobody asks anything.
LEMMA WaitEmpty ==
    ASSUME queue' = <<>>, DOMAIN waits' = Threads, phase' = "opening" \/ job' = Idle,
           phase' # "closing" => ending' = <<>>,
           \/ \A t \in Threads : waits'[t] = "idle"
           \/ WaitInv /\ waits' = waits
    PROVE  WaitInv'
<1>1. IsSeq(queue') /\ DOMAIN queue' = {}
    <2>1. <<>> \in Seq({}) /\ DOMAIN <<>> = {}
        OBVIOUS
    <2>2. IsSeq(<<>>)
        BY <2>1, SeqIs
    <2> QED BY <2>1, <2>2
<1>2. /\ \A c, d \in Callers : waits'[c] = "create" /\ waits'[d] = "create" => c = d
      /\ \A t \in Threads : waits'[t] \in {"create", "insert"} => t \in Callers
    BY DEF WaitInv, Threads
<1> QED BY <1>1, <1>2 DEF WaitInv

\* Somebody asks.
LEMMA WaitAsks ==
    ASSUME Inv, NEW from \in Threads, NEW kind \in Kinds, NEW config, Ask(from, kind, config),
           waits[from] = "idle", phase \in {"up", "closing"},
           UNCHANGED <<phase, mem, job>>, ending' = ending \/ phase = "closing",
           kind \in {"create", "insert"} => phase = "up" /\ from \in Callers,
           kind = "create" => ~Taken(config) /\ IsConfig(config) /\ \A c \in Callers : waits[c] # "create",
           kind = "insert" => config \in mem.registry
    PROVE  WaitInv'
<1>0. WaitInv
    BY DEF Inv
<1> DEFINE m == Message(from, kind, config)
           last == Len(queue) + 1
<1>1. m.from = from /\ m.kind = kind /\ m.config = config
    BY DEF Message
<1>2. queue' = Append(queue, m) /\ waits' = [waits EXCEPT ![from] = kind]
    BY DEF Ask
<1>3. /\ IsSeq(queue') /\ DOMAIN queue' = DOMAIN queue \cup {last} /\ last \notin DOMAIN queue
      /\ queue'[last] = m /\ \A n \in DOMAIN queue : queue'[n] = queue[n]
    BY <1>0, <1>2, AppendIs DEF WaitInv
<1> HIDE DEF m, last
<1>4. DOMAIN waits' = Threads /\ waits'[from] = kind /\ \A t \in Threads : t # from => waits'[t] = waits[t]
    BY <1>0, <1>2 DEF WaitInv
<1>5. \A n \in DOMAIN queue : queue[n].from # from
    BY <1>0 DEF WaitInv, Kinds
<1>6. phase # "opening" /\ job # Idle => job.from # from
    BY AtIs DEF Kinds
<1>7. \A n \in DOMAIN queue' :
          queue'[n].from \in Threads /\ queue'[n].kind \in Kinds /\ waits'[queue'[n].from] = queue'[n].kind
    BY <1>0, <1>1, <1>3, <1>4, <1>5 DEF WaitInv
<1>8. \A k, n \in DOMAIN queue' : queue'[k].from = queue'[n].from => k = n
    BY <1>0, <1>1, <1>3, <1>5 DEF WaitInv
<1>9. phase' # "opening" /\ job' # Idle =>
           /\ job'.from \in Threads /\ waits'[job'.from] = At'
           /\ \A n \in DOMAIN queue' : queue'[n].from # job'.from
    BY <1>0, <1>1, <1>3, <1>4, <1>6 DEF WaitInv, At
<1>10. \A c, d \in Callers : waits'[c] = "create" /\ waits'[d] = "create" => c = d
    BY <1>0, <1>4 DEF WaitInv, Threads
<1>11. \A t \in Threads : waits'[t] \in {"create", "insert"} => t \in Callers
    BY <1>0, <1>4 DEF WaitInv
<1>12. \A n \in DOMAIN queue' :
          /\ queue'[n].kind = "create" =>
                /\ ~(queue'[n].config.id \in DOMAIN mem'.stores \/ queue'[n].config.name \in Called(mem'.registry))
                /\ IsConfig(queue'[n].config)
          /\ queue'[n].kind = "insert" => queue'[n].config \in mem'.registry
          /\ queue'[n].kind \in {"create", "insert"} => phase' = "up"
    BY <1>0, <1>1, <1>3 DEF WaitInv, Taken
<1>13. phase' # "closing" => ending' = <<>>
    BY <1>0 DEF WaitInv
<1>14. phase' \notin {"opening", "down", "failed", "refused"}
    OBVIOUS
<1> QED BY <1>3, <1>4, <1>7, <1>8, <1>9, <1>10, <1>11, <1>12, <1>13, <1>14 DEF WaitInv, Taken

\* What is asked first is taken up, or answered at once.
LEMMA WaitTakes ==
    ASSUME Inv, phase \in {"up", "closing"}, queue # <<>>, job = Idle, queue' = Tail(queue),
           phase' = phase, ending' = ending, mem'.registry = mem.registry, mem'.stores = mem.stores,
           \/ Answer(Asked.from) /\ job' = Idle
           \/ waits' = waits /\ job'.from = Asked.from /\ At' = Asked.kind
    PROVE  WaitInv'
<1>0. WaitInv
    BY DEF Inv
<1>1. /\ IsSeq(queue') /\ 1 \in DOMAIN queue /\ Asked = queue[1]
      /\ \A n \in DOMAIN queue' : n + 1 \in DOMAIN queue /\ n + 1 # 1 /\ queue'[n] = queue[n + 1]
      /\ \A m, n \in DOMAIN queue' : m + 1 = n + 1 => m = n
    BY <1>0, TailIs DEF WaitInv, Asked
<1>2. Asked.from \in Threads /\ Asked.kind \in Kinds /\ waits[Asked.from] = Asked.kind
    BY <1>0, <1>1 DEF WaitInv
<1>3. \A n \in DOMAIN queue' : queue'[n].from # Asked.from /\ \E k \in DOMAIN queue : queue'[n] = queue[k]
    BY <1>0, <1>1 DEF WaitInv
<1>4. DOMAIN waits' = Threads /\ \A t \in Threads : t # Asked.from => waits'[t] = waits[t]
    BY <1>0, <1>2, AnswerIs DEF WaitInv
<1>5. \A t \in Threads : waits'[t] = waits[t] \/ waits'[t] = "idle"
    BY <1>0, <1>2, <1>4, AnswerIs DEF WaitInv
<1>6. \A n \in DOMAIN queue' :
          queue'[n].from \in Threads /\ queue'[n].kind \in Kinds /\ waits'[queue'[n].from] = queue'[n].kind
    BY <1>0, <1>3, <1>4 DEF WaitInv
<1>7. \A m, n \in DOMAIN queue' : queue'[m].from = queue'[n].from => m = n
    BY <1>0, <1>1 DEF WaitInv
<1>8. phase' # "opening" /\ job' # Idle =>
           /\ job'.from \in Threads /\ waits'[job'.from] = At'
           /\ \A n \in DOMAIN queue' : queue'[n].from # job'.from
    BY <1>2, <1>3
<1>9. \A c, d \in Callers : waits'[c] = "create" /\ waits'[d] = "create" => c = d
    BY <1>0, <1>5 DEF WaitInv, Threads
<1>10. \A t \in Threads : waits'[t] \in {"create", "insert"} => t \in Callers
    BY <1>0, <1>5 DEF WaitInv
<1>11. \A n \in DOMAIN queue' :
          /\ queue'[n].kind = "create" =>
                /\ ~(queue'[n].config.id \in DOMAIN mem'.stores \/ queue'[n].config.name \in Called(mem'.registry))
                /\ IsConfig(queue'[n].config)
          /\ queue'[n].kind = "insert" => queue'[n].config \in mem'.registry
          /\ queue'[n].kind \in {"create", "insert"} => phase' = "up"
    BY <1>0, <1>3 DEF WaitInv, Taken
<1>12. phase' # "closing" => ending' = <<>>
    BY <1>0 DEF WaitInv
<1> QED BY <1>1, <1>4, <1>6, <1>7, <1>8, <1>9, <1>10, <1>11, <1>12 DEF WaitInv, Taken

\* The job goes on.
LEMMA WaitGoesOn ==
    ASSUME Inv, phase \in {"up", "closing"}, job # Idle, UNCHANGED <<waits, queue, phase, ending>>,
           mem'.registry = mem.registry, mem'.stores = mem.stores, job'.from = job.from, At' = At
    PROVE  WaitInv'
<1>0. WaitInv
    BY DEF Inv
<1>1. \A n \in DOMAIN queue' :
          /\ queue'[n].kind = "create" =>
                /\ ~(queue'[n].config.id \in DOMAIN mem'.stores \/ queue'[n].config.name \in Called(mem'.registry))
                /\ IsConfig(queue'[n].config)
          /\ queue'[n].kind = "insert" => queue'[n].config \in mem'.registry
          /\ queue'[n].kind \in {"create", "insert"} => phase' = "up"
    BY <1>0 DEF WaitInv, Taken
<1>2. phase' # "opening" /\ job' # Idle =>
           /\ job'.from \in Threads /\ waits'[job'.from] = At'
           /\ \A n \in DOMAIN queue' : queue'[n].from # job'.from
    BY <1>0 DEF WaitInv
<1>3. /\ DOMAIN waits' = Threads /\ IsSeq(queue')
      /\ phase' \in {"opening", "down", "failed", "refused"} => queue' = <<>>
      /\ phase' # "closing" => ending' = <<>>
      /\ \A n \in DOMAIN queue' :
            queue'[n].from \in Threads /\ queue'[n].kind \in Kinds /\ waits'[queue'[n].from] = queue'[n].kind
      /\ \A m, n \in DOMAIN queue' : queue'[m].from = queue'[n].from => m = n
      /\ \A c, d \in Callers : waits'[c] = "create" /\ waits'[d] = "create" => c = d
      /\ \A t \in Threads : waits'[t] \in {"create", "insert"} => t \in Callers
    BY <1>0 DEF WaitInv
<1> QED BY <1>1, <1>2, <1>3 DEF WaitInv, Taken

\* The job is at its end, and its caller gets the answer.
LEMMA WaitAnswers ==
    ASSUME Inv, phase \in {"up", "closing"}, job # Idle, UNCHANGED <<queue, phase, ending>>,
           job' = Idle, Answer(job.from), mem.registry \subseteq mem'.registry,
           \/ At = "create"
           \/ mem'.registry = mem.registry /\ DOMAIN mem'.stores = DOMAIN mem.stores
    PROVE  WaitInv'
<1>0. WaitInv
    BY DEF Inv
<1>1. At \in Kinds /\ job.from \in Threads /\ waits[job.from] = At
    BY AtIs
<1>2. /\ DOMAIN waits' = Threads /\ waits'[job.from] = "idle"
      /\ \A t \in Threads : t # job.from => waits'[t] = waits[t]
    BY <1>0, <1>1, AnswerIs DEF WaitInv
<1>3. \A n \in DOMAIN queue : queue[n].from # job.from
    BY <1>0 DEF WaitInv
<1>4. ASSUME At = "create", NEW n \in DOMAIN queue PROVE queue[n].kind # "create"
    <2>1. queue[n].from \in Threads /\ waits[queue[n].from] = queue[n].kind
        BY <1>0 DEF WaitInv
    <2>2. queue[n].kind = "create" => queue[n].from \in Callers /\ job.from \in Callers
        BY <1>0, <1>1, <1>4, <2>1 DEF WaitInv
    <2> QED BY <1>0, <1>1, <1>3, <1>4, <2>1, <2>2 DEF WaitInv
<1>5. \A n \in DOMAIN queue' :
          /\ queue'[n].kind = "create" =>
                /\ ~(queue'[n].config.id \in DOMAIN mem'.stores \/ queue'[n].config.name \in Called(mem'.registry))
                /\ IsConfig(queue'[n].config)
          /\ queue'[n].kind = "insert" => queue'[n].config \in mem'.registry
          /\ queue'[n].kind \in {"create", "insert"} => phase' = "up"
    BY <1>0, <1>4 DEF WaitInv, Taken
<1>6. \A n \in DOMAIN queue' :
          queue'[n].from \in Threads /\ queue'[n].kind \in Kinds /\ waits'[queue'[n].from] = queue'[n].kind
    BY <1>0, <1>2, <1>3 DEF WaitInv
<1>7. \A c, d \in Callers : waits'[c] = "create" /\ waits'[d] = "create" => c = d
    BY <1>0, <1>2 DEF WaitInv, Threads
<1>8. \A t \in Threads : waits'[t] \in {"create", "insert"} => t \in Callers
    BY <1>0, <1>2 DEF WaitInv
<1>9. /\ IsSeq(queue')
      /\ phase' \in {"opening", "down", "failed", "refused"} => queue' = <<>>
      /\ phase' # "closing" => ending' = <<>>
      /\ \A m, n \in DOMAIN queue' : queue'[m].from = queue'[n].from => m = n
    BY <1>0 DEF WaitInv
<1> QED BY <1>2, <1>5, <1>6, <1>7, <1>8, <1>9 DEF WaitInv, Taken

\* Before it is up, nobody waits for it.
LEMMA WaitOpens ==
    ASSUME Inv, Works, ~Kill, ~Shutdown, phase \notin {"up", "closing"}
    PROVE  /\ queue' = queue /\ waits' = waits /\ ending' = ending
           /\ phase' = "opening" \/ job' = Idle
<1>0. TypeInv
    BY DEF Inv
<1>1. CASE phase = "opening"
    <2>0. job.from = "none"
        BY <1>0, <1>1 DEF Inv, JobInv
    <2>1. Answer(job.from) => waits' = waits
        BY <2>0 DEF Answer
    <2>2. \A how : Broken(how) => queue' = queue /\ waits' = waits /\ ending' = ending /\ job' = Idle
        BY <1>1 DEF Broken
    <2>3. Done => queue' = queue /\ waits' = waits /\ ending' = ending /\ job' = Idle
        BY <2>1 DEF Done
    <2>4. CASE ApplyInsert \/ CreateAgain \/ CreateStores \/ CreateEntry \/ Publish
        BY <1>1, <2>2, <2>3, <2>4 DEF ApplyInsert, CreateAgain, CreateStores, CreateEntry, Publish
    <2>5. CASE WriteCatalog \/ StepFails \/ SaveStores \/ Truncate
        BY <1>1, <2>2, <2>3, <2>5 DEF WriteCatalog, StepFails, SaveStores, Truncate
    <2>6. CASE MakeMissing \/ OpenStores \/ Replay \/ Ready
        BY <1>1, <2>2, <2>6 DEF MakeMissing, OpenStores, Replay, Ready
    <2>7. ~LogFrame /\ ~LogFails /\ ~StartCheckpoint /\ ~Start
        BY <1>1 DEF LogFrame, LogFails, StartCheckpoint, Free, Start
    <2> QED BY <2>4, <2>5, <2>6, <2>7 DEF Works
<1>2. CASE phase # "opening"
    <2>1. job = Idle /\ phase \in {"down", "failed", "refused"}
        BY <1>2 DEF Inv, JobInv
    <2>2. Start
        <3>1. job.kind = "none" /\ job.step = 0
            BY <2>1, IdleFields
        <3>2. ~ApplyInsert /\ ~CreateAgain /\ ~CreateStores /\ ~CreateEntry /\ ~Publish
            BY <3>1 DEF ApplyInsert, CreateAgain, CreateStores, CreateEntry, Publish, Applying
        <3>3. ~WriteCatalog /\ ~StepFails /\ ~SaveStores /\ ~Truncate
            BY <3>1, StepsAre DEF WriteCatalog, StepFails, SaveStores, Truncate
        <3>4. ~MakeMissing /\ ~OpenStores /\ ~Replay /\ ~Ready
            BY <1>2, <3>1 DEF MakeMissing, OpenStores, Replay, Ready
        <3>5. ~LogFrame /\ ~LogFails /\ ~StartCheckpoint
            BY <2>1 DEF LogFrame, LogFails, StartCheckpoint, Free
        <3> QED BY <3>2, <3>3, <3>4, <3>5 DEF Works
    <2>3. queue' = queue /\ waits' = waits /\ ending' = ending
        BY <2>2 DEF Start
    <2>4. disk.catalog.entry.there \in BOOLEAN
        BY StoresAre
    <2>5. StartRefuses \/ StartFails \/ \E supplied \in Openings : StartRegisters(supplied)
        BY <1>0, <2>2, <2>4, StartDoes
    <2>6. phase' = "opening" \/ job' = Idle
        BY <2>1, <2>5 DEF StartRefuses, StartFails, StartRegisters
    <2> QED BY <2>3, <2>6
<1> QED BY <1>1, <1>2

LEMMA WaitStep ==
    ASSUME Inv, OneKindOfFailure, Works
    PROVE  WaitInv'
<1>0. TypeInv /\ JobInv /\ WaitInv
    BY DEF Inv
<1>1. CASE Kill
    <2>1. /\ queue' = <<>> /\ DOMAIN waits' = Threads /\ job' = Idle /\ ending' = <<>>
          /\ \A t \in Threads : waits'[t] = "idle"
        BY <1>1 DEF Kill
    <2> QED BY <2>1, WaitEmpty
<1>2. CASE Shutdown
    <2>1. /\ queue' = <<>> /\ DOMAIN waits' = Threads /\ job' = Idle /\ ending' = <<>>
          /\ \A t \in Threads : waits'[t] = "idle"
        BY <1>2 DEF Shutdown
    <2> QED BY <2>1, WaitEmpty
<1>3. CASE phase \notin {"up", "closing"} /\ ~Kill /\ ~Shutdown
    <2>1. /\ queue' = queue /\ waits' = waits /\ ending' = ending
          /\ phase' = "opening" \/ job' = Idle
        BY <1>3, WaitOpens
    <2>2. queue = <<>> /\ ending = <<>> /\ DOMAIN waits = Threads
        BY <1>0, <1>3 DEF WaitInv, JobInv
    <2> QED BY <1>0, <2>1, <2>2, WaitEmpty
<1>4. CASE phase \in {"up", "closing"} /\ ~Kill /\ ~Shutdown
    <2>0. ending' = ending /\ phase # "opening"
        BY <1>4, WorksEnd
    <2>1. CASE LogFrame
        <3>1. /\ job = Idle /\ queue # <<>> /\ queue' = Tail(queue) /\ phase' = phase /\ waits' = waits
              /\ mem'.registry = mem.registry /\ mem'.stores = mem.stores
              /\ job' = Job("apply", Asked.from, NewFrame)
            BY <1>0, <2>1, LogFrameDoes DEF SameStores
        <3>2. job'.from = Asked.from /\ job'.kind = "apply" /\ job'.frame.kind = Asked.kind
            BY <3>1, JobFields, FrameFields DEF NewFrame
        <3>3. At' = Asked.kind
            BY <3>2 DEF At
        <3> QED BY <1>4, <2>0, <3>1, <3>2, <3>3, WaitTakes
    <2>2. CASE LogFails
        BY <1>0, <1>4, <2>0, <2>2, LogFailsDoes, WaitTakes DEF SameStores
    <2>3. CASE StartCheckpoint
        <3>1. job'.kind = "checkpoint" /\ job'.from = Asked.from /\ Asked.kind = "checkpoint"
            BY <1>0, <2>3, StartCheckpointDoes DEF SavingDoes
        <3>2. At' = Asked.kind
            BY <3>1 DEF At
        <3> QED BY <1>0, <1>4, <2>0, <2>3, <3>1, <3>2, StartCheckpointDoes, WaitTakes
    <2>4. ASSUME NEW how, Broken(how), job # Idle PROVE WaitInv'
        <3>1. /\ job' = Idle /\ queue' = queue /\ phase' = phase /\ Answer(job.from)
              /\ mem'.registry = mem.registry /\ mem'.stores = mem.stores
            BY <1>0, <2>0, <2>4, BrokenDoes, BrokenAnswers DEF SameStores
        <3> QED BY <1>4, <2>0, <2>4, <3>1, WaitAnswers
    <2>5. job.kind # "none" => job # Idle
        BY IdleFields
    <2>6. CASE ApplyInsert
        <3>1. job.kind = "apply" /\ job # Idle
            BY <2>5, <2>6 DEF ApplyInsert, Applying
        <3>2. ApplyInsertMisses \/ ApplyInsertWrites
            BY <1>0, <2>6, <3>1, ApplyInsertDoes, StoresAre
        <3>3. CASE ApplyInsertMisses
            BY <2>4, <3>1, <3>3 DEF ApplyInsertMisses
        <3>4. CASE ApplyInsertWrites
            <4>1. /\ job' = Idle /\ queue' = queue /\ phase' = phase /\ Answer(job.from)
                  /\ mem'.registry = mem.registry /\ DOMAIN mem'.stores = DOMAIN mem.stores
                BY <3>4 DEF ApplyInsertWrites
            <4> QED BY <1>4, <2>0, <3>1, <4>1, WaitAnswers
        <3> QED BY <3>2, <3>3, <3>4
    <2>7. CASE CreateAgain
        BY <1>0, <1>4, <2>0, <2>5, <2>7, CreateAgainDoes, WaitAnswers DEF Creating, SameStores
    <2>8. CASE Publish
        <3>1. /\ job # Idle /\ job' = Idle /\ queue' = queue /\ phase' = phase /\ Answer(job.from)
              /\ mem.registry \subseteq mem'.registry /\ At = "create"
            BY <1>0, <2>5, <2>8, PublishDoes DEF Creating, At
        <3> QED BY <1>4, <2>0, <3>1, WaitAnswers
    <2>9. CASE CreateStores
        <3>1. CASE CreateStoresMisses
            BY <2>4, <2>5, <3>1 DEF CreateStoresMisses, Creating
        <3>2. CASE CreateStoresMakes
            BY <1>4, <2>0, <2>5, <3>2, WaitGoesOn DEF CreateStoresMakes, Creating, At
        <3> QED BY <1>0, <2>9, <3>1, <3>2, CreateStoresDoes
    <2>10. CASE CreateEntry
        BY <1>0, <1>4, <2>0, <2>5, <2>10, CreateEntryDoes, WaitGoesOn DEF Creating, At
    <2>11. CASE WriteCatalog
        <3>1. /\ job.step # 0 /\ UNCHANGED <<phase, mem, queue, waits, job.kind, job.from, job.frame>>
            BY <1>0, <2>11, WriteCatalogDoes, StoresAre
        <3> QED BY <1>4, <2>0, <3>1, IdleFields, WaitGoesOn DEF At
    <2>12. CASE StepFails
        BY <1>0, <2>4, <2>5, <2>12, StepFailsDoes
    <2>13. CASE SaveStores
        <3>1. /\ job.kind = "checkpoint" /\ job'.kind = "checkpoint" /\ job'.from = job.from
              /\ UNCHANGED <<phase, mem, queue, waits>>
            BY <1>0, <2>13, SaveStoresDoes DEF SavingDoes
        <3> QED BY <1>4, <2>0, <2>5, <3>1, WaitGoesOn DEF At
    <2>14. CASE Truncate
        BY <1>0, <1>4, <2>0, <2>5, <2>14, TruncateDoes, WaitAnswers
    <2>15. ~Start /\ ~Replay /\ ~Ready
        BY <1>4 DEF Start, Replay, Ready
    <2>16. ~OpenStores /\ ~MakeMissing
        BY <1>4, <1>0, OpenStoresDoes, MakeMissingDoes DEF Inv, RegisterInv
    <2> QED BY <1>4, <2>1, <2>2, <2>3, <2>6, <2>7, <2>8, <2>9, <2>10, <2>11, <2>12, <2>13, <2>14, <2>15, <2>16
            DEF Works
<1> QED BY <1>1, <1>2, <1>3, <1>4

-----------------------------------------------------------------------------
(* Asking, answering and stopping: what is on disk, and what is known of   *)
(* it, stays.                                                              *)
Rests ==
    /\ UNCHANGED <<mem, disk, job, told>>
    /\ phase' = phase \/ (phase = "up" /\ phase' = "closing")

LEMMA RestsKeepsFiles ==
    ASSUME Inv, Rests
    PROVE  TypeInv' /\ LogInv' /\ FileInv' /\ RecallInv' /\ DirInv' /\ KnownInv'
<1>1. TypeInv' /\ LogInv' /\ DirInv'
    BY DEF Inv, Rests, TypeInv, LogInv, DirInv
<1>2. FileInv'
    BY DEF Inv, Rests, FileInv
<1>3. Entry' = Entry /\ Flushed' = Flushed /\ (Fresh => Fresh')
    BY DEF Rests, Entry, Flushed, Fresh
<1>4. RecallInv'
    BY <1>3 DEF Inv, Rests, RecallInv
<1>5. KnownInv'
    BY <1>3 DEF Inv, Rests, KnownInv
<1> QED BY <1>1, <1>2, <1>4, <1>5

LEMMA RestsKeepsMemory ==
    ASSUME Inv, Rests
    PROVE  /\ CoverInv' /\ MemInv' /\ HomeInv' /\ JobInv' /\ RegisterInv' /\ ApplyInv' /\ CheckpointInv'
<1>1. Entry' = Entry /\ Flushed' = Flushed
    BY DEF Rests, Entry, Flushed
<1>2. Loaded' = Loaded /\ Creating' = Creating
    BY DEF Rests, Loaded, Creating
<1>3. (phase' = "opening" <=> phase = "opening") /\ (phase' \in {"down", "failed", "refused"} <=> phase \in {"down", "failed", "refused"})
    BY DEF Rests
<1>4. CoverInv'
    <2>1. Marks(disk.dirs)' = Marks(disk.dirs) /\ Bases' = Bases
        BY <1>1 DEF Rests, Marks, Bases
    <2>2. MemLsns' = MemLsns
        BY <1>2 DEF Rests, MemLsns
    <2>3. CoverInv
        BY DEF Inv
    <2> QED BY <2>1, <2>2, <2>3 DEF CoverInv, Rests
<1>5. MemInv'
    BY <1>1, <1>2, <1>3 DEF Inv, Rests, MemInv
<1>6. HomeInv'
    BY <1>2, <1>3 DEF Inv, Rests, HomeInv, Awaited, ToCome, Doing
<1>7. JobInv'
    BY <1>3 DEF Inv, Rests, JobInv
<1>8. RegisterInv'
    BY <1>1, <1>3 DEF Inv, Rests, RegisterInv, Fresh
<1>9. ApplyInv'
    BY <1>2, <1>3 DEF Inv, Rests, ApplyInv, Taken
<1>10. CheckpointInv'
    BY DEF Inv, Rests, CheckpointInv
<1> QED BY <1>4, <1>5, <1>6, <1>7, <1>8, <1>9, <1>10

\* As many ids, or names, as collections when no two share one; finitely many
\* in any case.
LEMMA OfEach ==
    ASSUME NEW S, NEW T, IsFiniteSet(S), NEW f \in [S -> T], \A t \in T : \E s \in S : t = f[s]
    PROVE  /\ IsFiniteSet(T)
           /\ (\A c, d \in S : f[c] = f[d] => c = d) => Cardinality(T) = Cardinality(S)
<1>1. f \in Surjection(S, T)
    BY DEF Surjection
<1>2. (\A c, d \in S : f[c] = f[d] => c = d) => f \in Injection(S, T)
    BY DEF Injection, IsInjective
<1> QED BY <1>1, <1>2, FS_Surjection

LEMMA IdsCounted ==
    ASSUME NEW S, IsFiniteSet(S)
    PROVE  /\ IsFiniteSet(Ids(S))
           /\ (\A c, d \in S : c.id = d.id => c = d) => Cardinality(Ids(S)) = Cardinality(S)
<1> DEFINE f == [c \in S |-> c.id]
<1>1. f \in [S -> Ids(S)] /\ \A t \in Ids(S) : \E s \in S : t = f[s]
    BY DEF Ids
<1>2. \A c \in S : f[c] = c.id
    OBVIOUS
<1> HIDE DEF f
<1> QED BY <1>1, <1>2, OfEach

LEMMA NamesCounted ==
    ASSUME NEW S, IsFiniteSet(S), \A c, d \in S : c.name = d.name => c = d
    PROVE  Cardinality(Called(S)) = Cardinality(S)
<1> DEFINE f == [c \in S |-> c.name]
<1>1. f \in [S -> Called(S)] /\ \A t \in Called(S) : \E s \in S : t = f[s]
    BY DEF Called
<1>2. \A c \in S : f[c] = c.name
    OBVIOUS
<1> HIDE DEF f
<1> QED BY <1>1, <1>2, OfEach

\* A new id is nobody's.
LEMMA NewIdIs ==
    ASSUME IsConfigs(mem.published)
    PROVE  NextId \in Nat /\ NextId \notin Ids(mem.published)
<1>1. CASE mem.published = {}
    BY <1>1 DEF NextId, Ids
<1>2. CASE mem.published # {}
    <2>1. Ids(mem.published) \subseteq Nat /\ Ids(mem.published) # {}
        BY <1>2 DEF IsConfigs, IsConfig, Ids
    <2>2. IsFiniteSet(Ids(mem.published))
        BY IdsCounted DEF IsConfigs
    <2>3. PICK b : b = Max(Ids(mem.published))
        OBVIOUS
    <2>4. b \in Nat /\ \A m \in Ids(mem.published) : m <= b
        BY <2>1, <2>2, <2>3, MaxOfFinite
    <2>5. NextId = b + 1
        BY <1>2, <2>3 DEF NextId
    <2> QED BY <2>1, <2>4, <2>5
<1> QED BY <1>1, <1>2

LEMMA CreateAsks ==
    ASSUME Inv, NEW c \in Callers, Create(c)
    PROVE  WaitInv'
<1>1. /\ phase = "up" /\ waits[c] = "idle" /\ ending' = ending /\ UNCHANGED <<phase, mem, job>>
      /\ c \in Threads
    BY DEF Create, MayAsk, Threads
<1>2. PICK w \in Wanted : MayCreate(w.name) /\ Ask(c, "create", Config(NextId, w.name, w.shape))
    BY DEF Create
<1>3. PICK config : config = Config(NextId, w.name, w.shape)
    OBVIOUS
<1>4. config.id = NextId /\ config.name = w.name /\ config.shape = w.shape
    BY <1>3 DEF Config
<1>5. mem.published = mem.registry /\ IsConfigs(mem.registry) /\ DOMAIN mem.stores = Ids(mem.registry)
    BY <1>1, Phases DEF Inv, MemInv
<1>6. NextId \in Nat /\ NextId \notin DOMAIN mem.stores
    BY <1>5, NewIdIs
<1>7. ~Taken(config) /\ IsConfig(config)
    BY <1>2, <1>4, <1>5, <1>6 DEF Taken, MayCreate, IsConfig, Shapes
<1>8. \A d \in Callers : waits[d] # "create"
    BY <1>2 DEF MayCreate
<1>9. Ask(c, "create", config) /\ "create" \in Kinds
    BY <1>2, <1>3 DEF Kinds
<1> QED BY <1>1, <1>7, <1>8, <1>9, WaitAsks

LEMMA InsertAsks ==
    ASSUME Inv, NEW c \in Callers, Insert(c)
    PROVE  WaitInv'
<1>1. /\ phase = "up" /\ waits[c] = "idle" /\ ending' = ending /\ UNCHANGED <<phase, mem, job>>
      /\ c \in Threads
    BY DEF Insert, MayAsk, Threads
<1>2. PICK config \in mem.published : Ask(c, "insert", config)
    BY DEF Insert
<1>3. config \in mem.registry
    BY <1>1, <1>2, Phases DEF Inv, MemInv
<1>4. "insert" \in Kinds
    BY DEF Kinds
<1> QED BY <1>1, <1>2, <1>3, <1>4, WaitAsks

\* A thread that ends has nothing to wait for.
LEMMA WaitLeaves ==
    ASSUME Inv, NEW t \in Threads, Leave(t)
    PROVE  WaitInv'
<1>0. WaitInv
    BY DEF Inv
<1>1. waits[t] = "idle" /\ waits' = [waits EXCEPT ![t] = "gone"] /\ UNCHANGED <<phase, mem, queue, job, ending>>
    BY DEF Leave
<1>2. DOMAIN waits' = Threads /\ waits'[t] = "gone" /\ \A u \in Threads : u # t => waits'[u] = waits[u]
    BY <1>0, <1>1 DEF WaitInv
<1>3. \A n \in DOMAIN queue : queue[n].from # t
    BY <1>0, <1>1 DEF WaitInv, Kinds
<1>4. phase # "opening" /\ job # Idle => job.from # t
    BY <1>1, AtIs DEF Kinds
<1>5. phase' # "opening" /\ job' # Idle =>
           /\ job'.from \in Threads /\ waits'[job'.from] = At'
           /\ \A n \in DOMAIN queue' : queue'[n].from # job'.from
    BY <1>0, <1>1, <1>2, <1>4 DEF WaitInv, At
<1>6. \A n \in DOMAIN queue' :
          queue'[n].from \in Threads /\ queue'[n].kind \in Kinds /\ waits'[queue'[n].from] = queue'[n].kind
    BY <1>0, <1>1, <1>2, <1>3 DEF WaitInv
<1>7. \A c, d \in Callers : waits'[c] = "create" /\ waits'[d] = "create" => c = d
    BY <1>0, <1>2 DEF WaitInv, Threads
<1>8. \A u \in Threads : waits'[u] \in {"create", "insert"} => u \in Callers
    BY <1>0, <1>2 DEF WaitInv
<1>9. \A n \in DOMAIN queue' :
          /\ queue'[n].kind = "create" =>
                /\ ~(queue'[n].config.id \in DOMAIN mem'.stores \/ queue'[n].config.name \in Called(mem'.registry))
                /\ IsConfig(queue'[n].config)
          /\ queue'[n].kind = "insert" => queue'[n].config \in mem'.registry
          /\ queue'[n].kind \in {"create", "insert"} => phase' = "up"
    BY <1>0, <1>1 DEF WaitInv, Taken
<1>10. /\ IsSeq(queue')
       /\ phase' \in {"opening", "down", "failed", "refused"} => queue' = <<>>
       /\ phase' # "closing" => ending' = <<>>
       /\ \A m, n \in DOMAIN queue' : queue'[m].from = queue'[n].from => m = n
    BY <1>0, <1>1 DEF WaitInv
<1> QED BY <1>2, <1>5, <1>6, <1>7, <1>8, <1>9, <1>10 DEF WaitInv, Taken

\* When close begins no caller is in a call.
LEMMA WaitEnds ==
    ASSUME Inv, Close \/ Join
    PROVE  WaitInv'
<1>0. WaitInv
    BY DEF Inv
<1>1. UNCHANGED <<mem, queue, job, waits>>
    BY DEF Close, Join
<1>2. phase' = "closing" /\ phase \in {"up", "closing"}
    BY <1>0 DEF Close, Join, WaitInv
<1>3. ASSUME Close, NEW n \in DOMAIN queue PROVE queue[n].kind \notin {"create", "insert"}
    <2>1. queue[n].from \in Threads /\ waits[queue[n].from] = queue[n].kind
        BY <1>0 DEF WaitInv
    <2>2. queue[n].kind \in {"create", "insert"} => queue[n].from \in Callers
        BY <1>0, <2>1 DEF WaitInv
    <2> QED BY <1>3, <2>1, <2>2 DEF Close
<1>4. \A n \in DOMAIN queue : queue[n].kind \notin {"create", "insert"}
    <2>1. Join => phase = "closing"
        BY <1>0 DEF Join, WaitInv
    <2> QED BY <1>0, <1>3, <2>1 DEF WaitInv
<1>5. \A n \in DOMAIN queue' :
          /\ queue'[n].kind = "create" =>
                /\ ~(queue'[n].config.id \in DOMAIN mem'.stores \/ queue'[n].config.name \in Called(mem'.registry))
                /\ IsConfig(queue'[n].config)
          /\ queue'[n].kind = "insert" => queue'[n].config \in mem'.registry
          /\ queue'[n].kind \in {"create", "insert"} => phase' = "up"
    BY <1>1, <1>4
<1>6. phase' # "opening" /\ job' # Idle =>
           /\ job'.from \in Threads /\ waits'[job'.from] = At'
           /\ \A n \in DOMAIN queue' : queue'[n].from # job'.from
    BY <1>0, <1>1, <1>2 DEF WaitInv, At
<1>7. /\ DOMAIN waits' = Threads /\ IsSeq(queue')
      /\ phase' \in {"opening", "down", "failed", "refused"} => queue' = <<>>
      /\ phase' # "closing" => ending' = <<>>
      /\ \A n \in DOMAIN queue' :
            queue'[n].from \in Threads /\ queue'[n].kind \in Kinds /\ waits'[queue'[n].from] = queue'[n].kind
      /\ \A m, n \in DOMAIN queue' : queue'[m].from = queue'[n].from => m = n
      /\ \A c, d \in Callers : waits'[c] = "create" /\ waits'[d] = "create" => c = d
      /\ \A t \in Threads : waits'[t] \in {"create", "insert"} => t \in Callers
    BY <1>0, <1>1, <1>2 DEF WaitInv
<1> QED BY <1>5, <1>6, <1>7 DEF WaitInv, Taken

LEMMA TalkStep ==
    ASSUME Inv, Talks \/ Close
    PROVE  Inv'
<1>1. Rests
    BY TalkKeeps, CloseDoes DEF Rests
<1>2. {"flusher", "compactor", "main"} \subseteq Threads /\ {"checkpoint", "control"} \subseteq Kinds
    BY DEF Threads, Kinds
<1>3. WaitInv'
    <2>3. CASE \E c \in Callers : Create(c) \/ Insert(c)
        BY <2>3, CreateAsks, InsertAsks
    <2>4. CASE Tick
        <3>1. /\ phase \in {"up", "closing"} /\ waits["flusher"] = "idle" /\ Ask("flusher", "checkpoint", NoConfig)
              /\ UNCHANGED <<phase, mem, job, ending>>
            BY <2>4 DEF Tick
        <3> QED BY <1>2, <3>1, WaitAsks
    <2>5. CASE Compact
        <3>1. /\ phase \in {"up", "closing"} /\ waits["compactor"] = "idle" /\ Ask("compactor", "control", NoConfig)
              /\ UNCHANGED <<phase, mem, job, ending>>
            BY <2>5 DEF Compact
        <3> QED BY <1>2, <3>1, WaitAsks
    <2>6. CASE LastCheckpoint
        <3>1. /\ waits["main"] = "idle" /\ Ask("main", "checkpoint", NoConfig)
              /\ UNCHANGED <<phase, mem, job>> /\ ending # <<>>
            BY <2>6 DEF LastCheckpoint
        <3>2. phase = "closing"
            BY <3>1 DEF Inv, WaitInv
        <3> QED BY <1>2, <3>1, <3>2, WaitAsks
    <2>7. CASE Refuse \/ Control
        <3>1. /\ phase \in {"up", "closing"} /\ queue # <<>> /\ job = Idle /\ queue' = Tail(queue)
              /\ UNCHANGED <<phase, ending, mem, job>> /\ Answer(Asked.from)
            BY <2>7 DEF Refuse, Control, Free, Asked
        <3> QED BY <3>1, WaitTakes
    <2>8. CASE Leave("compactor") \/ Leave("flusher")
        BY <1>2, <2>8, WaitLeaves
    <2>9. CASE Close \/ Join
        BY <2>9, WaitEnds
    <2> QED BY <2>3, <2>4, <2>5, <2>6, <2>7, <2>8, <2>9 DEF Talks
<1> QED BY <1>1, <1>3, RestsKeepsFiles, RestsKeepsMemory DEF Inv

-----------------------------------------------------------------------------
(* The invariant, from the first state on.                                 *)
LEMMA Begins == Init => Inv
<1> SUFFICES ASSUME Init PROVE Inv
    OBVIOUS
<1>1. /\ phase = "down" /\ mem = NoMemory /\ queue = <<>> /\ job = Idle /\ ending = <<>>
      /\ DOMAIN waits = Threads /\ \A t \in Threads : waits[t] = "idle"
      /\ told.configs = {} /\ told.inserts = {}
    BY DEF Init
<1>2. /\ disk.log = {} /\ disk.dirs = <<>> /\ disk.catalog = NoFile
    BY DEF Init
<1>3. DOMAIN disk.dirs = {}
    BY <1>2
<1>4. disk.catalog.entry = Absent /\ disk.catalog.flushed = Absent
    BY <1>2 DEF NoFile
<1>5. /\ Absent.there = FALSE /\ Absent.synced = TRUE
      /\ Absent = [there |-> Absent.there, bytes |-> Absent.bytes, synced |-> TRUE]
    BY DEF Absent
<1>6. /\ LoadCatalog(Absent).ok = TRUE /\ LoadCatalog(Absent).configs = {} /\ LoadCatalog(Absent).lsn = 0
    <2>1. LoadCatalog(Absent) = [ok |-> TRUE, configs |-> {}, lsn |-> 0]
        BY <1>5, AbsentIsEmpty
    <2> QED BY <2>1
<1>7. IsContent(Absent)
    <2>1. IsConfigs({})
        BY FS_EmptySet DEF IsConfigs
    <2>2. IsConfigs(LoadCatalog(Absent).configs) /\ LoadCatalog(Absent).lsn \in Nat
        BY <1>6, <2>1
    <2> QED BY <1>5, <1>6, <2>2 DEF IsContent
<1>8. Entry.configs = {} /\ Flushed.configs = {} /\ Entry.lsn = 0 /\ Flushed.lsn = 0
    BY <1>4, <1>6 DEF Entry, Flushed
<1>9. job.kind = "none" /\ job.step = 0
    BY <1>1, IdleFields
<1>10. ~Loaded
    BY <1>1 DEF Loaded
<1>11. TypeInv
    BY TypeInit
<1>12. LogInv
    BY <1>2 DEF LogInv, LogOK
<1>13. FileInv
    BY <1>4, <1>7, <1>9, StepGoes DEF FileInv
<1>14. RecallInv
    <2>1. Fresh
        BY <1>1, <1>2, <1>3 DEF Fresh
    <2>2. disk.catalog.entry.there = FALSE /\ disk.catalog.flushed.there = FALSE
        BY <1>4, <1>5
    <2>3. RecallOK(FALSE, Entry, disk.log, told.configs, told.inserts, Entry.configs)
        BY <1>1, <1>2, <1>8 DEF RecallOK
    <2>4. RecallOK(FALSE, Flushed, disk.log, told.configs, told.inserts, Entry.configs)
        BY <1>1, <1>2, <1>8 DEF RecallOK
    <2> QED BY <1>8, <2>1, <2>2, <2>3, <2>4 DEF RecallInv
<1>15. DirInv
    BY <1>1, <1>3 DEF DirInv
<1>16. KnownInv
    <2>1. Known(Entry.configs, disk.log) = {}
        BY <1>2, <1>8 DEF Known
    <2>2. KnownIn({}, disk.dirs)
        BY <1>3 DEF KnownIn, Distinct
    <2> QED BY <2>1, <2>2 DEF KnownInv
<1>17. CoverInv
    <2>1. Marks(disk.dirs) = {0}
        BY <1>3, <1>8 DEF Marks
    <2>2. Bases = {0}
        BY <1>8 DEF Bases
    <2>3. MemLsns = {}
        BY <1>10 DEF MemLsns
    <2> QED BY <2>1, <2>2, <2>3 DEF CoverInv, Above0
<1>18. MemInv /\ HomeInv
    BY <1>10 DEF MemInv, HomeInv
<1>19. JobInv
    BY <1>1, <1>9, NoMemoryFields DEF JobInv
<1>20. RegisterInv /\ ApplyInv /\ CheckpointInv
    BY <1>9 DEF RegisterInv, ApplyInv, CheckpointInv
<1>21. WaitInv
    <2>1. <<>> \in Seq({}) /\ DOMAIN <<>> = {}
        OBVIOUS
    <2>2. IsSeq(queue) /\ DOMAIN queue = {}
        BY <1>1, <2>1, SeqIs
    <2>3. /\ phase # "closing" /\ ending = <<>>
          /\ \A c, d \in Callers : waits[c] = "create" /\ waits[d] = "create" => c = d
          /\ \A t \in Threads : waits[t] \in {"create", "insert"} => t \in Callers
        BY <1>1 DEF Threads
    <2> QED BY <1>1, <2>2, <2>3 DEF WaitInv
<1> QED BY <1>11, <1>12, <1>13, <1>14, <1>15, <1>16, <1>17, <1>18, <1>19, <1>20, <1>21 DEF Inv

(* Every step keeps the invariant.                                         *)
LEMMA Continued ==
    ASSUME OneKindOfFailure, OneList, Inv, [Next]_vars
    PROVE  Inv'
<1>1. CASE Works
    <2>1. TypeInv'
        BY <1>1, TypeStep DEF Inv
    <2>2. LogInv' /\ FileInv' /\ RecallInv' /\ DirInv' /\ KnownInv'
        BY <1>1, LogStep, FileStep, RecallStep, DirStep, KnownStep
    <2>3. CoverInv' /\ MemInv' /\ HomeInv' /\ JobInv'
        BY <1>1, CoverStep, MemStep, HomeStep, JobStep
    <2>4. RegisterInv' /\ ApplyInv' /\ CheckpointInv' /\ WaitInv'
        BY <1>1, RegisterStep, ApplyStep, CheckpointStep, WaitStep
    <2> QED BY <2>1, <2>2, <2>3, <2>4 DEF Inv
<1>2. CASE Talks \/ Close
    BY <1>2, TalkStep
<1>3. CASE UNCHANGED vars
    <2>1. UNCHANGED <<phase, mem, disk, job, told, queue, waits, ending>>
        BY <1>3 DEF vars
    <2>2. Rests
        BY <2>1 DEF Rests
    <2>3. WaitInv'
        BY <2>1 DEF Inv, WaitInv, At, Taken
    <2> QED BY <2>2, <2>3, RestsKeepsFiles, RestsKeepsMemory DEF Inv
<1> QED BY <1>1, <1>2, <1>3, NextSplits

(* The catalog, its file, the log, the directories, memory and the queue   *)
(* fit together at every step of a create, a checkpoint, an open, a close  *)
(* and a crash (Db::open, IndexApplier::apply_create and checkpoint).      *)
THEOREM Invariance ==
    ASSUME OneKindOfFailure, OneList
    PROVE  Spec => []Inv
<1>1. Init => Inv
    BY Begins
<1>2. Inv /\ [Next]_vars => Inv'
    BY Continued
<1> QED BY <1>1, <1>2, PTL DEF Spec

-----------------------------------------------------------------------------
(* When the Db is up nothing is awaited any more.                          *)
LEMMA InvIsComplete == Inv => CatalogComplete
<1> SUFFICES ASSUME Inv, phase = "up"
             PROVE  /\ told.configs \subseteq mem.published /\ mem.published = mem.registry
                    /\ Cardinality(Ids(mem.registry)) = Cardinality(mem.registry)
                    /\ Cardinality(Called(mem.registry)) = Cardinality(mem.registry)
                    /\ \A i \in told.inserts :
                          i.config \in mem.published /\ i.lsn \in mem.stores[i.config.id].rows
    BY DEF CatalogComplete
<1>1. Loaded /\ phase # "opening"
    BY DEF Loaded
<1>2. /\ mem.published = mem.registry /\ IsFiniteSet(mem.registry) /\ Distinct(mem.registry)
      /\ DOMAIN mem.stores = Ids(mem.registry) /\ told.configs \subseteq mem.registry
    BY <1>1 DEF Inv, MemInv, IsConfigs
<1>3. /\ Cardinality(Ids(mem.registry)) = Cardinality(mem.registry)
      /\ Cardinality(Called(mem.registry)) = Cardinality(mem.registry)
    BY <1>2, IdsCounted, NamesCounted DEF Distinct
<1>4. ASSUME NEW i \in told.inserts
      PROVE  i.config \in mem.published /\ i.lsn \in mem.stores[i.config.id].rows
    <2>1. HomeInv
        BY DEF Inv
    <2>2. i.config \in mem.registry
        BY <1>1, <2>1 DEF HomeInv
    <2>3. i.config.id \in DOMAIN mem.stores
        BY <1>2, <2>2 DEF Ids
    <2> QED BY <1>1, <1>2, <2>1, <2>2, <2>3 DEF HomeInv
<1> QED BY <1>2, <1>3, <1>4

(* A collection that a caller was told exists is there whenever the Db is  *)
(* up, with its id, name and schema, and so is every acknowledged insert,  *)
(* after any crashes and power cuts and any number of failures of one      *)
(* kind (Db::create_collection, Db::open).                                 *)
THEOREM CollectionsAreKept ==
    ASSUME OneKindOfFailure, OneList
    PROVE  Spec => []CatalogComplete
<1>1. Inv => CatalogComplete
    BY InvIsComplete
<1>2. Spec => []Inv
    BY Invariance
<1> QED BY <1>1, <1>2, PTL

-----------------------------------------------------------------------------
(* No step of opening finds what it cannot take.                           *)
LEMMA InsertIsOfTheRegistered ==
    ASSUME Inv, phase = "opening", job.kind = "apply", job.frame.kind = "insert"
    PROVE  job.frame.config.id \in DOMAIN mem.stores
<1>1. Loaded /\ job.frame \in disk.log /\ job.frame.lsn = mem.read
    BY Phases DEF Inv, ApplyInv
<1>2. ~Awaited(job.frame.config)
    <2> SUFFICES ASSUME NEW g \in disk.log, g.kind = "create", g.config = job.frame.config,
                        ToCome(g) \/ Doing(g)
                 PROVE  FALSE
        BY DEF Awaited
    <2>1. g.lsn > mem.read
        BY DEF ToCome, Doing
    <2>2. g.lsn < job.frame.lsn
        BY <1>1 DEF Inv, LogInv, LogOK
    <2>3. g.lsn \in Nat /\ job.frame.lsn \in Nat
        BY <1>1 DEF Inv, LogInv, LogOK, IsFrame
    <2> QED BY <1>1, <2>1, <2>2, <2>3
<1>3. job.frame.config \in mem.registry
    BY <1>1, <1>2 DEF Inv, HomeInv
<1> QED BY <1>1, <1>3 DEF Inv, MemInv, Ids

LEMMA KnownOpensAgain ==
    ASSUME Inv, NoFlush \/ OneShape, NEW c \in Known(Entry.configs, disk.log), c.id \notin disk.half
    PROVE  Opens(c)
<1> SUFFICES ASSUME c.id \in DOMAIN disk.dirs PROVE disk.dirs[c.id].store.shape = c.shape
    BY DEF Opens
<1>1. CASE NoFlush
    BY <1>1 DEF Inv, KnownInv, KnownIn
<1>2. CASE OneShape
    <2>1. disk.dirs[c.id].store.shape \in Shapes
        BY DEF Inv, DirInv, IsDir, IsStore
    <2>2. IsConfigs(Entry.configs)
        BY DEF Inv, FileInv, IsContent, Entry
    <2>3. \A f \in disk.log : IsConfig(f.config)
        BY DEF Inv, LogInv, LogOK, IsFrame
    <2>4. c.shape \in Shapes
        BY <2>2, <2>3, KnownAre DEF IsConfigs, IsConfig
    <2> QED BY <1>2, <2>1, <2>4 DEF OneShape
<1> QED BY <1>1, <1>2

LEMMA OpensStep ==
    ASSUME Inv, NoFlush \/ OneShape, [Next]_vars, phase # "refused", disk.half = {}
    PROVE  phase' # "refused"
<1>0. TypeInv
    BY DEF Inv
<1>1. \A how : Broken(how) => phase' = phase \/ (phase = "opening" /\ phase' = how)
    BY DEF Broken
<1>2. CASE ApplyInsert
    <2>1. job.kind = "apply" /\ job.frame.kind = "insert"
        BY <1>2 DEF ApplyInsert, Applying
    <2>2. ApplyInsertMisses \/ ApplyInsertWrites
        BY <1>0, <1>2, <2>1, ApplyInsertDoes, StoresAre
    <2>3. ApplyInsertMisses => phase # "opening"
        BY <2>1, InsertIsOfTheRegistered DEF ApplyInsertMisses
    <2> QED BY <1>1, <2>2, <2>3 DEF ApplyInsertMisses, ApplyInsertWrites
<1>3. CASE CreateStores
    <2>1. CreateStoresMisses \/ CreateStoresMakes
        BY <1>0, <1>3, CreateStoresDoes
    <2>2. ASSUME CreateStoresMisses PROVE FALSE
        <3>1. job.kind = "apply" /\ job.frame.kind = "create" /\ ~Opens(job.frame.config)
            BY <2>2 DEF CreateStoresMisses, Creating
        <3>2. job.frame.config \in Known(Entry.configs, disk.log)
            BY <3>1, AppliedIs, KnownAre
        <3> QED BY <3>1, <3>2, KnownOpensAgain
    <2> QED BY <2>1, <2>2 DEF CreateStoresMakes
<1>4. CASE MakeMissing
    <2>1. job.kind = "register" /\ job.step > 5
          /\ (MissingMisses \/ \E c \in mem.registry : MissingMakes(c))
        BY <1>0, <1>4, MakeMissingDoes
    <2>2. ASSUME MissingMisses PROVE FALSE
        <3>1. PICK c \in mem.registry : ~Opens(c)
            BY <2>2 DEF MissingMisses
        <3>2. Entry.configs = mem.registry
            BY <2>1 DEF Inv, JobInv, RegisterInv
        <3> QED BY <3>1, <3>2, KnownAre, KnownOpensAgain
    <2> QED BY <2>1, <2>2 DEF MissingMakes
<1>5. CASE Start
    <2>1. LoadCatalog(disk.catalog.entry).ok = TRUE
        BY DEF Inv, FileInv, IsContent
    <2>2. StartRefuses \/ StartFails \/ \E supplied \in Openings : StartRegisters(supplied)
        BY <1>0, <1>5, StartDoes, StoresAre
    <2> QED BY <2>1, <2>2 DEF StartRefuses, StartFails, StartRegisters
<1>6. CASE LogFrame \/ LogFails \/ StartCheckpoint
    BY <1>0, <1>6, LogFrameDoes, LogFailsDoes, StartCheckpointDoes
<1>7. CASE CreateAgain \/ CreateEntry \/ Publish \/ WriteCatalog
    BY <1>7 DEF CreateAgain, CreateEntry, Publish, WriteCatalog, Done
<1>8. CASE StepFails
    BY <1>0, <1>1, <1>8, StepFailsDoes
<1>9. CASE SaveStores \/ Truncate \/ OpenStores \/ Replay \/ Ready \/ Shutdown \/ Kill
    BY <1>9 DEF SaveStores, Truncate, OpenStores, Replay, Ready, Shutdown, Kill, Done
<1>10. CASE Talks \/ Close
    BY <1>10, TalkKeeps, CloseDoes
<1>11. CASE UNCHANGED vars
    BY <1>11 DEF vars
<1> QED
    BY <1>2, <1>3, <1>4, <1>5, <1>6, <1>7, <1>8, <1>9, <1>10, <1>11, NextSplits DEF Works

\* What is found is left as it is.
LEMMA RefusedKeeps ==
    ASSUME Inv, [Next]_vars, phase' = "refused"
    PROVE  disk' = disk
<1>0. TypeInv /\ JobInv
    BY DEF Inv
<1>1. CASE ~Works
    BY <1>1, TalkKeeps, CloseDoes, NextSplits DEF vars
<1>2. CASE Works /\ phase \in {"opening", "up", "closing"}
    <2>1. phase' # phase
        BY <1>2
    <2>2. \A how : Broken(how) => phase' = phase \/ phase' = how
        BY DEF Broken
    <2>3. CASE ApplyInsert
        BY <2>1, <2>3 DEF ApplyInsert, Done
    <2>4. CASE CreateStores
        BY <2>1, <2>4 DEF CreateStores
    <2>5. CASE MakeMissing
        BY <2>1, <2>5 DEF MakeMissing
    <2>6. ~LogFrame /\ ~LogFails /\ ~StartCheckpoint
        BY <2>1 DEF LogFrame, LogFails, StartCheckpoint
    <2>7. ~CreateAgain /\ ~CreateEntry /\ ~Publish /\ ~WriteCatalog
        BY <2>1 DEF CreateAgain, CreateEntry, Publish, WriteCatalog, Done
    <2>8. ~StepFails
        BY <2>1, <2>2 DEF StepFails
    <2>9. ~SaveStores /\ ~Truncate /\ ~OpenStores /\ ~Replay
        BY <2>1 DEF SaveStores, Truncate, OpenStores, Replay, Done
    <2>10. ~Ready /\ ~Shutdown /\ ~Kill
        BY DEF Ready, Shutdown, Kill
    <2>11. ~Start
        BY <1>2 DEF Start
    <2> QED BY <1>2, <2>3, <2>4, <2>5, <2>6, <2>7, <2>8, <2>9, <2>10, <2>11 DEF Works
<1>3. CASE Works /\ phase \notin {"opening", "up", "closing"}
    <2>1. job.kind = "none" /\ job.step = 0
        BY <1>0, <1>3, IdleFields DEF JobInv
    <2>2. CASE Start
        BY <2>2 DEF Start
    <2>3. ~ApplyInsert /\ ~CreateAgain /\ ~CreateStores /\ ~CreateEntry /\ ~Publish
        BY <2>1 DEF ApplyInsert, CreateAgain, CreateStores, CreateEntry, Publish, Applying
    <2>4. ~WriteCatalog /\ ~StepFails /\ ~SaveStores /\ ~Truncate
        BY <2>1, StepsAre DEF WriteCatalog, StepFails, SaveStores, Truncate
    <2>5. ~MakeMissing /\ ~OpenStores /\ ~Replay /\ ~Ready
        BY <1>3, <2>1 DEF MakeMissing, OpenStores, Replay, Ready
    <2>6. ~LogFrame /\ ~LogFails /\ ~StartCheckpoint
        BY <1>3 DEF LogFrame, LogFails, StartCheckpoint, Free
    <2>7. ~Shutdown /\ ~Kill
        BY DEF Shutdown, Kill
    <2> QED BY <1>3, <2>2, <2>3, <2>4, <2>5, <2>6, <2>7 DEF Works
<1> QED BY <1>1, <1>2, <1>3

(* No crash or failed step keeps the Db from being opened but one that     *)
(* leaves a vectors.idx half made: an insert is replayed after its         *)
(* collection's create, and what has a directory has it with its schema,   *)
(* unless a flush of the log that failed left the create of another schema *)
(* (Db::open, open_collection).                                            *)
THEOREM AlwaysOpens ==
    ASSUME OneKindOfFailure, OneList, NoFlush \/ OneShape
    PROVE  Spec => []OpensAgain
<1>1. Init => OpensAgain
    BY DEF Init, OpensAgain
<1>2. Inv /\ OpensAgain /\ [Next]_vars => OpensAgain'
    <2> SUFFICES ASSUME Inv, OpensAgain, [Next]_vars, phase' = "refused" PROVE disk'.half # {}
        BY DEF OpensAgain
    <2>1. disk' = disk
        BY RefusedKeeps
    <2>2. disk.half # {}
        BY OpensStep DEF OpensAgain
    <2> QED BY <2>1, <2>2
<1>3. Spec => []Inv
    BY Invariance
<1> QED BY <1>1, <1>2, <1>3, PTL DEF Spec
=============================================================================
