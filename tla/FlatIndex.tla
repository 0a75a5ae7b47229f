------------------------------ MODULE FlatIndex ------------------------------
(***************************************************************************)
(* The memory-mapped vector file of one collection                         *)
(* (src/src/index/index.rs): one writer, lock-free readers that trust a    *)
(* published count, and a checkpoint that alternates two header slots so   *)
(* that a torn header never loses the watermark.                           *)
(*                                                                         *)
(* A vector is the LSN of the record that wrote it, and a write takes two  *)
(* steps, a vector's and a header's.  Two things end the process.  A kill  *)
(* leaves every page as it was mapped, written to disk or not: the next    *)
(* process maps the same pages.  A power cut leaves of a page that was not *)
(* flushed the old page, the new one or a torn one.  The log in front of   *)
(* the file and the liveness bitmap behind it are reduced to what the file *)
(* needs of them: records above `base` come back, and a row is admitted    *)
(* once its vector is written.                                             *)
(***************************************************************************)
EXTENDS Integers, Sequences, FiniteSets, FiniteSetsExt, Functions

CONSTANTS
    Capacity, \* vectors the file holds
    Readers,  \* query threads
    MaxLog,   \* bound: records ever logged
    MaxSeq    \* bound: header sequence numbers

ASSUME FlatIndexAssumption == Capacity \in Nat \ {0} /\ MaxLog \in Nat /\ MaxSeq \in Nat

VARIABLES
    log,     \* the ordinal of every durable record, its LSN its position
    base,    \* records up to base are no longer in the log
    pc,      \* "idle" | "write" | "publish" | "admit" | "data" | "stage" | "staging"
             \*   | "header" | "truncate" | "down" | "replay"
    vectors, \* the mapping: per ordinal, an LSN, 0 or Torn
    count,   \* the published high-water mark
    applied, \* last_applied
    headers, \* the two header slots in the mapping
    active,  \* the slot the open handle trusts
    seq,     \* its sequence number
    saved,   \* the mark and the LSN begin_checkpoint read
    disk,    \* vectors and headers as last written to disk
    watermark, \* history: "durable" | "exposed", a header was staged over the only
               \*   one flushed | "lost", open took a header below the log
    live,    \* the rows a snapshot admits
    snap,    \* per reader, the snapshot it scans with, {} between scans
    bound    \* per reader, the count it loaded, NotLoaded before

vars == <<log, base, pc, vectors, count, applied, headers, active, seq, saved, disk,
          watermark, live, snap, bound>>
mapped == <<vectors, count, headers, active, seq>>
stored == <<disk, watermark>>
scans == <<live, snap, bound>>

Ordinals == 0 .. Capacity - 1
Torn == -1
Slot == [count : 0 .. Capacity, lsn : 0 .. MaxLog, seq : Nat \cup {-1}]
BadSlot == [count |-> 0, lsn |-> 0, seq |-> -1]   \* fails its checksum
Valid(h) == h.seq >= 0
NotLoaded == -1

Init ==
    /\ log = <<>> /\ base = 0 /\ pc = "idle"
    /\ vectors = [o \in Ordinals |-> 0] /\ count = 0 /\ applied = 0
    /\ headers = [s \in {0, 1} |-> [count |-> 0, lsn |-> 0, seq |-> 0]]
    /\ active = 0 /\ seq = 0 /\ saved = [count |-> 0, lsn |-> 0]
    /\ disk = [vectors |-> vectors, headers |-> headers] /\ watermark = "durable"
    /\ live = {} /\ snap = [r \in Readers |-> {}] /\ bound = [r \in Readers |-> NotLoaded]

(***************************************************************************)
(* One insert: the record is durable in the log, then the writer copies    *)
(* the vector, publishes the count, and the row is admitted.  Callers take *)
(* ordinals before they reach the log, so they come in any order.          *)
(***************************************************************************)
Ord(l) == log[l]

\* Variant: the row is admitted before its vector is written.
Logged_AdmitsFirst(o) ==
    /\ pc = "idle" /\ Len(log) < MaxLog
    /\ \A l \in DOMAIN log : Ord(l) # o
    /\ log' = Append(log, o)
    /\ vectors' = [vectors EXCEPT ![o] = Torn]
    /\ live' = live \cup {o}
    /\ pc' = "write"
    /\ UNCHANGED <<base, count, applied, headers, active, seq, saved, stored, snap, bound>>

Logged(o) ==
    /\ pc = "idle" /\ Len(log) < MaxLog
    /\ \A l \in DOMAIN log : Ord(l) # o
    /\ log' = Append(log, o)
    /\ vectors' = [vectors EXCEPT ![o] = Torn]
    /\ pc' = "write"
    /\ UNCHANGED <<base, count, applied, headers, active, seq, saved, stored, scans>>

Copied ==
    /\ pc = "write"
    /\ vectors' = [vectors EXCEPT ![Ord(Len(log))] = Len(log)]
    /\ pc' = "publish"
    /\ UNCHANGED <<log, base, count, applied, headers, active, seq, saved, stored, scans>>

Publish ==
    /\ pc = "publish"
    /\ count' = Max({count, Ord(Len(log)) + 1})
    /\ pc' = "admit"
    /\ UNCHANGED <<log, base, vectors, applied, headers, active, seq, saved, stored, scans>>

Admit ==
    /\ pc = "admit"
    /\ live' = live \cup {Ord(Len(log))} /\ applied' = Len(log)
    /\ pc' = "idle"
    /\ UNCHANGED <<log, base, mapped, saved, stored, snap, bound>>

(***************************************************************************)
(* A query takes the snapshot, loads the count once and scans the rows     *)
(* below it that the snapshot admits.                                      *)
(***************************************************************************)
TakeSnapshot(r) ==
    /\ pc \notin {"down", "replay"} /\ snap[r] = {} /\ live # {}
    /\ snap' = [snap EXCEPT ![r] = live]
    /\ UNCHANGED <<log, base, pc, mapped, applied, saved, stored, live, bound>>

LoadCount(r) ==
    /\ snap[r] # {} /\ bound[r] = NotLoaded
    /\ bound' = [bound EXCEPT ![r] = count]
    /\ UNCHANGED <<log, base, pc, mapped, applied, saved, stored, live, snap>>

EndScan(r) ==
    /\ bound[r] # NotLoaded
    /\ snap' = [snap EXCEPT ![r] = {}] /\ bound' = [bound EXCEPT ![r] = NotLoaded]
    /\ UNCHANGED <<log, base, pc, mapped, applied, saved, stored, live>>

(***************************************************************************)
(* The checkpoint: begin_checkpoint, sync_data (a), stage_watermark (b),   *)
(* sync_header (c); the log is truncated after it.                         *)
(***************************************************************************)
BeginCheckpoint ==
    /\ pc = "idle" /\ seq < MaxSeq
    /\ saved' = [count |-> count, lsn |-> applied]
    /\ pc' = "data"
    /\ UNCHANGED <<log, base, mapped, applied, stored, scans>>

\* Variant: the vector pages are left to the operating system.
SyncData_Never ==
    /\ pc = "data"
    /\ pc' = "stage"
    /\ UNCHANGED <<log, base, mapped, applied, saved, stored, scans>>

SyncData ==
    /\ pc = "data"
    /\ disk' = [disk EXCEPT !.vectors = vectors]
    /\ pc' = "stage"
    /\ UNCHANGED <<log, base, mapped, applied, saved, watermark, scans>>

\* Variant: the header is rewritten in place.
Target_Active == active

\* The slot a checkpoint stages into.
Target == 1 - active

\* write_slot in two steps: of the slot half written no checksum holds.
Overwrite ==
    /\ pc = "stage"
    /\ headers' = [headers EXCEPT ![Target] = BadSlot]
    /\ watermark' = IF watermark = "durable" /\ headers[active] # disk.headers[active]
                    THEN "exposed" ELSE watermark
    /\ pc' = "staging"
    /\ UNCHANGED <<log, base, vectors, count, applied, active, seq, saved, disk, scans>>

StageWatermark ==
    /\ pc = "staging"
    /\ headers' = [headers EXCEPT ![Target] =
                      [count |-> saved.count, lsn |-> saved.lsn, seq |-> seq + 1]]
    /\ pc' = "header"
    /\ UNCHANGED <<log, base, vectors, count, applied, active, seq, saved, stored, scans>>

\* Only the staged slot's page is flushed.
SyncHeader ==
    /\ pc = "header"
    /\ disk' = [disk EXCEPT !.headers[Target] = headers[Target]]
    /\ watermark' = IF watermark = "exposed" THEN "durable" ELSE watermark
    /\ active' = Target /\ seq' = seq + 1
    /\ pc' = "truncate"
    /\ UNCHANGED <<log, base, vectors, count, applied, headers, saved, scans>>

Truncate ==
    /\ pc = "truncate"
    /\ base' = saved.lsn
    /\ pc' = "idle"
    /\ UNCHANGED <<log, mapped, applied, saved, stored, scans>>

\* The pages not known to be on disk, and what may be there instead.
Unflushed(m, d) == {i \in DOMAIN m : m[i] # d[i]}
VectorPages ==
    LET dirty == Unflushed(vectors, disk.vectors)
    IN  {[o \in Ordinals |-> IF o \in new THEN vectors[o]
                             ELSE IF o \in torn THEN Torn ELSE disk.vectors[o]] :
            new \in SUBSET dirty, torn \in SUBSET dirty}
HeaderPages ==
    LET dirty == Unflushed(headers, disk.headers)
    IN  {[s \in {0, 1} |-> IF s \in new THEN headers[s]
                           ELSE IF s \in torn THEN BadSlot ELSE disk.headers[s]] :
            new \in SUBSET dirty, torn \in SUBSET dirty}

\* flush_range fails: some of its pages may be written, the round is over.
SyncFails ==
    /\ \/ pc = "data" /\ \E v \in VectorPages : disk' = [disk EXCEPT !.vectors = v]
       \/ pc = "header" /\ \E h \in HeaderPages :
                               disk' = [disk EXCEPT !.headers[Target] = h[Target]]
    /\ pc' = "idle"
    /\ UNCHANGED <<log, base, mapped, applied, saved, watermark, scans>>

\* The system writes a header's page when it likes.
WriteBack(s) ==
    /\ headers[s] # disk.headers[s]
    /\ disk' = [disk EXCEPT !.headers[s] = headers[s]]
    /\ UNCHANGED <<log, base, pc, mapped, applied, saved, watermark, scans>>

ProcessEnds ==
    /\ pc' = "down"
    /\ count' = 0 /\ applied' = 0 /\ active' = 0 /\ seq' = 0
    /\ saved' = [count |-> 0, lsn |-> 0]
    /\ live' = {} /\ snap' = [r \in Readers |-> {}]
    /\ bound' = [r \in Readers |-> NotLoaded]
    /\ UNCHANGED <<log, base>>

\* The process alone: its pages stay in the page cache, flushed or not.
Kill ==
    /\ pc # "down"
    /\ ProcessEnds
    /\ UNCHANGED <<vectors, headers, stored>>

\* FlatIndex::open takes the newest valid slot, the first on a tie.
Freshest(h) == IF Valid(h[1]) /\ (Valid(h[0]) => h[1].seq > h[0].seq) THEN 1 ELSE 0

\* Open finds a header, and the log the records above it.
Opens(h) == LET s == Freshest(h) IN Valid(h[s]) /\ base <= h[s].lsn

\* The machine stops, whether or not the process had ended before.
PowerCut ==
    /\ \E v \in VectorPages, h \in HeaderPages : disk' = [vectors |-> v, headers |-> h]
    /\ vectors' = disk'.vectors /\ headers' = disk'.headers
    /\ watermark' = IF watermark = "exposed" /\ Opens(disk'.headers)
                    THEN "durable" ELSE watermark
    /\ ProcessEnds

\* What open trusts it does not flush, nor does it ask the log for its base.
Open ==
    /\ pc = "down"
    /\ Valid(headers[Freshest(headers)])
    /\ LET s == Freshest(headers)
       IN  /\ active' = s /\ seq' = headers[s].seq
           /\ count' = headers[s].count /\ applied' = headers[s].lsn
           /\ watermark' = IF headers[s].lsn < base THEN "lost" ELSE watermark
    /\ pc' = "replay"
    /\ UNCHANGED <<log, base, vectors, headers, saved, disk, scans>>

\* Recovery writes the records of the log above the watermark again.
NextFrame == Max({applied, base}) + 1
Replay ==
    /\ pc = "replay" /\ NextFrame <= Len(log)
    /\ vectors' = [vectors EXCEPT ![Ord(NextFrame)] = NextFrame]
    /\ count' = Max({count, Ord(NextFrame) + 1})
    /\ applied' = NextFrame
    /\ UNCHANGED <<log, base, pc, headers, active, seq, saved, stored, scans>>

Ready ==
    /\ pc = "replay" /\ NextFrame > Len(log)
    /\ live' = {log[l] : l \in DOMAIN log}
    /\ pc' = "idle"
    /\ UNCHANGED <<log, base, mapped, applied, saved, stored, snap, bound>>

Next ==
    \/ \E o \in Ordinals : Logged(o)
    \/ Copied \/ Publish \/ Admit
    \/ \E r \in Readers : TakeSnapshot(r) \/ LoadCount(r) \/ EndScan(r)
    \/ BeginCheckpoint \/ SyncData \/ Overwrite \/ StageWatermark \/ SyncHeader \/ Truncate
    \/ SyncFails \/ \E s \in {0, 1} : WriteBack(s)
    \/ Kill \/ PowerCut \/ Open \/ Replay \/ Ready

Spec == Init /\ [][Next]_vars
-----------------------------------------------------------------------------
TypeOK ==
    /\ log \in Seq(Ordinals) /\ Len(log) <= MaxLog
    /\ base \in 0 .. MaxLog /\ applied \in 0 .. MaxLog /\ count \in 0 .. Capacity
    /\ pc \in {"idle", "write", "publish", "admit", "data", "stage", "staging", "header",
               "truncate", "down", "replay"}
    /\ vectors \in [Ordinals -> Nat \cup {Torn}] /\ headers \in [{0, 1} -> Slot]
    /\ disk \in [vectors : [Ordinals -> Nat \cup {Torn}], headers : [{0, 1} -> Slot]]
    /\ active \in {0, 1} /\ seq \in Nat /\ watermark \in {"durable", "exposed", "lost"}
    /\ saved \in [count : 0 .. Capacity, lsn : 0 .. MaxLog]
    /\ live \subseteq Ordinals /\ snap \in [Readers -> SUBSET Ordinals]
    /\ bound \in [Readers -> Nat \cup {NotLoaded}]

\* A header on disk never claims more than the pages under it hold: each
\* record up to its LSN is there, whole, below its count.  Once records are
\* lost, no header can be.
Honest(h, v) ==
    Valid(h) => \A l \in 1 .. h.lsn : l <= Len(log) /\ v[Ord(l)] = l /\ Ord(l) < h.count
HeaderHonest ==
    watermark # "lost" => \A s \in {0, 1} : Honest(disk.headers[s], disk.vectors)

\* Whatever is left of the headers if the power goes now, open finds one, and
\* the log still holds every record above it, unless a checkpoint staged a
\* header over the only one flushed (index.rs:446-482).
Reopens == watermark = "durable" => \A h \in HeaderPages : Opens(h)

\* index.rs:56-58: "Two slots on separate pages are alternated each
\* checkpoint ... so a torn header flush can't lose the watermark."  It can:
\* the slot open trusts may never have been flushed.
TornFlushKeepsWatermark == \A h \in HeaderPages : Opens(h)

\* A scan reads every row of its snapshot, and none of them is one the
\* writer is in the middle of.
ScanSound ==
    watermark # "lost" =>
        \A r \in Readers : bound[r] # NotLoaded =>
            \A o \in snap[r] : o < bound[r] /\ vectors[o] > 0
=============================================================================
