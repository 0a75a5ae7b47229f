-------------------------- MODULE FlatIndex_proofs --------------------------
(***************************************************************************)
(* Theorems about FlatIndex, for any capacity, number of readers, length   *)
(* of the log and number of checkpoints.                                   *)
(*                                                                         *)
(* The argument: an ordinal is logged once, so a page only ever gets the   *)
(* record it was logged for.  Whatever a valid header claims is the same   *)
(* in the mapping and on disk, hence clean, hence kept by every crash.     *)
(* The slot an open handle trusts need not be: after a kill it may be one  *)
(* that was staged and not flushed.  As long as the watermark is durable   *)
(* some slot is anchored, the same on both sides, and any other as new is  *)
(* above the base of the log.  Staging keeps it unless it rewrites it,     *)
(* which is when the watermark is exposed; a flushed header ends that, as  *)
(* does a power cut that leaves a header the log reaches back to.          *)
(***************************************************************************)
EXTENDS FlatIndex, TLAPS

LoggedOnce == \A k, l \in DOMAIN log : log[k] = log[l] => k = l

\* The records up to lsn are whole in v, below n.
Whole(lsn, n, v) == \A l \in 1 .. lsn : l <= Len(log) /\ v[log[l]] = l /\ log[l] < n

\* What a valid header claims is on both sides of a flush.
Kept(h) ==
    Valid(h) => Whole(h.lsn, h.count, vectors) /\ Whole(h.lsn, h.count, disk.vectors)
HeadersKept == \A s \in {0, 1} : Kept(headers[s]) /\ Kept(disk.headers[s])

Inserting == {"write", "publish", "admit"}
Staging == {"staging", "header"}
Checkpointing == {"data", "stage", "truncate"} \cup Staging

\* The record an insert has in hand is the last one of the log.
InHand == pc \in Inserting => log # <<>>

\* How far the writer is with the last record.
WriterInv ==
    /\ Whole(applied, count, vectors)
    /\ pc \in Inserting => Len(log) = applied + 1
    /\ pc \in {"idle"} \cup Checkpointing => Len(log) = applied
    /\ pc \in {"publish", "admit"} => vectors[log[applied + 1]] = applied + 1
    /\ pc = "admit" => log[applied + 1] < count

\* What a checkpoint took down is what there still is.
SavedInv ==
    /\ pc \in Checkpointing => saved.lsn = applied /\ saved.count = count
    /\ pc \in {"stage"} \cup Staging => Whole(saved.lsn, saved.count, disk.vectors)
    /\ pc = "header" =>
          headers[1 - active] = [count |-> saved.count, lsn |-> saved.lsn, seq |-> seq + 1]

\* Of two slots of one sequence number it does not matter which is taken, and
\* what a valid slot was before is no newer.
SeqInv ==
    /\ \A x \in {headers[0], disk.headers[0]}, y \in {headers[1], disk.headers[1]} :
          Valid(x) /\ x.seq = y.seq => x.lsn = y.lsn
    /\ \A i \in {0, 1} : Valid(headers[i]) => disk.headers[i].seq <= headers[i].seq

\* The slot the open handle trusts, flushed or not, and what is on disk.
SlotInv ==
    pc # "down" =>
        /\ Valid(headers[active]) /\ headers[active].seq = seq
        /\ base <= headers[active].lsn /\ base <= applied
        /\ disk.headers[active].seq <= seq
        /\ headers[1 - active].seq <= seq + 1 /\ disk.headers[1 - active].seq <= seq + 1
        /\ pc = "truncate" =>
              /\ headers[active] = disk.headers[active] /\ headers[active].lsn = saved.lsn
              /\ headers[1 - active].seq < seq /\ disk.headers[1 - active].seq < seq
              /\ watermark = "durable"

DownInv ==
    pc = "down" =>
        /\ applied = 0
        /\ LET s == Freshest(headers)
           IN  Valid(headers[s]) =>
                  \A i \in {0, 1} : disk.headers[i].seq <= headers[s].seq + 1

\* A header that open may prefer to one of sequence number q.
Covers(h, q) == Valid(h) /\ h.seq >= q => base <= h.lsn

\* Slot d is on disk, and whatever else is found there that is as new will do.
Anchored(d) ==
    /\ headers[d] = disk.headers[d] /\ Valid(headers[d])
    /\ \A i \in {0, 1} :
          Covers(headers[i], headers[d].seq) /\ Covers(disk.headers[i], headers[d].seq)

\* While a slot is rewritten it is the other one that is.
AnchorInv ==
    watermark = "durable" =>
        /\ \E d \in {0, 1} : Anchored(d)
        /\ pc \in Staging => Anchored(active)

\* Rows are admitted once their record is applied, and scanned below a count
\* that was loaded after that.
ScanInv ==
    /\ pc \in {"down", "replay"} => live = {} /\ \A r \in Readers : snap[r] = {}
    /\ \A o \in live : \E l \in 1 .. applied : log[l] = o
    /\ \A r \in Readers :
          /\ \A o \in snap[r] : \E l \in 1 .. applied : log[l] = o
          /\ bound[r] # NotLoaded => snap[r] # {} /\ \A o \in snap[r] : o < bound[r]

\* While no record is lost.
Sound ==
    /\ LoggedOnce /\ HeadersKept /\ WriterInv /\ SavedInv /\ SeqInv /\ SlotInv /\ DownInv
    /\ AnchorInv /\ ScanInv

IInv == TypeOK /\ InHand /\ (watermark # "lost" => Sound)

-----------------------------------------------------------------------------
LEMMA MaxOfTwo ==
    ASSUME NEW a \in Int, NEW b \in Int
    PROVE  Max({a, b}) \in {a, b} /\ a <= Max({a, b}) /\ b <= Max({a, b})
<1>1. \E x \in {a, b} : \A y \in {a, b} : x >= y
    <2>1. CASE a >= b
        BY <2>1
    <2>2. CASE b >= a
        BY <2>2
    <2> QED BY <2>1, <2>2
<1> QED BY <1>1 DEF Max

\* What a crash or a failed flush leaves of the vectors.
LEMMA VectorPage ==
    ASSUME TypeOK, NEW v \in VectorPages
    PROVE  /\ v \in [Ordinals -> Nat \cup {Torn}]
           /\ \A o \in Ordinals : vectors[o] = disk.vectors[o] => v[o] = vectors[o]
<1>1. PICK new, torn \in SUBSET Unflushed(vectors, disk.vectors) :
            v = [o \in Ordinals |-> IF o \in new THEN vectors[o]
                                    ELSE IF o \in torn THEN Torn ELSE disk.vectors[o]]
    BY DEF VectorPages
<1> QED BY <1>1 DEF Unflushed, TypeOK

\* And of the headers: nothing new, and a clean slot stays.
LEMMA HeaderPage ==
    ASSUME TypeOK, NEW h \in HeaderPages
    PROVE  /\ h \in [{0, 1} -> Slot]
           /\ \A s \in {0, 1} :
                 /\ h[s] \in {headers[s], disk.headers[s], BadSlot}
                 /\ headers[s] = disk.headers[s] => h[s] = headers[s]
<1>1. PICK new, torn \in SUBSET Unflushed(headers, disk.headers) :
            h = [s \in {0, 1} |-> IF s \in new THEN headers[s]
                                  ELSE IF s \in torn THEN BadSlot ELSE disk.headers[s]]
    BY DEF HeaderPages
<1>2. BadSlot \in Slot
    BY FlatIndexAssumption DEF BadSlot, Slot
<1> QED BY <1>1, <1>2 DEF Unflushed, TypeOK

\* What is whole on both sides of a flush is whole in whatever is left.
LEMMA WholeStays ==
    ASSUME TypeOK, NEW v \in VectorPages, NEW lsn \in Nat, NEW n \in Nat,
           Whole(lsn, n, vectors), Whole(lsn, n, disk.vectors)
    PROVE  Whole(lsn, n, v)
<1> SUFFICES ASSUME NEW l \in 1 .. lsn PROVE l <= Len(log) /\ v[log[l]] = l /\ log[l] < n
    BY DEF Whole
<1>1. l <= Len(log) /\ log[l] < n /\ vectors[log[l]] = l /\ disk.vectors[log[l]] = l
    BY DEF Whole
<1>2. log[l] \in Ordinals
    BY <1>1 DEF TypeOK
<1> QED BY <1>1, <1>2, VectorPage

LEMMA InitIInv == Init => IInv
<1> SUFFICES ASSUME Init PROVE IInv
    OBVIOUS
<1> USE FlatIndexAssumption DEF Init
<1>1. TypeOK /\ InHand
    BY DEF TypeOK, InHand, Inserting, Slot, Ordinals, NotLoaded
<1>2. LoggedOnce /\ HeadersKept /\ WriterInv /\ SavedInv /\ SeqInv
    BY DEF LoggedOnce, HeadersKept, Kept, Whole, WriterInv, SavedInv, SeqInv, Inserting,
           Staging, Checkpointing
<1>3. SlotInv /\ DownInv /\ AnchorInv /\ ScanInv
    BY DEF SlotInv, DownInv, AnchorInv, Anchored, ScanInv, Covers, Valid, NotLoaded, Staging
<1> QED BY <1>1, <1>2, <1>3 DEF IInv, Sound

\* Freshest chooses a valid slot if there is one, and none is newer.
LEMMA FreshestChoice ==
    ASSUME NEW h \in [{0, 1} -> Slot], NEW s \in {0, 1}, Valid(h[s])
    PROVE  /\ Freshest(h) \in {0, 1} /\ Valid(h[Freshest(h)])
           /\ h[s].seq <= h[Freshest(h)].seq
<1>1. h[0].seq \in Int /\ h[1].seq \in Int
    BY DEF Slot
<1> QED BY <1>1 DEF Freshest, Valid

-----------------------------------------------------------------------------
\* Types do not need the rest: they hold after records are lost, too.
LEMMA NewCount ==
    ASSUME TypeOK, NEW l \in 1 .. Len(log)
    PROVE  /\ log[l] \in Ordinals
           /\ Max({count, log[l] + 1}) \in 0 .. Capacity
           /\ count <= Max({count, log[l] + 1}) /\ log[l] < Max({count, log[l] + 1})
<1> DEFINE next == log[l] + 1
<1>1. count \in 0 .. Capacity /\ log[l] \in Ordinals /\ log[l] \in Nat /\ next \in 1 .. Capacity
    BY FlatIndexAssumption DEF TypeOK, Ordinals
<1>2. Max({count, next}) \in {count, next} /\ count <= Max({count, next})
      /\ next <= Max({count, next})
    <2>1. count \in Int /\ next \in Int
        BY <1>1, FlatIndexAssumption
    <2> HIDE DEF next
    <2> QED BY <2>1, MaxOfTwo
<1>3. Max({count, next}) \in 0 .. Capacity
    BY <1>1, <1>2, FlatIndexAssumption
<1> QED BY <1>1, <1>2, <1>3, FlatIndexAssumption

LEMMA NextFrameIs ==
    ASSUME TypeOK
    PROVE  NextFrame \in 1 .. MaxLog + 1 /\ (base <= applied => NextFrame = applied + 1)
<1>1. applied \in 0 .. MaxLog /\ base \in 0 .. MaxLog /\ applied \in Int /\ base \in Int
    BY FlatIndexAssumption DEF TypeOK
<1>2. Max({applied, base}) \in {applied, base} /\ applied <= Max({applied, base})
    BY <1>1, MaxOfTwo
<1> QED BY <1>1, <1>2, FlatIndexAssumption DEF NextFrame

LEMMA TypeStep == TypeOK /\ InHand /\ [Next]_vars => TypeOK' /\ InHand'
<1> SUFFICES ASSUME TypeOK, InHand, [Next]_vars PROVE TypeOK' /\ InHand'
    OBVIOUS
<1> USE FlatIndexAssumption DEF mapped, stored, scans, Ord
<1>1. log \in Seq(Ordinals) /\ Len(log) \in Nat /\ \A l \in 1 .. Len(log) : log[l] \in Ordinals
    BY DEF TypeOK
<1>2. ASSUME pc \in Inserting
      PROVE  Len(log) \in 1 .. Len(log) /\ Len(log) \in 0 .. MaxLog
    BY <1>1, <1>2 DEF InHand, TypeOK
<1>3. active \in {0, 1} /\ Target \in {0, 1} /\ BadSlot \in Slot
      /\ headers \in [{0, 1} -> Slot] /\ disk.headers \in [{0, 1} -> Slot]
    BY DEF TypeOK, Target, BadSlot, Slot
<1>4. ASSUME NEW o \in Ordinals, Logged(o) PROVE TypeOK' /\ InHand'
    <2>1. log' \in Seq(Ordinals) /\ Len(log') = Len(log) + 1 /\ log' # <<>>
        BY <1>1, <1>4 DEF Logged
    <2>2. vectors' \in [Ordinals -> Nat \cup {Torn}]
        BY <1>4 DEF Logged, TypeOK
    <2> QED BY <1>1, <1>4, <2>1, <2>2 DEF Logged, TypeOK, InHand, Inserting
<1>5. CASE Copied
    <2>1. vectors' \in [Ordinals -> Nat \cup {Torn}]
        BY <1>1, <1>5 DEF Copied, TypeOK
    <2> QED BY <1>5, <2>1 DEF Copied, TypeOK, InHand, Inserting
<1>6. CASE Publish
    <2>1. count' \in 0 .. Capacity
        BY <1>2, <1>6, NewCount DEF Publish, Inserting
    <2> QED BY <1>6, <2>1 DEF Publish, TypeOK, InHand, Inserting
<1>7. CASE Admit
    <2>1. pc \in Inserting
        BY <1>7 DEF Admit, Inserting
    <2>2. live' \in SUBSET Ordinals /\ applied' \in 0 .. MaxLog
        BY <1>1, <1>2, <1>7, <2>1 DEF Admit, TypeOK
    <2> QED BY <1>7, <2>2 DEF Admit, TypeOK, InHand, Inserting
<1>8. ASSUME NEW r \in Readers, TakeSnapshot(r) \/ LoadCount(r) \/ EndScan(r)
      PROVE  TypeOK' /\ InHand'
    <2>1. live \in SUBSET Ordinals /\ {} \in SUBSET Ordinals /\ count \in Nat
          /\ NotLoaded \in Nat \cup {NotLoaded}
        BY DEF TypeOK
    <2>2. CASE TakeSnapshot(r)
        BY <2>1, <2>2 DEF TakeSnapshot, TypeOK, InHand
    <2>3. CASE LoadCount(r)
        BY <2>1, <2>3 DEF LoadCount, TypeOK, InHand
    <2>4. CASE EndScan(r)
        BY <2>1, <2>4 DEF EndScan, TypeOK, InHand
    <2> QED BY <1>8, <2>2, <2>3, <2>4
<1>9. CASE BeginCheckpoint \/ SyncData \/ Truncate
    BY <1>9 DEF BeginCheckpoint, SyncData, Truncate, TypeOK, InHand, Inserting
<1>10. CASE Overwrite
    <2>1. headers' \in [{0, 1} -> Slot]
        BY <1>3, <1>10 DEF Overwrite
    <2> QED BY <1>10, <2>1 DEF Overwrite, TypeOK, InHand, Inserting
<1>11. CASE StageWatermark
    <2>1. headers' \in [{0, 1} -> Slot]
        BY <1>3, <1>11 DEF StageWatermark, TypeOK, Slot
    <2> QED BY <1>11, <2>1 DEF StageWatermark, TypeOK, InHand, Inserting
<1>12. CASE SyncHeader
    <2>1. disk' = [vectors |-> disk.vectors,
                   headers |-> [disk.headers EXCEPT ![Target] = headers[Target]]]
        BY <1>12 DEF SyncHeader, TypeOK
    <2> QED BY <1>3, <1>12, <2>1 DEF SyncHeader, TypeOK, InHand, Inserting
<1>13. CASE SyncFails
    <2>1. CASE pc = "data" /\ \E v \in VectorPages : disk' = [disk EXCEPT !.vectors = v]
        <3>1. PICK v \in VectorPages : disk' = [vectors |-> v, headers |-> disk.headers]
            BY <2>1 DEF TypeOK
        <3> QED BY <1>3, <1>13, <3>1, VectorPage DEF SyncFails, TypeOK, InHand, Inserting
    <2>2. CASE \E h \in HeaderPages : disk' = [disk EXCEPT !.headers[Target] = h[Target]]
        <3>1. PICK h \in HeaderPages :
                  disk' = [vectors |-> disk.vectors,
                           headers |-> [disk.headers EXCEPT ![Target] = h[Target]]]
            BY <2>2 DEF TypeOK
        <3>2. h[Target] \in Slot
            BY <1>3, HeaderPage
        <3> QED BY <1>3, <1>13, <3>1, <3>2 DEF SyncFails, TypeOK, InHand, Inserting
    <2> QED BY <1>13, <2>1, <2>2 DEF SyncFails
<1>14. ASSUME NEW s \in {0, 1}, WriteBack(s) PROVE TypeOK' /\ InHand'
    <2>1. disk' = [vectors |-> disk.vectors,
                   headers |-> [disk.headers EXCEPT ![s] = headers[s]]]
        BY <1>14 DEF WriteBack, TypeOK
    <2> QED BY <1>3, <1>14, <2>1 DEF WriteBack, TypeOK, InHand, Inserting
<1>15. CASE Kill
    BY <1>15 DEF Kill, ProcessEnds, TypeOK, InHand, Inserting
<1>16. CASE PowerCut
    <2>1. PICK v \in VectorPages, h \in HeaderPages : disk' = [vectors |-> v, headers |-> h]
        BY <1>16 DEF PowerCut
    <2>2. vectors' = v /\ headers' = h
        BY <1>16, <2>1 DEF PowerCut
    <2>3. v \in [Ordinals -> Nat \cup {Torn}] /\ h \in [{0, 1} -> Slot]
        BY VectorPage, HeaderPage
    <2>4. watermark' \in {"durable", "exposed", "lost"}
        BY <1>16 DEF PowerCut, TypeOK
    <2> QED BY <1>16, <2>1, <2>2, <2>3, <2>4 DEF PowerCut, ProcessEnds, TypeOK, InHand, Inserting
<1>17. CASE Open
    <2> DEFINE s == Freshest(headers)
    <2>1. s \in {0, 1} /\ headers[s] \in Slot /\ Valid(headers[s])
        BY <1>3, <1>17 DEF Freshest, Open
    <2> HIDE DEF s
    <2>2. headers[s].seq \in Nat /\ headers[s].count \in 0 .. Capacity
          /\ headers[s].lsn \in 0 .. MaxLog
        BY <2>1 DEF Slot, Valid
    <2>3. /\ active' = s /\ seq' = headers[s].seq /\ count' = headers[s].count
          /\ applied' = headers[s].lsn /\ pc' = "replay"
          /\ watermark' \in {"durable", "exposed", "lost"}
          /\ UNCHANGED <<log, base, vectors, headers, saved, disk, live, snap, bound>>
        BY <1>17 DEF Open, TypeOK, s
    <2> QED BY <2>1, <2>2, <2>3 DEF TypeOK, InHand, Inserting
<1>18. CASE Replay
    <2>1. NextFrame \in 1 .. Len(log) /\ NextFrame \in 0 .. MaxLog
        BY <1>1, <1>18, NextFrameIs DEF Replay, TypeOK
    <2>2. log[NextFrame] \in Ordinals /\ count' \in 0 .. Capacity
        BY <1>18, <2>1, NewCount DEF Replay
    <2>3. vectors' \in [Ordinals -> Nat \cup {Torn}]
        BY <1>18, <2>1, <2>2 DEF Replay, TypeOK
    <2> QED BY <1>18, <2>1, <2>2, <2>3 DEF Replay, TypeOK, InHand, Inserting
<1>19. CASE Ready
    BY <1>1, <1>19 DEF Ready, TypeOK, InHand, Inserting
<1>20. CASE UNCHANGED vars
    BY <1>20 DEF vars, TypeOK, InHand
<1> QED BY <1>4, <1>5, <1>6, <1>7, <1>8, <1>9, <1>10, <1>11, <1>12, <1>13, <1>14, <1>15, <1>16,
           <1>17, <1>18, <1>19, <1>20 DEF Next

-----------------------------------------------------------------------------
\* The writer, one record at a time.  A page it writes is the one of the last
\* record, which nothing claims yet.
LEMMA LoggedStep == ASSUME NEW o \in Ordinals, TypeOK, InHand, Sound, Logged(o) PROVE Sound'
<1> USE FlatIndexAssumption DEF Sound, Logged, stored, scans
<1>1. /\ log \in Seq(Ordinals) /\ log' \in Seq(Ordinals) /\ Len(log) \in Nat
      /\ Len(log') = Len(log) + 1
      /\ \A l \in 1 .. Len(log) : log'[l] = log[l] /\ log[l] # o /\ log[l] \in Ordinals
      /\ log'[Len(log) + 1] = o
    BY DEF TypeOK, Ord
<1>2. \A l \in 1 .. Len(log) : vectors'[log[l]] = vectors[log[l]]
    BY <1>1 DEF TypeOK
<1>4. LoggedOnce'
    BY <1>1 DEF LoggedOnce
<1>5. HeadersKept'
    <2> SUFFICES ASSUME NEW s \in {0, 1} PROVE Kept(headers[s])' /\ Kept(disk.headers[s])'
        BY DEF HeadersKept
    <2>1. Kept(headers[s]) /\ headers[s].lsn \in Nat
        BY DEF HeadersKept, TypeOK, Slot
    <2>2. Kept(disk.headers[s]) /\ disk.headers[s].lsn \in Nat
        BY DEF HeadersKept, TypeOK, Slot
    <2>3. Kept(headers[s])'
        BY <1>1, <1>2, <2>1 DEF Kept, Whole, Valid
    <2>4. Kept(disk.headers[s])'
        BY <1>1, <1>2, <2>2 DEF Kept, Whole, Valid
    <2> QED BY <2>3, <2>4
<1>6. WriterInv'
    BY <1>1, <1>2 DEF WriterInv, Whole, Inserting, Staging, Checkpointing, TypeOK
<1>7. SavedInv' /\ SeqInv' /\ SlotInv' /\ DownInv' /\ AnchorInv'
    BY DEF SavedInv, SeqInv, SlotInv, DownInv, AnchorInv, Anchored, Staging, Checkpointing,
           Covers, Valid
<1>8. ScanInv'
    BY <1>1 DEF ScanInv, WriterInv, TypeOK
<1> QED BY <1>4, <1>5, <1>6, <1>7, <1>8

LEMMA CopiedStep == ASSUME TypeOK, InHand, Sound, Copied PROVE Sound'
<1> USE FlatIndexAssumption DEF Sound, Copied, stored, scans, Ord
<1>1. applied \in Nat /\ applied + 1 = Len(log) /\ log[applied + 1] \in Ordinals
      /\ \A l \in 1 .. Len(log) : log[l] \in Ordinals
    BY DEF TypeOK, WriterInv, Inserting
<1>2. \A l \in 1 .. Len(log) : vectors[log[l]] = l => vectors'[log[l]] = l
    BY <1>1 DEF TypeOK, LoggedOnce
<1>3. LoggedOnce'
    BY DEF LoggedOnce
<1>4. HeadersKept'
    <2> SUFFICES ASSUME NEW s \in {0, 1} PROVE Kept(headers[s])' /\ Kept(disk.headers[s])'
        BY DEF HeadersKept
    <2>1. Kept(headers[s]) /\ headers[s].lsn \in Nat /\ Len(log) \in Nat
        BY DEF HeadersKept, TypeOK, Slot
    <2>2. Kept(disk.headers[s]) /\ disk.headers[s].lsn \in Nat
        BY DEF HeadersKept, TypeOK, Slot
    <2>3. Kept(headers[s])'
        BY <1>2, <2>1 DEF Kept, Whole, Valid
    <2>4. Kept(disk.headers[s])'
        BY <1>2, <2>1, <2>2 DEF Kept, Whole, Valid
    <2> QED BY <2>3, <2>4
<1>5. WriterInv'
    BY <1>1, <1>2 DEF WriterInv, Whole, Inserting, Staging, Checkpointing, TypeOK
<1>6. SavedInv' /\ SeqInv' /\ SlotInv' /\ DownInv' /\ AnchorInv' /\ ScanInv'
    BY DEF SavedInv, SeqInv, SlotInv, DownInv, AnchorInv, Anchored, ScanInv, Staging,
           Checkpointing, Covers, Valid
<1> QED BY <1>3, <1>4, <1>5, <1>6

LEMMA PublishStep == ASSUME TypeOK, InHand, Sound, Publish PROVE Sound'
<1> USE FlatIndexAssumption DEF Sound, Publish, stored, scans, Ord
<1>1. applied \in Nat /\ applied + 1 = Len(log) /\ log[applied + 1] \in Ordinals /\ count \in Int
    BY DEF TypeOK, WriterInv, Inserting
<1>2. count <= count' /\ log[applied + 1] < count' /\ count' \in 0 .. Capacity
    BY <1>1, NewCount
<1>3. LoggedOnce' /\ HeadersKept'
    BY DEF LoggedOnce, HeadersKept, Kept, Whole, Valid
<1>4. WriterInv'
    <2>1. Whole(applied, count', vectors)
        BY <1>1, <1>2 DEF WriterInv, Whole, TypeOK, Ordinals
    <2> QED BY <1>1, <1>2, <2>1 DEF WriterInv, Whole, Inserting, Staging, Checkpointing
<1>5. SavedInv' /\ SeqInv' /\ SlotInv' /\ DownInv' /\ AnchorInv' /\ ScanInv'
    BY DEF SavedInv, SeqInv, SlotInv, DownInv, AnchorInv, Anchored, ScanInv, Staging,
           Checkpointing, Covers, Valid
<1> QED BY <1>3, <1>4, <1>5

LEMMA AdmitStep == ASSUME TypeOK, InHand, Sound, Admit PROVE Sound'
<1> USE FlatIndexAssumption DEF Sound, Admit, mapped, stored, Ord
<1>1. applied \in Nat /\ applied + 1 = Len(log) /\ log[applied + 1] \in Ordinals
    BY DEF TypeOK, WriterInv, Inserting
<1>2. LoggedOnce' /\ HeadersKept'
    BY DEF LoggedOnce, HeadersKept, Kept, Whole, Valid
<1>3. WriterInv'
    BY <1>1 DEF WriterInv, Whole, Inserting, Staging, Checkpointing
<1>4. SavedInv' /\ SeqInv' /\ SlotInv' /\ DownInv' /\ AnchorInv'
    BY <1>1 DEF SavedInv, SeqInv, SlotInv, DownInv, AnchorInv, Anchored, Staging,
                Checkpointing, Covers, Valid, TypeOK
<1>5. ScanInv'
    BY <1>1 DEF ScanInv
<1> QED BY <1>2, <1>3, <1>4, <1>5

-----------------------------------------------------------------------------
\* The readers: what a snapshot admits is below the count of its moment.
LEMMA ScanStep ==
    ASSUME NEW r \in Readers, TypeOK, InHand, Sound,
           TakeSnapshot(r) \/ LoadCount(r) \/ EndScan(r)
    PROVE  Sound'
<1> USE FlatIndexAssumption DEF Sound, TakeSnapshot, LoadCount, EndScan, mapped, stored
<1>1. LoggedOnce' /\ HeadersKept'
    BY DEF LoggedOnce, HeadersKept, Kept, Whole, Valid
<1>2. WriterInv' /\ SavedInv' /\ SeqInv' /\ SlotInv' /\ DownInv' /\ AnchorInv'
    BY DEF WriterInv, SavedInv, SeqInv, SlotInv, DownInv, AnchorInv, Anchored, Whole,
           Inserting, Staging, Checkpointing, Covers, Valid
<1>3. ScanInv'
    <2>1. CASE TakeSnapshot(r)
        <3>1. bound[r] = NotLoaded
            BY <2>1 DEF ScanInv
        <3> QED BY <2>1, <3>1 DEF ScanInv, TypeOK
    <2>2. CASE LoadCount(r)
        <3>1. \A o \in snap[r] : o < count
            BY DEF ScanInv, WriterInv, Whole
        <3> QED BY <2>2, <3>1 DEF ScanInv, TypeOK
    <2>3. CASE EndScan(r)
        BY <2>3 DEF ScanInv, TypeOK
    <2> QED BY <2>1, <2>2, <2>3
<1> QED BY <1>1, <1>2, <1>3

-----------------------------------------------------------------------------
\* A checkpoint: the pages are on disk before a header claims them, and the
\* header is on disk before the log is cut.
LEMMA SlotTypes ==
    ASSUME TypeOK
    PROVE  /\ active \in {0, 1} /\ 1 - active \in {0, 1} /\ 1 - (1 - active) = active
           /\ 1 - active # active /\ Target = 1 - active
           /\ \A i \in {0, 1} : i \in {active, 1 - active}
           /\ headers \in [{0, 1} -> Slot] /\ disk.headers \in [{0, 1} -> Slot]
           /\ \A i \in {0, 1} : /\ headers[i].seq \in Int /\ disk.headers[i].seq \in Int
                                /\ headers[i].lsn \in Nat /\ disk.headers[i].lsn \in Nat
                                /\ headers[i].count \in Nat /\ disk.headers[i].count \in Nat
           /\ seq \in Nat /\ saved.lsn \in Nat /\ saved.count \in Nat
           /\ applied \in Nat /\ base \in Nat
<1>1. headers \in [{0, 1} -> Slot] /\ disk.headers \in [{0, 1} -> Slot]
    BY DEF TypeOK
<1>2. \A k \in Slot : k.seq \in Int /\ k.lsn \in Nat /\ k.count \in Nat
    BY FlatIndexAssumption DEF Slot
<1> QED BY <1>1, <1>2, FlatIndexAssumption DEF TypeOK, Target

LEMMA BeginStep ==
    ASSUME TypeOK, InHand, Sound, BeginCheckpoint \/ SyncData PROVE Sound'
<1> USE DEF Sound, mapped, stored, scans
<1>1. LoggedOnce' /\ WriterInv' /\ ScanInv'
    BY DEF LoggedOnce, WriterInv, Whole, ScanInv, Inserting, Staging, Checkpointing,
           BeginCheckpoint, SyncData
<1>2. CASE BeginCheckpoint
    BY <1>1, <1>2 DEF HeadersKept, Kept, Whole, SavedInv, SeqInv, SlotInv, DownInv, AnchorInv,
                      Anchored, Staging, Checkpointing, Covers, Valid, BeginCheckpoint
<1>3. CASE SyncData
    <2>1. disk' = [vectors |-> vectors, headers |-> disk.headers]
        BY <1>3 DEF TypeOK, SyncData
    <2>2. HeadersKept'
        BY <1>3, <2>1 DEF HeadersKept, Kept, Whole, Valid, SyncData
    <2>3. SavedInv'
        BY <1>3, <2>1 DEF SavedInv, WriterInv, Whole, Staging, Checkpointing, SyncData
    <2>4. SeqInv' /\ SlotInv' /\ DownInv' /\ AnchorInv'
        BY <1>3, <2>1 DEF SeqInv, SlotInv, DownInv, AnchorInv, Anchored, Staging, Covers, Valid,
                          SyncData
    <2> QED BY <1>1, <2>2, <2>3, <2>4
<1> QED BY <1>2, <1>3

\* An active slot that was flushed can be relied on alone.
LEMMA ActiveAnchored ==
    ASSUME TypeOK, Sound, watermark = "durable", pc # "down", headers[active] = disk.headers[active]
    PROVE  Anchored(active)
<1> USE SlotTypes DEF Sound
<1>1. PICK d \in {0, 1} : Anchored(d)
    BY DEF AnchorInv
<1>2. Valid(headers[active]) /\ headers[active].seq = seq /\ base <= headers[active].lsn
    BY DEF SlotInv
<1>3. CASE d = active
    BY <1>1, <1>3
<1>4. CASE d # active
    <2>1. d = 1 - active
        BY <1>4
    <2>2. headers[1 - active] = disk.headers[1 - active] /\ Valid(headers[1 - active])
        BY <1>1, <2>1 DEF Anchored
    <2>3. Covers(headers[1 - active], headers[1 - active].seq)
        BY <1>1, <2>1 DEF Anchored
    <2>4. base <= headers[1 - active].lsn
        BY <2>2, <2>3 DEF Covers
    <2>5. \A i \in {0, 1} : Covers(headers[i], seq) /\ Covers(disk.headers[i], seq)
        BY <1>2, <2>2, <2>4 DEF Covers
    <2> QED BY <1>2, <2>5 DEF Anchored
<1> QED BY <1>3, <1>4

LEMMA OverwriteStep == ASSUME TypeOK, InHand, Sound, Overwrite PROVE Sound'
<1> USE SlotTypes DEF Sound, Overwrite, mapped, scans
<1>1. /\ headers' = [headers EXCEPT ![1 - active] = BadSlot]
      /\ headers'[1 - active] = BadSlot /\ headers'[active] = headers[active]
      /\ ~Valid(BadSlot) /\ BadSlot.seq = -1
    BY DEF Valid, BadSlot
<1>2. pc = "stage" /\ pc' = "staging"
      /\ UNCHANGED <<log, base, vectors, count, applied, active, seq, saved, disk, live, snap, bound>>
    OBVIOUS
<1> DEFINE H == headers'
<1>3. LoggedOnce' /\ WriterInv' /\ ScanInv' /\ DownInv'
    BY <1>2 DEF LoggedOnce, WriterInv, Whole, ScanInv, DownInv, Inserting, Staging, Checkpointing
<1>4. HeadersKept'
    BY <1>1, <1>2 DEF HeadersKept, Kept, Whole, Valid
<1>5. SavedInv'
    BY <1>2 DEF SavedInv, Whole, Staging, Checkpointing
<1>6. SeqInv'
    <2>1. \A i \in {0, 1} : headers'[i] = headers[i] \/ ~Valid(headers'[i])
        BY <1>1
    <2>2. ASSUME NEW x \in {headers'[0], disk.headers[0]}, NEW y \in {headers'[1], disk.headers[1]},
                 Valid(x), x.seq = y.seq
          PROVE  x.lsn = y.lsn
        <3>1. Valid(y)
            BY <2>2 DEF Valid
        <3>2. x \in {headers[0], disk.headers[0]} /\ y \in {headers[1], disk.headers[1]}
            BY <2>1, <2>2, <3>1
        <3> QED BY <2>2, <3>2 DEF SeqInv
    <2> QED BY <1>2, <2>1, <2>2 DEF SeqInv, Valid
<1>7. SlotInv'
    BY <1>1, <1>2 DEF SlotInv, Valid
<1>8. AnchorInv'
    <2> SUFFICES ASSUME watermark' = "durable" PROVE Anchored(active)'
        BY <1>2 DEF AnchorInv
    <2>1. watermark = "durable" /\ headers[active] = disk.headers[active]
        BY DEF TypeOK
    <2>2. Anchored(active)
        BY <1>2, <2>1, ActiveAnchored
    <2> QED BY <1>1, <1>2, <2>1, <2>2 DEF Anchored, Covers, Valid
<1> QED BY <1>3, <1>4, <1>5, <1>6, <1>7, <1>8

LEMMA StageStep == ASSUME TypeOK, InHand, Sound, StageWatermark PROVE Sound'
<1> USE SlotTypes DEF Sound, StageWatermark, stored, scans
<1> DEFINE new == [count |-> saved.count, lsn |-> saved.lsn, seq |-> seq + 1]
<1>1. /\ headers' = [headers EXCEPT ![1 - active] = new]
      /\ headers'[1 - active] = new /\ headers'[active] = headers[active]
    OBVIOUS
<1>2. pc = "staging" /\ pc' = "header"
      /\ UNCHANGED <<log, base, vectors, count, applied, active, seq, saved, disk, watermark,
                     live, snap, bound>>
    OBVIOUS
<1>3. saved.lsn = applied /\ saved.count = count
      /\ Whole(saved.lsn, saved.count, vectors) /\ Whole(saved.lsn, saved.count, disk.vectors)
      /\ base <= applied
    BY <1>2 DEF SavedInv, WriterInv, SlotInv, Staging, Checkpointing
<1>4. LoggedOnce' /\ WriterInv' /\ ScanInv' /\ DownInv'
    BY <1>2 DEF LoggedOnce, WriterInv, Whole, ScanInv, DownInv, Inserting, Staging, Checkpointing
<1>5. HeadersKept'
    <2>1. new.lsn = saved.lsn /\ new.count = saved.count
        OBVIOUS
    <2> HIDE DEF new
    <2>2. Kept(new)
        BY <1>3, <2>1 DEF Kept
    <2>3. \A i \in {0, 1} : headers'[i] \in {headers[i], new}
        BY <1>1
    <2> QED BY <1>2, <2>2, <2>3 DEF HeadersKept, Kept, Whole, Valid
<1>6. SavedInv'
    BY <1>1, <1>2, <1>3 DEF SavedInv, Whole, Staging, Checkpointing
<1>7. /\ headers[active].seq = seq /\ disk.headers[active].seq <= seq
      /\ disk.headers[1 - active].seq <= seq + 1 /\ Valid(headers[active])
    BY <1>2 DEF SlotInv
<1>8. SeqInv'
    <2>1. new.seq = seq + 1
        OBVIOUS
    <2> HIDE DEF new
    <2>2. \A x \in {headers[active], disk.headers[active]} : x.seq # new.seq
        BY <1>7, <2>1
    <2>3. ASSUME NEW x \in {headers'[0], disk.headers[0]}, NEW y \in {headers'[1], disk.headers[1]},
                 Valid(x), x.seq = y.seq
          PROVE  x.lsn = y.lsn
        <3>1. CASE active = 0
            BY <1>1, <2>2, <2>3, <3>1 DEF SeqInv
        <3>2. CASE active = 1
            BY <1>1, <2>2, <2>3, <3>2 DEF SeqInv
        <3> QED BY <3>1, <3>2
    <2>4. \A i \in {0, 1} : Valid(headers'[i]) => disk.headers[i].seq <= headers'[i].seq
        BY <1>1, <1>7, <2>1 DEF SeqInv
    <2> QED BY <1>2, <2>3, <2>4 DEF SeqInv, Valid
<1>9. SlotInv'
    BY <1>1, <1>2 DEF SlotInv, Valid
<1>10. AnchorInv'
    <2> SUFFICES ASSUME watermark = "durable" PROVE Anchored(active)'
        BY <1>2 DEF AnchorInv
    <2>1. Anchored(active)
        BY <1>2 DEF AnchorInv, Staging
    <2> QED BY <1>1, <1>2, <1>3, <2>1 DEF Anchored, Covers, Valid
<1> QED BY <1>4, <1>5, <1>6, <1>8, <1>9, <1>10

LEMMA SyncHeaderStep == ASSUME TypeOK, InHand, Sound, SyncHeader, watermark # "lost" PROVE Sound'
<1> USE SlotTypes DEF Sound, SyncHeader, scans
<1> DEFINE new == [count |-> saved.count, lsn |-> saved.lsn, seq |-> seq + 1]
<1>1. disk' = [vectors |-> disk.vectors,
               headers |-> [disk.headers EXCEPT ![1 - active] = headers[1 - active]]]
    BY DEF TypeOK
<1>2. /\ pc = "header" /\ pc' = "truncate" /\ active' = 1 - active /\ seq' = seq + 1
      /\ UNCHANGED <<log, base, vectors, count, applied, headers, saved, live, snap, bound>>
    OBVIOUS
<1>3. /\ disk'.vectors = disk.vectors /\ disk'.headers[active] = disk.headers[active]
      /\ disk'.headers[1 - active] = headers[1 - active]
      /\ \A i \in {0, 1} : disk'.headers[i] \in {headers[i], disk.headers[i]}
    BY <1>1
<1>4. headers[1 - active] = new /\ saved.lsn = applied /\ base <= applied
      /\ headers[active].seq = seq /\ disk.headers[active].seq <= seq
    BY <1>2 DEF SavedInv, SlotInv, Staging, Checkpointing
<1>5. headers[1 - active].seq = seq + 1 /\ headers[1 - active].lsn = saved.lsn
      /\ Valid(headers[1 - active])
    BY <1>4 DEF Valid
<1>6. watermark' = "durable"
    BY DEF TypeOK
<1> HIDE DEF new
<1>7. LoggedOnce' /\ WriterInv' /\ ScanInv' /\ DownInv'
    BY <1>2 DEF LoggedOnce, WriterInv, Whole, ScanInv, DownInv, Inserting, Staging, Checkpointing
<1>8. HeadersKept'
    BY <1>2, <1>3 DEF HeadersKept, Kept, Whole, Valid
<1>9. SavedInv'
    BY <1>2 DEF SavedInv, Staging, Checkpointing
<1>10. SeqInv'
    BY <1>2, <1>3 DEF SeqInv, Valid
<1>11. SlotInv'
    BY <1>2, <1>3, <1>4, <1>5, <1>6 DEF SlotInv, Valid
<1>12. AnchorInv'
    <2>1. \A i \in {0, 1} : Covers(headers[i], seq + 1) /\ Covers(disk'.headers[i], seq + 1)
        BY <1>3, <1>4, <1>5 DEF Covers
    <2>2. Anchored(active)'
        BY <1>2, <1>3, <1>5, <2>1 DEF Anchored, Covers, Valid
    <2> QED BY <1>2, <2>2 DEF AnchorInv, Staging
<1> QED BY <1>7, <1>8, <1>9, <1>10, <1>11, <1>12

LEMMA TruncateStep == ASSUME TypeOK, InHand, Sound, Truncate PROVE Sound'
<1> USE SlotTypes DEF Sound, Truncate, mapped, stored, scans
<1>1. LoggedOnce' /\ HeadersKept' /\ WriterInv' /\ SavedInv' /\ SeqInv' /\ DownInv' /\ ScanInv'
    BY DEF LoggedOnce, HeadersKept, Kept, Whole, WriterInv, SavedInv, SeqInv, DownInv, ScanInv,
           Valid, Inserting, Staging, Checkpointing
<1>2. /\ Valid(headers[active]) /\ headers[active].seq = seq /\ headers[active].lsn = saved.lsn
      /\ headers[active] = disk.headers[active] /\ saved.lsn = applied
      /\ headers[1 - active].seq < seq /\ disk.headers[1 - active].seq < seq
    BY DEF SlotInv, SavedInv, Checkpointing
<1>3. SlotInv'
    BY <1>2 DEF SlotInv, Valid
<1>4. Anchored(active)'
    BY <1>2 DEF Anchored, Covers, Valid
<1>5. AnchorInv'
    BY <1>4 DEF AnchorInv, Staging
<1> QED BY <1>1, <1>3, <1>5

-----------------------------------------------------------------------------
\* Failures: what was on both sides of a flush is still there.
LEMMA PageKept ==
    ASSUME TypeOK, Sound, NEW v \in VectorPages,
           NEW s \in {0, 1}, NEW k \in {headers[s], disk.headers[s], BadSlot}, Valid(k)
    PROVE  /\ Whole(k.lsn, k.count, vectors) /\ Whole(k.lsn, k.count, disk.vectors)
           /\ Whole(k.lsn, k.count, v)
<1>1. k # BadSlot
    BY DEF Valid, BadSlot
<1>2. Kept(k) /\ k.lsn \in Nat /\ k.count \in Nat
    BY <1>1, SlotTypes DEF Sound, HeadersKept
<1> QED BY <1>2, WholeStays DEF Kept

LEMMA SyncFailsStep == ASSUME TypeOK, InHand, Sound, SyncFails PROVE Sound'
<1> USE SlotTypes DEF Sound, mapped, scans
<1>1. pc \in {"data", "header"} /\ pc' = "idle"
      /\ UNCHANGED <<log, base, vectors, count, headers, active, seq, applied, saved, watermark,
                     live, snap, bound>>
    BY DEF SyncFails
<1>2. LoggedOnce' /\ WriterInv' /\ SavedInv' /\ DownInv' /\ ScanInv'
    BY <1>1 DEF LoggedOnce, WriterInv, Whole, SavedInv, DownInv, ScanInv, Inserting, Staging,
                Checkpointing
<1>3. CASE pc = "data" /\ \E v \in VectorPages : disk' = [disk EXCEPT !.vectors = v]
    <2>1. PICK v \in VectorPages : disk' = [vectors |-> v, headers |-> disk.headers]
        BY <1>3 DEF TypeOK
    <2>2. disk'.vectors = v /\ disk'.headers = disk.headers
        BY <2>1
    <2>3. HeadersKept'
        <3> SUFFICES ASSUME NEW s \in {0, 1}, NEW k \in {headers[s], disk.headers[s]}, Valid(k)
                     PROVE  Whole(k.lsn, k.count, vectors) /\ Whole(k.lsn, k.count, v)
            BY <1>1, <2>2 DEF HeadersKept, Kept, Whole, Valid
        <3> QED BY PageKept
    <2>4. SeqInv' /\ SlotInv' /\ AnchorInv'
        BY <1>1, <1>3, <2>2 DEF SeqInv, SlotInv, AnchorInv, Anchored, Staging, Covers, Valid
    <2> QED BY <1>2, <2>3, <2>4
<1>4. CASE pc = "header" /\ \E h \in HeaderPages :
                 disk' = [disk EXCEPT !.headers[Target] = h[Target]]
    <2>1. PICK h \in HeaderPages :
              disk' = [vectors |-> disk.vectors,
                       headers |-> [disk.headers EXCEPT ![1 - active] = h[1 - active]]]
        BY <1>4 DEF TypeOK
    <2>2. /\ disk'.vectors = disk.vectors /\ disk'.headers[active] = disk.headers[active]
          /\ disk'.headers[1 - active] = h[1 - active]
          /\ \A i \in {0, 1} : disk'.headers[i] \in {headers[i], disk.headers[i], BadSlot}
        BY <2>1, HeaderPage
    <2>3. ~Valid(BadSlot) /\ BadSlot.seq = -1
        BY DEF Valid, BadSlot
    <2>4. HeadersKept'
        BY <1>1, <2>2, <2>3 DEF HeadersKept, Kept, Whole, Valid
    <2>5. SeqInv'
        <3>1. ASSUME NEW x \in {headers[0], disk'.headers[0]}, NEW y \in {headers[1], disk'.headers[1]},
                     Valid(x), x.seq = y.seq
              PROVE  x.lsn = y.lsn
            <4>1. Valid(y)
                BY <3>1 DEF Valid
            <4>2. x \in {headers[0], disk.headers[0]} /\ y \in {headers[1], disk.headers[1]}
                BY <2>2, <2>3, <3>1, <4>1
            <4> QED BY <3>1, <4>2 DEF SeqInv
        <3>2. \A i \in {0, 1} : Valid(headers[i]) => disk'.headers[i].seq <= headers[i].seq
            BY <2>2, <2>3 DEF SeqInv, Valid
        <3> QED BY <1>1, <3>1, <3>2 DEF SeqInv, Valid
    <2>6. SlotInv'
        <3>1. headers[1 - active].seq = seq + 1
            BY <1>4 DEF SavedInv
        <3>2. disk'.headers[1 - active].seq <= seq + 1
            BY <1>4, <2>2, <2>3, <3>1 DEF SlotInv
        <3> QED BY <1>1, <1>4, <2>2, <3>2 DEF SlotInv, Valid
    <2>7. AnchorInv'
        <3> SUFFICES ASSUME watermark = "durable" PROVE Anchored(active)'
            BY <1>1 DEF AnchorInv, Staging
        <3>1. Anchored(active)
            BY <1>4 DEF AnchorInv, Staging
        <3> QED BY <1>1, <2>2, <2>3, <3>1 DEF Anchored, Covers, Valid
    <2> QED BY <1>2, <2>4, <2>5, <2>6, <2>7
<1> QED BY <1>3, <1>4 DEF SyncFails

LEMMA WriteBackStep ==
    ASSUME TypeOK, InHand, Sound, NEW s \in {0, 1}, WriteBack(s) PROVE Sound'
<1> USE SlotTypes DEF Sound, mapped, scans
<1>1. UNCHANGED <<log, base, pc, vectors, count, headers, active, seq, applied, saved, watermark,
                  live, snap, bound>>
    BY DEF WriteBack
<1>2. disk' = [vectors |-> disk.vectors, headers |-> [disk.headers EXCEPT ![s] = headers[s]]]
    BY DEF WriteBack, TypeOK
<1>3. /\ disk'.vectors = disk.vectors /\ disk'.headers[s] = headers[s]
      /\ \A i \in {0, 1} : /\ disk'.headers[i] \in {headers[i], disk.headers[i]}
                           /\ headers[i] = disk.headers[i] => disk'.headers[i] = headers[i]
    BY <1>2
<1>4. LoggedOnce' /\ WriterInv' /\ SavedInv' /\ ScanInv'
    BY <1>1, <1>3 DEF LoggedOnce, WriterInv, Whole, SavedInv, ScanInv
<1>5. HeadersKept' /\ SeqInv'
    <2>1. HeadersKept'
        BY <1>1, <1>3 DEF HeadersKept, Kept, Whole, Valid
    <2>2. \A i \in {0, 1} : Valid(headers[i]) => disk'.headers[i].seq <= headers[i].seq
        BY <1>3 DEF SeqInv
    <2> QED BY <1>1, <1>3, <2>1, <2>2 DEF SeqInv, Valid
<1>6. SlotInv'
    BY <1>1, <1>3 DEF SlotInv, Valid
<1>7. DownInv'
    <2> SUFFICES ASSUME pc = "down", Valid(headers[Freshest(headers)])
                 PROVE  /\ applied = 0
                        /\ \A i \in {0, 1} :
                              disk'.headers[i].seq <= headers[Freshest(headers)].seq + 1
        BY <1>1 DEF DownInv, Freshest, Valid
    <2>1. \A i \in {0, 1} : headers[i].seq <= headers[Freshest(headers)].seq
        BY DEF Freshest, Valid
    <2>2. Freshest(headers) \in {0, 1}
        BY DEF Freshest
    <2> QED BY <1>3, <2>1, <2>2 DEF DownInv
<1>8. AnchorInv'
    BY <1>1, <1>3 DEF AnchorInv, Anchored, Covers, Valid, Staging
<1> QED BY <1>4, <1>5, <1>6, <1>7, <1>8

\* Whatever a power cut leaves of the headers, open finds a valid one, and
\* the anchored slot is among them.
LEMMA AnchorHolds ==
    ASSUME TypeOK, Sound, watermark = "durable", NEW h \in HeaderPages
    PROVE  /\ h \in [{0, 1} -> Slot] /\ Opens(h)
           /\ \E d \in {0, 1} : /\ h[d] = headers[d] /\ Valid(h[d])
                                /\ \A i \in {0, 1} : Covers(h[i], h[d].seq)
<1>1. h \in [{0, 1} -> Slot]
    BY HeaderPage
<1>2. PICK d \in {0, 1} : Anchored(d)
    BY DEF Sound, AnchorInv
<1>3. h[d] = headers[d] /\ Valid(h[d])
    BY <1>2, HeaderPage DEF Anchored
<1>4. \A i \in {0, 1} : Covers(h[i], h[d].seq)
    <2> SUFFICES ASSUME NEW i \in {0, 1} PROVE Covers(h[i], h[d].seq)
        OBVIOUS
    <2>1. h[i] \in {headers[i], disk.headers[i], BadSlot}
        BY HeaderPage
    <2> QED BY <1>2, <1>3, <2>1 DEF Anchored, Covers, Valid, BadSlot
<1>5. Freshest(h) \in {0, 1} /\ Valid(h[Freshest(h)]) /\ h[d].seq <= h[Freshest(h)].seq
    BY <1>1, <1>3, FreshestChoice
<1>6. Opens(h)
    <2>1. \A i \in {0, 1} : h[i].seq \in Int
        BY <1>1 DEF Slot
    <2> QED BY <1>4, <1>5, <2>1 DEF Covers, Opens
<1> QED BY <1>1, <1>3, <1>4, <1>6

\* The next process finds the pages the killed one had mapped.
LEMMA KillStep == ASSUME TypeOK, InHand, Sound, Kill PROVE Sound'
<1> USE SlotTypes DEF Sound, Kill, ProcessEnds, stored
<1>1. /\ pc' = "down" /\ applied' = 0 /\ live' = {} /\ snap' = [r \in Readers |-> {}]
      /\ bound' = [r \in Readers |-> NotLoaded]
      /\ UNCHANGED <<log, base, vectors, headers, disk, watermark>>
    OBVIOUS
<1>2. LoggedOnce' /\ HeadersKept' /\ WriterInv' /\ SavedInv' /\ SeqInv' /\ SlotInv' /\ ScanInv'
    BY <1>1 DEF LoggedOnce, HeadersKept, Kept, Whole, WriterInv, SavedInv, SeqInv, SlotInv,
                ScanInv, Valid, Inserting, Staging, Checkpointing
<1>3. AnchorInv'
    BY <1>1 DEF AnchorInv, Anchored, Covers, Valid, Staging
<1>4. DownInv'
    <2> DEFINE s == Freshest(headers)
    <2>1. s \in {0, 1} /\ Valid(headers[active]) /\ headers[active].seq = seq
          /\ disk.headers[active].seq <= seq /\ disk.headers[1 - active].seq <= seq + 1
        BY DEF SlotInv, Freshest
    <2>2. seq <= headers[s].seq
        BY <2>1, FreshestChoice
    <2> HIDE DEF s
    <2>3. \A i \in {0, 1} : disk.headers[i].seq <= headers[s].seq + 1
        BY <2>1, <2>2
    <2> QED BY <1>1, <2>3 DEF DownInv, Freshest, Valid, s
<1> QED BY <1>2, <1>3, <1>4

LEMMA PowerCutStep == ASSUME TypeOK, InHand, Sound, PowerCut PROVE Sound'
<1> USE SlotTypes DEF Sound
<1>1. PICK v \in VectorPages, h \in HeaderPages : disk' = [vectors |-> v, headers |-> h]
    BY DEF PowerCut
<1>2. /\ pc' = "down" /\ vectors' = v /\ headers' = h /\ disk'.vectors = v /\ disk'.headers = h
      /\ applied' = 0 /\ live' = {} /\ snap' = [r \in Readers |-> {}]
      /\ bound' = [r \in Readers |-> NotLoaded] /\ log' = log /\ base' = base
    BY <1>1 DEF PowerCut, ProcessEnds
<1>3. h \in [{0, 1} -> Slot] /\ \A i \in {0, 1} : h[i] \in {headers[i], disk.headers[i], BadSlot}
    BY HeaderPage
<1>4. HeadersKept'
    <2> SUFFICES ASSUME NEW s \in {0, 1}, Valid(h[s])
                 PROVE  Whole(h[s].lsn, h[s].count, v)
        BY <1>2 DEF HeadersKept, Kept, Whole, Valid
    <2> QED BY <1>3, PageKept
<1>5. SeqInv'
    <2>1. ASSUME Valid(h[0]), h[0].seq = h[1].seq
          PROVE  h[0].lsn = h[1].lsn
        <3>1. Valid(h[1]) /\ ~Valid(BadSlot)
            BY <2>1 DEF Valid, BadSlot
        <3>2. h[0] \in {headers[0], disk.headers[0]} /\ h[1] \in {headers[1], disk.headers[1]}
            BY <1>3, <2>1, <3>1
        <3> QED BY <2>1, <3>2 DEF SeqInv
    <2>2. \A i \in {0, 1} : h[i].seq \in Int
        BY <1>3 DEF Slot
    <2> QED BY <1>2, <2>1, <2>2 DEF SeqInv, Valid
<1>6. AnchorInv'
    <2> SUFFICES ASSUME watermark' = "durable"
                 PROVE  \E d \in {0, 1} : /\ Valid(h[d])
                                          /\ \A i \in {0, 1} : Covers(h[i], h[d].seq)
        BY <1>2 DEF AnchorInv, Anchored, Covers, Valid, Staging
    <2>1. CASE watermark = "durable"
        BY <2>1, AnchorHolds
    <2>2. CASE watermark # "durable"
        <3> DEFINE s == Freshest(h)
        <3>1. s \in {0, 1} /\ Valid(h[s]) /\ base <= h[s].lsn
            BY <1>2, <2>2 DEF PowerCut, Opens, Freshest
        <3> HIDE DEF s
        <3>2. ASSUME NEW i \in {0, 1} PROVE Covers(h[i], h[s].seq)
            <4>1. Valid(h[i]) => h[i].seq <= h[s].seq
                BY <1>3, FreshestChoice DEF s
            <4>2. ASSUME Valid(h[i]), h[i].seq = h[s].seq PROVE h[i].lsn = h[s].lsn
                <5>1. ~Valid(BadSlot)
                    BY DEF Valid, BadSlot
                <5>2. \A j \in {0, 1} : Valid(h[j]) => h[j] \in {headers[j], disk.headers[j]}
                    BY <1>3, <5>1
                <5>3. CASE i = s
                    BY <5>3
                <5>4. CASE i = 0 /\ s = 1
                    BY <3>1, <4>2, <5>2, <5>4 DEF SeqInv
                <5>5. CASE i = 1 /\ s = 0
                    BY <3>1, <4>2, <5>2, <5>5 DEF SeqInv
                <5> QED BY <3>1, <5>3, <5>4, <5>5
            <4>3. h[i].seq \in Int /\ h[s].seq \in Int
                BY <1>3, <3>1 DEF Slot
            <4> QED BY <3>1, <4>1, <4>2, <4>3 DEF Covers
        <3> QED BY <3>1, <3>2
    <2> QED BY <2>1, <2>2
<1>7. DownInv'
    <2> SUFFICES ASSUME Valid(h[Freshest(h)]), NEW i \in {0, 1}
                 PROVE  h[i].seq <= h[Freshest(h)].seq + 1
        BY <1>2 DEF DownInv, Freshest, Valid
    <2>1. h[0].seq \in Int /\ h[1].seq \in Int
        BY <1>3 DEF Slot
    <2> QED BY <2>1 DEF Freshest, Valid
<1>8. LoggedOnce' /\ WriterInv' /\ SavedInv' /\ SlotInv' /\ ScanInv'
    BY <1>2 DEF LoggedOnce, WriterInv, Whole, SavedInv, SlotInv, ScanInv, Inserting, Staging,
                Checkpointing
<1> QED BY <1>4, <1>5, <1>6, <1>7, <1>8

-----------------------------------------------------------------------------
\* Open and recovery: the header tells what is there, the log has the rest.
LEMMA OpenStep == ASSUME TypeOK, InHand, Sound, Open, watermark' # "lost" PROVE Sound'
<1> USE SlotTypes DEF Sound, Open, scans
<1> DEFINE s == Freshest(headers)
<1>1. s \in {0, 1} /\ 1 - s \in {0, 1} /\ headers[s] \in Slot /\ Valid(headers[s])
      /\ \A i \in {0, 1} : i \in {s, 1 - s}
    BY DEF Freshest, TypeOK
<1>2. /\ active' = s /\ seq' = headers[s].seq /\ watermark' = watermark
      /\ count' = headers[s].count /\ applied' = headers[s].lsn
      /\ pc = "down" /\ pc' = "replay" /\ base <= headers[s].lsn
      /\ UNCHANGED <<log, base, vectors, headers, saved, disk, live, snap, bound>>
    <2>1. headers[s].lsn \in Nat /\ base \in Nat /\ s \in {0, 1}
        BY <1>1
    <2>2. ~(headers[s].lsn < base)
        OBVIOUS
    <2>3. base <= headers[s].lsn /\ watermark' = watermark
        BY <2>1, <2>2
    <2> QED BY <2>3
<1>3. /\ \A i \in {0, 1} : headers[i].seq <= headers[s].seq
      /\ \A i \in {0, 1} : disk.headers[i].seq <= headers[s].seq + 1
      /\ disk.headers[s].seq <= headers[s].seq
    <2>1. \A i \in {0, 1} : headers[i].seq <= headers[s].seq
        BY DEF Freshest, Valid
    <2> QED BY <1>1, <1>2, <2>1 DEF DownInv, SeqInv
<1>4. Whole(headers[s].lsn, headers[s].count, vectors)
    BY <1>1 DEF HeadersKept, Kept
<1> HIDE DEF s
<1>5. LoggedOnce' /\ HeadersKept' /\ SeqInv'
    BY <1>2 DEF LoggedOnce, HeadersKept, Kept, Whole, SeqInv, Valid
<1>6. WriterInv' /\ SavedInv' /\ DownInv'
    BY <1>2, <1>4 DEF WriterInv, SavedInv, DownInv, Whole, Inserting, Staging, Checkpointing
<1>7. SlotInv'
    BY <1>1, <1>2, <1>3 DEF SlotInv, Valid
<1>8. AnchorInv'
    BY <1>2 DEF AnchorInv, Anchored, Covers, Valid, Staging
<1>9. ScanInv'
    BY <1>2 DEF ScanInv
<1> QED BY <1>5, <1>6, <1>7, <1>8, <1>9

LEMMA ReplayStep == ASSUME TypeOK, InHand, Sound, Replay PROVE Sound'
<1> USE FlatIndexAssumption DEF Sound, stored, scans, Ord
<1>1. /\ pc = "replay" /\ pc' = pc /\ applied' = applied + 1
      /\ vectors' = [vectors EXCEPT ![log[applied + 1]] = applied + 1]
      /\ count' = Max({count, log[applied + 1] + 1}) /\ applied + 1 <= Len(log)
      /\ UNCHANGED <<log, base, headers, active, seq, saved, disk, watermark, live, snap, bound>>
    <2>1. pc = "replay" /\ base <= applied
        BY DEF Replay, SlotInv
    <2>2. NextFrame = applied + 1
        BY <2>1, NextFrameIs
    <2> QED BY <2>2 DEF Replay
<1>2. applied \in Nat /\ Len(log) \in Nat /\ Len(log) <= MaxLog
      /\ \A l \in 1 .. Len(log) : log[l] \in Ordinals
    BY DEF TypeOK
<1>3. count \in 0 .. Capacity
    BY DEF TypeOK
<1>4. count <= count' /\ log[applied + 1] < count' /\ count' \in 0 .. Capacity
    BY <1>1, <1>2, NewCount
<1>5. \A l \in 1 .. Len(log) : vectors[log[l]] = l => vectors'[log[l]] = l
    BY <1>1, <1>2 DEF TypeOK, LoggedOnce
<1>6. vectors'[log[applied + 1]] = applied + 1
    BY <1>1, <1>2 DEF TypeOK
<1>7. LoggedOnce'
    BY <1>1 DEF LoggedOnce
<1>8. HeadersKept'
    <2> SUFFICES ASSUME NEW s \in {0, 1} PROVE Kept(headers[s])' /\ Kept(disk.headers[s])'
        BY DEF HeadersKept
    <2>1. Kept(headers[s]) /\ headers[s].lsn \in Nat
        BY DEF HeadersKept, TypeOK, Slot
    <2>2. Kept(disk.headers[s]) /\ disk.headers[s].lsn \in Nat
        BY DEF HeadersKept, TypeOK, Slot
    <2>3. Kept(headers[s])'
        BY <1>1, <1>2, <1>5, <2>1 DEF Kept, Whole, Valid
    <2>4. Kept(disk.headers[s])'
        BY <1>1, <1>2, <1>5, <2>2 DEF Kept, Whole, Valid
    <2> QED BY <2>3, <2>4
<1>9. WriterInv'
    <2>1. ASSUME NEW l \in 1 .. applied + 1
          PROVE  l <= Len(log) /\ vectors'[log[l]] = l /\ log[l] < count'
        <3>1. CASE l = applied + 1
            BY <1>1, <1>4, <1>6, <3>1
        <3>2. CASE l # applied + 1
            <4>1. l \in 1 .. applied /\ log[l] \in Ordinals /\ l <= Len(log)
                BY <1>1, <1>2, <3>2
            <4>2. vectors[log[l]] = l /\ log[l] < count
                BY <4>1 DEF WriterInv, Whole
            <4> QED BY <1>2, <1>3, <1>4, <1>5, <4>1, <4>2 DEF Ordinals
        <3> QED BY <3>1, <3>2
    <2> QED BY <1>1, <2>1 DEF WriterInv, Whole, Inserting, Staging, Checkpointing
<1>10. SavedInv' /\ SeqInv' /\ SlotInv' /\ DownInv' /\ AnchorInv' /\ ScanInv'
    BY <1>1, <1>2 DEF SavedInv, SeqInv, SlotInv, DownInv, AnchorInv, Anchored, ScanInv, Staging,
                      Checkpointing, Covers, Valid, TypeOK
<1> QED BY <1>7, <1>8, <1>9, <1>10

LEMMA ReadyStep == ASSUME TypeOK, InHand, Sound, Ready PROVE Sound'
<1> USE FlatIndexAssumption DEF Sound, Ready, mapped, stored
<1>1. applied = Len(log) /\ \A l \in 1 .. Len(log) : log[l] \in Ordinals
    <2>1. applied \in Nat /\ Len(log) \in Nat /\ applied + 1 > Len(log)
        BY NextFrameIs DEF TypeOK, SlotInv
    <2>2. applied > 0 => applied <= Len(log)
        BY <2>1 DEF WriterInv, Whole
    <2> QED BY <2>1, <2>2 DEF TypeOK
<1>2. LoggedOnce' /\ HeadersKept' /\ WriterInv'
    BY <1>1 DEF LoggedOnce, HeadersKept, Kept, Whole, Valid, WriterInv, Inserting, Staging,
                Checkpointing
<1>3. SavedInv' /\ SeqInv' /\ SlotInv' /\ DownInv' /\ AnchorInv'
    BY DEF SavedInv, SeqInv, SlotInv, DownInv, AnchorInv, Anchored, Covers, Valid, Staging,
           Checkpointing
<1>4. ScanInv'
    BY <1>1 DEF ScanInv, TypeOK
<1> QED BY <1>2, <1>3, <1>4

-----------------------------------------------------------------------------
LEMMA Inductive == IInv /\ [Next]_vars => IInv'
<1> SUFFICES ASSUME IInv, [Next]_vars PROVE IInv'
    OBVIOUS
<1>1. TypeOK' /\ InHand'
    BY TypeStep DEF IInv
<1> SUFFICES ASSUME watermark' # "lost" PROVE Sound'
    BY <1>1 DEF IInv
<1>2. CASE UNCHANGED vars
    BY <1>2 DEF vars, IInv, Sound, LoggedOnce, HeadersKept, Kept, Whole, Valid, WriterInv,
                SavedInv, SeqInv, SlotInv, Covers, DownInv, Freshest, AnchorInv, Anchored, ScanInv,
                Inserting, Staging, Checkpointing
<1>3. CASE Next
    <2>1. watermark # "lost"
        BY <1>3 DEF Next, stored, Logged, Copied, Publish, Admit, TakeSnapshot, LoadCount,
                    EndScan, BeginCheckpoint, SyncData, Overwrite, StageWatermark, SyncHeader,
                    Truncate, SyncFails, WriteBack, Kill, PowerCut, Open, Replay, Ready
    <2>2. TypeOK /\ InHand /\ Sound
        BY <2>1 DEF IInv
    <2> QED BY <1>3, <2>1, <2>2, LoggedStep, CopiedStep, PublishStep, AdmitStep, ScanStep,
               BeginStep, OverwriteStep, StageStep, SyncHeaderStep, TruncateStep, SyncFailsStep,
               WriteBackStep, KillStep, PowerCutStep, OpenStep, ReplayStep, ReadyStep DEF Next
<1> QED BY <1>2, <1>3

LEMMA Invariance == Spec => []IInv
BY InitIInv, Inductive, PTL DEF Spec

\* Every variable keeps its type, the count and the watermark their range.
THEOREM TypeCorrect == Spec => []TypeOK
BY Invariance, PTL DEF IInv

\* A header on disk never claims more than the pages under it hold, at any
\* moment of a checkpoint (index.rs: data before header), until records are
\* lost behind its back.
THEOREM HeadersAreHonest == Spec => []HeaderHonest
<1>1. IInv => HeaderHonest
    BY FlatIndexAssumption
       DEF IInv, Sound, HeadersKept, Kept, Whole, HeaderHonest, Honest, Ord, TypeOK
<1> QED BY <1>1, Invariance, PTL

\* Whatever is left of the headers if the power goes now, over kills, failed
\* flushes and earlier power cuts, FlatIndex::open finds one that recovery
\* can start from, unless a checkpoint has staged over the only one flushed.
THEOREM AlwaysReopens == Spec => []Reopens
<1>1. IInv => Reopens
    BY AnchorHolds DEF IInv, Reopens
<1> QED BY <1>1, Invariance, PTL

\* Records are lost from an exposed watermark only: open never passes over
\* one as long as none was staged over.
THEOREM LostOnlyExposed == Spec => [][watermark' = "lost" => watermark # "durable"]_vars
<1>1. IInv /\ [Next]_vars => [watermark' = "lost" => watermark # "durable"]_vars
    <2> SUFFICES ASSUME IInv, Next, watermark = "durable" PROVE watermark' # "lost"
        BY DEF vars
    <2> USE SlotTypes DEF IInv
    <2>1. CASE Open
        <3> DEFINE none == [s \in {0, 1} |->
                              IF s \in Unflushed(headers, disk.headers) THEN headers[s]
                              ELSE IF s \in {} THEN BadSlot ELSE disk.headers[s]]
        <3>1. none \in HeaderPages
            BY DEF HeaderPages
        <3>2. none = headers
            BY DEF Unflushed
        <3>3. Freshest(headers) \in {0, 1} /\ base <= headers[Freshest(headers)].lsn
            BY <3>1, <3>2, AnchorHolds DEF Opens, Freshest
        <3> QED BY <2>1, <3>3 DEF Open
    <2>2. CASE ~Open
        BY <2>2 DEF Next, stored, Logged, Copied, Publish, Admit, TakeSnapshot, LoadCount,
                    EndScan, BeginCheckpoint, SyncData, Overwrite, StageWatermark, SyncHeader,
                    Truncate, SyncFails, WriteBack, Kill, PowerCut, Replay, Ready
    <2> QED BY <2>1, <2>2
<1> QED BY <1>1, Invariance, PTL DEF Spec

\* A scan without locks reads every row its snapshot admits, and none that
\* is being written.
THEOREM ScansAreSound == Spec => []ScanSound
<1>1. IInv => ScanSound
    <2> SUFFICES ASSUME IInv, watermark # "lost", NEW r \in Readers, bound[r] # NotLoaded,
                        NEW o \in snap[r]
                 PROVE  o < bound[r] /\ vectors[o] > 0
        BY DEF ScanSound
    <2>1. PICK l \in 1 .. applied : log[l] = o
        BY DEF IInv, Sound, ScanInv
    <2> QED BY <2>1 DEF IInv, Sound, ScanInv, WriterInv, Whole, TypeOK
<1> QED BY <1>1, Invariance, PTL
=============================================================================
