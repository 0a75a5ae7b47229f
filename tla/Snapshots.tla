----------------------------- MODULE Snapshots -----------------------------
(***************************************************************************)
(* A snapshot file, replaced as a whole (write_snapshot_atomic of          *)
(* metadata/mod.rs): written beside the old one, flushed, renamed over it, *)
(* the directory flushed.  metadata.snap, tuples.snap and catalog.snap are *)
(* all written this way.                                                   *)
(*                                                                         *)
(* A file is [entry, flushed, tmp]: what the name leads to, what it leads  *)
(* to on the disk, and the file written beside it.  Bytes are a sequence   *)
(* of fields, the last of which is a checksum over those before.           *)
(***************************************************************************)
EXTENDS Integers, Sequences, SequencesExt

Absent == [there |-> FALSE, bytes |-> <<>>, synced |-> TRUE]
Content(bytes, synced) == [there |-> TRUE, bytes |-> bytes, synced |-> synced]
NoFile == [entry |-> Absent, flushed |-> Absent, tmp |-> Absent]
Stored(bytes) ==
    [entry |-> Content(bytes, TRUE), flushed |-> Content(bytes, TRUE), tmp |-> Absent]

Steps == <<"create", "write", "sync", "rename", "syncdir">>

\* The rename before the flush: a variant.
After_RenameFirst(file, step, bytes) ==
    CASE Steps[step] = "create" -> [file EXCEPT !.tmp = Content(<<>>, FALSE)]
      [] Steps[step] = "write" -> [file EXCEPT !.tmp.bytes = bytes]
      [] Steps[step] = "sync" -> [file EXCEPT !.entry = file.tmp]
      [] Steps[step] = "rename" -> [file EXCEPT !.entry.synced = TRUE, !.tmp = Absent]
      [] Steps[step] = "syncdir" -> [file EXCEPT !.flushed = file.entry]

\* The file after one step of the five.
After(file, step, bytes) ==
    CASE Steps[step] = "create" -> [file EXCEPT !.tmp = Content(<<>>, FALSE)]
      [] Steps[step] = "write" -> [file EXCEPT !.tmp.bytes = bytes]
      [] Steps[step] = "sync" -> [file EXCEPT !.tmp.synced = TRUE]
      [] Steps[step] = "rename" -> [file EXCEPT !.entry = file.tmp, !.tmp = Absent]
      [] Steps[step] = "syncdir" -> [file EXCEPT !.flushed = file.entry]

\* What is left when a step fails or the process ends: the file beside is
\* overwritten by the next snapshot and read by nobody.
Abandoned(file) == [file EXCEPT !.tmp = Absent]

\* What a power cut may leave of a file: the name as it was flushed or as it
\* is, and of bytes never flushed any beginning.
Survivors(content) ==
    IF content.synced THEN {content}
    ELSE {Content(part, TRUE) : part \in Prefixes(content.bytes)}
AfterPowerCut(file) ==
    {[entry |-> left, flushed |-> left, tmp |-> Absent] :
        left \in Survivors(file.flushed) \cup Survivors(file.entry)}

Sealed(body) == Append(body, [f |-> "crc", v |-> body])
Intact(bytes) == bytes # <<>> /\ Last(bytes).f = "crc" /\ Last(bytes).v = Front(bytes)
=============================================================================
