----------------------------- MODULE MCCatalog -----------------------------
(* Callers' names and shapes; and the one collection an embedder supplies  *)
(* to every open, or, in MCOpeningsGrow, to some: its id is its own.       *)
EXTENDS Catalog, TLC

CONSTANTS c1, c2

MCCallers == {c1, c2}
Declared == {Config(4, "s", "x")}
MCOpenings == {Declared}
MCOpeningsGrow == {{}, Declared}
MCWanted == {[name |-> "a", shape |-> "x"], [name |-> "b", shape |-> "x"]}
=============================================================================
