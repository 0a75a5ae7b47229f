----------------------------- MODULE DurableLog ------------------------------
(***************************************************************************)
(* What the log promises its callers, without LSNs, batches, files or      *)
(* checkpoints (WalHandle::append and the contract above it, wal.rs).      *)
(*                                                                         *)
(* A call is new, waiting, or has been answered: "ok", "failed" (an I/O    *)
(* error), "poisoned" (refused by a poisoned log), or "crashed" (the       *)
(* process ended first).  `kept' are the calls no crash can undo any more. *)
(***************************************************************************)
CONSTANT Calls

VARIABLES open, answer, kept, visible

vars == <<open, answer, kept, visible>>

Answers == {"new", "waiting", "ok", "failed", "poisoned", "crashed"}
With(a) == {c \in Calls : answer[c] = a}
Give(S, a) == answer' = [c \in Calls |-> IF c \in S THEN a ELSE answer[c]]

Init ==
    /\ open = TRUE
    /\ answer = [c \in Calls |-> "new"]
    /\ kept = {} /\ visible = {}

Ask(c) ==
    /\ open /\ c \in With("new")
    /\ Give({c}, "waiting")
    /\ UNCHANGED <<open, kept, visible>>

(* Becoming durable: of a call still waiting, or of one a crash has left   *)
(* in doubt; never of one that was answered with an error.                 *)
Keeps(S) ==
    /\ S \subseteq With("waiting") \cup With("crashed")
    /\ kept' = kept \cup S

Keep(S) == Keeps(S) /\ UNCHANGED <<open, answer, visible>>

(* Ok is answered only for what is kept, and makes it visible. *)
Confirm(c) ==
    /\ open /\ c \in With("waiting") \cap kept
    /\ Give({c}, "ok") /\ visible' = visible \cup {c}
    /\ UNCHANGED <<open, kept>>

(* An I/O error is answered only for what is not kept. *)
Fail(S) ==
    /\ open /\ S \subseteq With("waiting") \ kept
    /\ Give(S, "failed")
    /\ UNCHANGED <<open, kept, visible>>

Poison(S) ==
    /\ open /\ S \subseteq With("waiting")
    /\ Give(S, "poisoned")
    /\ UNCHANGED <<open, kept, visible>>

Crash(S) ==
    /\ Keeps(S)
    /\ open' = FALSE /\ visible' = {}
    /\ Give(With("waiting"), "crashed")

(* All that is kept is back, with some of what is in doubt. *)
Reopen ==
    /\ ~open /\ open' = TRUE
    /\ \E S \in SUBSET With("crashed") : visible' = kept \cup S
    /\ UNCHANGED <<answer, kept>>

Next ==
    \/ Reopen
    \/ \E c \in Calls : Ask(c) \/ Confirm(c)
    \/ \E S \in SUBSET Calls : Keep(S) \/ Fail(S) \/ Poison(S) \/ Crash(S)

Spec == Init /\ [][Next]_vars
=============================================================================
