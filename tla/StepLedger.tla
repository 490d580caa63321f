----------------------------- MODULE StepLedger -----------------------------
(***************************************************************************)
(* What the run_steps table promises to whoever reads it (the run page,    *)
(* boot recovery, the reply renderer), without drivers, locks or crashes:  *)
(* step instances are opened one leaf at a time inside at most their       *)
(* frames (for_each rows), each ends once, and what it ended with stands.  *)
(***************************************************************************)
CONSTANT Pos        \* step instances of the run

VARIABLES cell,     \* [Pos -> "blank" | "open" | outcome]
          frame     \* the steps that enclose others while they are open

Outcome == {"succeeded", "failed", "canceled", "skipped"}

Init == cell = [i \in Pos |-> "blank"] /\ frame \subseteq Pos

OpenLeaf == {i \in Pos \ frame : cell[i] = "open"}

\* A step starts when no other leaf is under way.
Open(i) ==
    /\ cell[i] = "blank" /\ OpenLeaf = {}
    /\ cell' = [cell EXCEPT ![i] = "open"]

Close(i) ==
    /\ cell[i] = "open"
    /\ \E o \in Outcome \ {"skipped"} : cell' = [cell EXCEPT ![i] = o]

\* A step behind a false filter is never opened.
Skip(i) ==
    /\ cell[i] = "blank" /\ OpenLeaf = {}
    /\ cell' = [cell EXCEPT ![i] = "skipped"]

Next == (\E i \in Pos : Open(i) \/ Close(i) \/ Skip(i)) /\ UNCHANGED frame

Spec == Init /\ [][Next]_<<cell, frame>>
=============================================================================
