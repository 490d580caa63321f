-------------------------- MODULE MCPipelineRunner --------------------------
(* Small pipelines for PipelineRunner. *)
EXTENDS PipelineRunner, TLC

S(kind, loop, item, lane, halt) ==
    [kind |-> kind, loop |-> loop, item |-> item, lane |-> lane, halt |-> halt]
Top(kind) == S(kind, 0, 0, 0, FALSE)

\* One agent step.
Agent == 1 :> Top("agent")

\* A cursor: what follows a false filter is skipped.
Cursor == (1 :> Top("filter")) @@ (2 :> Top("state"))

\* A loop that goes on past a failing item, and a step the budget may refuse.
Fan == (1 :> Top("loop")) @@ (2 :> S("once", 1, 0, 0, FALSE))
       @@ (3 :> S("once", 1, 1, 0, FALSE)) @@ (4 :> S("end", 1, 2, 0, FALSE))

\* A loop that stops at the first failing item; a filter drops an item.
Halting == (1 :> S("loop", 0, 0, 0, TRUE)) @@ (2 :> S("filter", 1, 0, 0, FALSE))
           @@ (3 :> S("filter", 1, 1, 0, FALSE)) @@ (4 :> S("end", 1, 2, 0, FALSE))

\* A lane, taken or not.
Lane == (1 :> Top("branch")) @@ (2 :> S("infer", 0, 0, 1, FALSE))

\* A loop in a lane: its body runs only when the branch takes it.
LaneLoop == (1 :> Top("branch")) @@ (2 :> S("loop", 0, 0, 1, FALSE))
            @@ (3 :> S("state", 2, 0, 1, FALSE)) @@ (4 :> S("state", 2, 1, 1, FALSE))
            @@ (5 :> S("end", 2, 2, 1, FALSE))

MCPlans == {Agent, Cursor, Fan, Halting, Lane, LaneLoop}
LivenessPlans == {Agent, Fan}
AgentPlans == {Agent}
Symmetry == Permutations(Proc)
MCItems == (0 :> 2) @@ (1 :> 3)
=============================================================================
