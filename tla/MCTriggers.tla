----------------------------- MODULE MCTriggers -----------------------------
EXTENDS Triggers, TLC

CONSTANTS p1, p2, r1, r2, w1, w2, m1, k1, k2

HookAndSlack == w1 :> "webhook" @@ w2 :> "slack"
Scheduled == w1 :> "schedule"
ScheduleAndHook == w1 :> "schedule" @@ w2 :> "webhook"
RequestSymmetry == Permutations(Req) \cup Permutations(Key)
=============================================================================
