--------------------------- MODULE PipelineRunner ---------------------------
(***************************************************************************)
(* One pipeline run of a workflow and everything that may work on it       *)
(* (apps/control-plane/src/pipeline: runner.ts, recovery.ts, step-store.ts,*)
(* steps/agent.ts; runs/delivery.ts): the driver that interprets the       *)
(* steps, the run_steps ledger it replays after a crash, the child runs of *)
(* agent steps, the user's Stop and the Slack reply the run owes.          *)
(*                                                                         *)
(* Several control-plane processes share the tables.  A driver lives in    *)
(* one of them under a session-level advisory lock, which dies with the    *)
(* process; rows and events survive.  An action is the code between two    *)
(* durable writes.  Step inputs, workflow state and `items` are one small  *)
(* value: what matters is whether two attempts saw the same one.           *)
(***************************************************************************)
EXTENDS Naturals, FiniteSets, FiniteSetsExt

CONSTANTS
    Proc,           \* control-plane processes
    Plans,          \* published configs, flattened (see PlanShape)
    MaxLen,         \* positions of the longest plan
    Value,          \* values a template may render to (naturals)
    Items,          \* [Value -> Nat]: how many items a loop finds in a value
    MaxItems,       \* a for_each's maxItems
    MaxAttempts,    \* attemptBudget
    MaxExecuted,    \* PIPELINE_MAX_STEPS_PER_RUN
    MaxFaults,      \* bound: process deaths and driver errors
    MaxStops,       \* bound: Stop requests
    MaxMoves,       \* bound: state writes by other runs, child parks
    Shutdowns,      \* whether a process may be closed gracefully
    None

Pos == 1 .. MaxLen

Kinds == {"tool", "once", "infer", "agent", "filter", "state", "branch",
          "loop", "end"}

\* A plan lists the step instances in execution order.  `loop` is the
\* position of the enclosing for_each (0: none) and `item` the iteration;
\* `lane` is the position of the enclosing branch.  An "end" closes a loop.
\* "once" is a tool step with sideEffect "at_most_once".  Loops do not nest (the config schema forbids it).
PlanShape == [kind : Kinds, loop : 0 .. MaxLen, item : Nat,
              lane : 0 .. MaxLen, halt : BOOLEAN]

\* The body of a loop is what stands between it and its end, item by item, in
\* the loop's own lane or in one of the body; a lane follows its branch.
WellNested(pl) ==
    \A i \in DOMAIN pl :
        /\ pl[i].loop < i /\ pl[i].lane < i
        /\ pl[i].kind = "end" => pl[i].loop # 0
        /\ pl[i].loop # 0 =>
             /\ pl[pl[i].loop].kind = "loop" /\ pl[pl[i].loop].loop = 0
             /\ pl[i].lane = pl[pl[i].loop].lane \/ pl[i].lane > pl[i].loop
             /\ \A k \in DOMAIN pl : k < i /\ pl[k].loop = pl[i].loop => pl[k].item <= pl[i].item
        /\ pl[i].kind = "loop" =>
             \E e \in DOMAIN pl :
                /\ i < e /\ pl[e].kind = "end" /\ pl[e].lane = pl[i].lane
                /\ \A k \in DOMAIN pl :
                     /\ pl[k].loop = i <=> i < k /\ k <= e
                     /\ i < k /\ k < e => pl[k].kind # "end"

ASSUME PlanAssumption ==
    \A pl \in Plans :
        /\ \E n \in Pos : DOMAIN pl = 1 .. n
        /\ \A i \in DOMAIN pl : pl[i] \in PlanShape
        /\ WellNested(pl)

ASSUME RunAssumption ==
    /\ None \notin Proc /\ MaxLen \in Nat \ {0}
    /\ Value \subseteq Nat /\ {0, 1} \subseteq Value /\ Items \in [Value -> Nat]
    /\ {MaxItems, MaxAttempts, MaxExecuted, MaxFaults, MaxStops, MaxMoves} \subseteq Nat

VARIABLES
    plan,    \* the published config this run was started with
    run,     \* the runs row: status, delivery marker, events begun, overdue
    row,     \* [Pos -> run_steps row]
    seen,    \* [Pos -> number of terminal step events in the stream]
    kid,     \* [Pos -> the agent step's linked child run]
    wf,      \* the workflow's durable state
    lock,    \* holder of the run's advisory lock
    drv,     \* [Proc -> driver]
    jobs,    \* agent-step dispatches under way (may outlive their driver)
    proc,    \* [Proc -> "up" | "closing" | "down"]
    owes,    \* [Proc -> recoverPending's settlement of this run]
    sweep,   \* Stop handlers yet to cancel the children: <<process, settled>>
    hist,    \* what happened: calls, sends, Stops, drivers
    faults, moves

vars == <<plan, run, row, seen, kid, wf, lock, drv, jobs, proc, owes, sweep,
          hist, faults, moves>>

Active == {"queued", "running", "waiting"}
Terminal == {"succeeded", "failed", "canceled"}

NoRow == [st |-> "none", att |-> 0, inp |-> 0, out |-> 0]
NoKid == [st |-> "none", armed |-> FALSE]
NoDriver == [pc |-> "none", pos |-> 1, att |-> 0, sc |-> 0, exec |-> 0,
             prior |-> {}, shown |-> {}, res |-> "ok", epoch |-> 0,
             child |-> "none", cancel |-> FALSE, intr |-> FALSE]

RunRow == [st : Active \cup Terminal \cup {"none"},
           deliv : {"none", "pending", "delivered", "failed"},
           begun : BOOLEAN, late : BOOLEAN]
StepRow == [st : {"none", "running", "waiting", "skipped"} \cup Terminal,
            att : Nat, inp : Value, out : Value]
ChildRow == [st : Active \cup Terminal \cup {"none"}, armed : BOOLEAN]
Driver == [pc : {"none", "boot", "begin", "step", "eval", "fin", "emit", "cancelrow",
                 "skip", "skipped", "attempt", "calling", "retry", "failing", "failed",
                 "dispatching", "watch", "park", "parked", "settle", "deliver", "post",
                 "mark", "exit"},
           pos : 1 .. MaxLen + 1, att : Nat, sc : Value, exec : Nat,
           prior : SUBSET Pos, shown : SUBSET Pos,
           res : Terminal \cup {"ok", "skipped"}, epoch : Nat,
           child : {"none", "linked", "stillborn"}, cancel : BOOLEAN, intr : BOOLEAN]
Job == [proc : Proc, pos : Pos, pc : {"link", "send", "fence"}, ab : BOOLEAN]
Past == [calls : [Pos -> SUBSET (Nat \X Nat \X Value)], sent : [Pos -> Nat],
         stops : Nat, epochs : Nat]

\* The shape of the rows, the drivers, the dispatches and the handlers.
TypeOK ==
    /\ plan \in Plans
    /\ run \in RunRow /\ row \in [Pos -> StepRow] /\ seen \in [Pos -> Nat]
    /\ kid \in [Pos -> ChildRow]
    /\ wf \in Value /\ lock \in Proc \cup {None}
    /\ drv \in [Proc -> Driver] /\ jobs \subseteq Job
    /\ proc \in [Proc -> {"up", "closing", "down"}]
    /\ owes \in [Proc -> {"none", "due", "post", "mark"}]
    /\ sweep \subseteq Proc \X BOOLEAN
    /\ hist \in Past /\ faults \in 0 .. MaxFaults /\ moves \in Nat

Init ==
    /\ plan \in Plans
    /\ run = [st |-> "none", deliv |-> "none", begun |-> FALSE, late |-> FALSE]
    /\ row = [i \in Pos |-> NoRow]
    /\ seen = [i \in Pos |-> 0]
    /\ kid = [i \in Pos |-> NoKid]
    /\ wf = 0 /\ lock = None
    /\ drv = [p \in Proc |-> NoDriver]
    /\ jobs = {} /\ sweep = {}
    /\ proc = [p \in Proc |-> "up"]
    /\ owes = [p \in Proc |-> "none"]
    /\ hist = [calls |-> [i \in Pos |-> {}], sent |-> [i \in Pos |-> 0],
               stops |-> 0, epochs |-> 0]
    /\ faults = 0 /\ moves = 0

-----------------------------------------------------------------------------
(* Where the driver goes next. *)

Len == Cardinality(DOMAIN plan)

\* A body instance exists for each item of the loop's PERSISTED input; a
\* lane's steps when the branch's recorded decision took it.
Applies(i) ==
    /\ plan[i].loop # 0 /\ plan[i].kind # "end" =>
         plan[i].item < Items[row[plan[i].loop].inp]
    /\ plan[i].lane # 0 => row[plan[i].lane].out # 0

Seek(j) == Min({k \in j .. Len : Applies(k)} \cup {Len + 1})

At(d, pc) == [d EXCEPT !.pc = pc]

\* Each item starts from the loop's own scope, and so does what follows it.
Onward(d, j) ==
    LET k == Seek(j)
        fresh == /\ k <= Len /\ plan[k].loop # 0
                 /\ \/ k = plan[k].loop + 1
                    \/ plan[k].kind = "end"
                    \/ plan[k - 1].item # plan[k].item
    IN  [d EXCEPT !.pc = "step", !.pos = k,
                  !.sc = IF fresh THEN row[plan[k].loop].inp ELSE @]

Settling(d, st) == [d EXCEPT !.pc = "settle", !.res = st]

EndOf(l) == CHOOSE e \in DOMAIN plan : plan[e].kind = "end" /\ plan[e].loop = l

NextItem(i) ==
    Min({k \in i + 1 .. Len : plan[k].loop = plan[i].loop
            /\ (plan[k].kind = "end" \/ plan[k].item > plan[i].item)})

NextTop(i) ==
    Min({k \in i + 1 .. Len : plan[k].loop = 0 /\ plan[k].lane = 0} \cup {Len + 1})

\* A failed step halts its sequence; a loop records it (onItemError
\* "continue") or fails with it.
Failing(d, i) ==
    LET l == plan[i].loop IN
    CASE l = 0 -> Settling(d, "failed")
      [] l # 0 /\ plan[l].halt -> [d EXCEPT !.pos = l, !.pc = "fin", !.res = "failed"]
      [] OTHER -> Onward(d, NextItem(i))

\* A false filter fences the rest of its scope: the item, or the whole run.
Fencing(d, i) ==
    IF plan[i].loop # 0 THEN Onward(d, NextItem(i))
    ELSE [d EXCEPT !.pc = "skip", !.pos = NextTop(i)]

\* A cancellation closes the enclosing loop's row on its way out.
Canceling(d, i) ==
    LET l == plan[i].loop IN
    IF l # 0 /\ plan[i].kind # "end" /\ row[l].st = "running"
    THEN [d EXCEPT !.pc = "cancelrow", !.pos = l]
    ELSE Settling(d, "canceled")

\* A filter that was evaluated to false.
Dropped(i) == plan[i].kind = "filter" /\ row[i].st = "succeeded" /\ row[i].out = 0

\* What a step with a terminal row means for its sequence.
Passing(d, i) ==
    CASE d.res = "failed" -> Failing(d, i)
      [] d.res = "canceled" -> Canceling(d, i)
      [] d.res \notin {"failed", "canceled"} ->
            IF Dropped(i) THEN Fencing(d, i)
            ELSE Onward(d, (IF plan[i].kind = "loop" THEN EndOf(i) ELSE i) + 1)

-----------------------------------------------------------------------------
(* The run's start, its adoption, and the driver's frame. *)

Is(p, pc) == drv[p].pc = pc
Handle(p) == drv[p].pc \notin {"none", "exit"}
Move(p, d) == drv' = [drv EXCEPT ![p] = d]
Goto(p, pc) == Move(p, At(drv[p], pc))

tables == <<plan, run, row, seen, kid, wf>>
around == <<plan, lock, jobs, proc, owes, sweep, faults, moves>>

\* markRun: terminal statuses are sticky.
markRun(st) == IF run.st \in Active THEN [run EXCEPT !.st = st] ELSE run
markDelivery(r, st) == IF r.deliv = "pending" THEN [r EXCEPT !.deliv = st] ELSE r

Launch(p) ==
    /\ lock' = p
    /\ hist' = [hist EXCEPT !.epochs = @ + 1]
    /\ Move(p, [NoDriver EXCEPT !.pc = "boot", !.epoch = hist.epochs + 1])

\* start: the lock on a pre-minted id, then the row (with the reply it owes
\* when it came from Slack), then the driver.
Start(p) ==
    /\ proc[p] = "up" /\ run.st = "none"
    /\ \E owed \in {"none", "pending"} :
          run' = [run EXCEPT !.st = "queued", !.deliv = owed]
    /\ Launch(p)
    /\ UNCHANGED <<plan, row, seen, kid, wf, jobs, proc, owes, sweep, faults, moves>>

\* Mutant of LockFree: adoption trusts the missing handle.
LockFreeAssumed == TRUE

\* tryAcquire of the run's advisory lock.
LockFree == lock = None

\* Mutant of Orphan: queued and parked runs are not looked for.
OrphanRunning == run.st = "running"

\* recoverPipelineRuns lists every active pipeline run.
Orphan == run.st \in Active

\* resume: an active run nobody drives is adopted ...
Resume(p) ==
    /\ proc[p] = "up" /\ Orphan
    /\ drv[p].pc = "none" /\ LockFree
    /\ Launch(p)
    /\ UNCHANGED <<tables, jobs, proc, owes, sweep, faults, moves>>

\* ... or fails outright when its published config is gone.
ResumeFails(p) ==
    /\ proc[p] = "up" /\ Orphan
    /\ drv[p].pc = "none" /\ LockFree
    /\ run' = markDelivery(markRun("failed"), "failed")
    /\ UNCHANGED <<row, seen, kid, wf, drv, hist, around>>

\* drive: queued, running or waiting becomes running; a run that was
\* canceled meanwhile is not driven.
Boot(p) ==
    /\ Is(p, "boot")
    /\ run' = markRun("running")
    /\ Goto(p, IF run.st \in Active THEN "begin" ELSE "exit")
    /\ UNCHANGED <<row, seen, kid, wf, hist, around>>

\* loadTerminalStepEventPaths: the steps whose end the stream already shows.
Shown == {i \in Pos : seen[i] > 0}

\* The state snapshot; on a resume also the budget already spent, the rows
\* already claimed and the terminal events already shown.
Begin(p) ==
    LET done == {i \in Pos : row[i].st \in Terminal} IN
    /\ Is(p, "begin")
    /\ run' = [run EXCEPT !.begun = TRUE]
    /\ Move(p, [Onward(drv[p], 1) EXCEPT
          !.sc = wf,
          !.exec = IF run.begun THEN Cardinality(done) ELSE 0,
          !.prior = IF run.begun THEN {i \in Pos : row[i].st # "none"} ELSE {},
          !.shown = IF run.begun THEN Shown ELSE Pos])
    /\ UNCHANGED <<row, seen, kid, wf, hist, around>>

-----------------------------------------------------------------------------
(* A step boundary, and the claim of the step's ledger row. *)

Spent(d) == d.exec >= MaxExecuted /\ d.pos \notin d.prior

\* runSequence between two steps: shutdown, Stop, wall clock, budget.
Boundary(p) ==
    LET d == drv[p] IN
    /\ Is(p, "step")
    /\ \/ d.pos > Len /\ Move(p, Settling(d, "succeeded"))
       \/ /\ d.pos <= Len /\ plan[d.pos].kind # "end"
          /\ \/ d.intr /\ Goto(p, "exit")
             \/ ~d.intr /\ d.cancel /\ Move(p, Canceling(d, d.pos))
             \/ ~d.intr /\ ~d.cancel /\ (run.late \/ Spent(d))
                /\ Move(p, Failing(d, d.pos))
       \/ /\ d.pos <= Len /\ plan[d.pos].kind = "end"
          /\ Move(p, [d EXCEPT !.pos = plan[d.pos].loop, !.pc = "fin",
                               !.res = "succeeded"])
    /\ UNCHANGED <<run, row, seen, kid, wf, hist, around>>

Stepping(p) ==
    LET d == drv[p] IN
    /\ Is(p, "step") /\ d.pos <= Len /\ plan[d.pos].kind # "end"
    /\ ~d.intr /\ ~d.cancel /\ ~run.late /\ ~Spent(d)

\* Where a claimed row's execution starts.
Entry(i) ==
    IF plan[i].kind \in {"tool", "once", "infer", "agent"} THEN "attempt" ELSE "eval"

\* The claim creates the row with the rendered input.
Claim(p) ==
    LET d == drv[p]  i == d.pos IN
    /\ Stepping(p) /\ row[i].st = "none"
    /\ row' = [row EXCEPT ![i] = [st |-> "running", att |-> 1, inp |-> d.sc,
                                  out |-> 0]]
    /\ Move(p, [d EXCEPT !.pc = Entry(i), !.att = 1, !.exec = @ + 1,
                         !.child = "none"])
    /\ UNCHANGED <<run, seen, kid, wf, hist, around>>

\* Mutant of Backfill: an adopted row's missing event stays missing.
BackfillNone(d, i) == UNCHANGED seen

\* backfillTerminalStepEvent: the event a crash swallowed after the write.
Backfill(d, i) ==
    IF i \notin d.shown /\ row[i].st # "canceled"
    THEN seen' = [seen EXCEPT ![i] = @ + 1] ELSE UNCHANGED seen

\* What the scope holds once step i has succeeded.
Fed(sc, i) ==
    CASE plan[i].kind = "state" -> row[i].inp
      [] plan[i].kind \in {"tool", "once", "infer", "agent"} -> row[i].out
      [] OTHER -> sc

\* Mutant of Adopted: a recorded failure is tried again.
AdoptedUnlessFailed(i) == row[i].st \in {"succeeded", "canceled", "skipped"}

\* adoptTerminal: which rows short-circuit.
Adopted(i) == row[i].st \in Terminal \cup {"skipped"}

\* A terminal row of an earlier driver stands for its execution: its output
\* (a state step's persisted values) feeds the scope again, its decision holds.
Adopt(p) ==
    LET d == drv[p]  i == d.pos IN
    /\ Stepping(p) /\ row[i].st # "none" /\ Adopted(i)
    /\ Backfill(d, i)
    /\ Move(p, Passing([d EXCEPT
            !.res = row[i].st, !.shown = @ \cup {i},
            !.sc = IF row[i].st = "succeeded" THEN Fed(@, i) ELSE @], i))
    /\ UNCHANGED <<run, row, kid, wf, hist, around>>

\* sideEffect "at_most_once": an interrupted call is not repeated.
Forbidden(i) == plan[i].kind = "once"

\* Mutant of Input: a resumed step renders its input afresh.
InputAfresh(d, i) == d.sc

\* A resumed step runs with the input it was claimed with.
Input(d, i) == row[i].inp

\* An interrupted row resumes as the next attempt (a parked agent step as
\* the same one), or fails honestly.
Reclaim(p) ==
    LET d == drv[p]  i == d.pos IN
    /\ Stepping(p) /\ row[i].st # "none" /\ ~Adopted(i)
    /\ IF Forbidden(i)
       THEN /\ Move(p, [d EXCEPT !.pc = "fin", !.res = "failed"])
            /\ UNCHANGED row
       ELSE LET att == IF row[i].st = "waiting" THEN row[i].att
                                                ELSE row[i].att + 1 IN
            /\ row' = [row EXCEPT ![i].st = "running", ![i].att = att,
                                  ![i].inp = Input(d, i)]
            /\ Move(p, [d EXCEPT !.pc = Entry(i), !.att = att, !.exec = @ + 1,
                    !.child = IF kid[i].st = "none" THEN "none" ELSE "linked"])
    /\ UNCHANGED <<run, seen, kid, wf, hist, around>>

-----------------------------------------------------------------------------
(* Control steps, and the two writes that close a step. *)

Closing(d, res) == [d EXCEPT !.pc = "fin", !.res = res]

\* A condition's value is recorded, or evaluating it fails.
Decide(p) ==
    LET d == drv[p]  i == d.pos IN
    /\ \/ \E m \in {0, 1} :
             /\ row' = [row EXCEPT ![i].st = "succeeded", ![i].out = m]
             /\ Move(p, [d EXCEPT !.pc = "emit", !.res = "succeeded"])
       \/ Move(p, Closing(d, "failed")) /\ UNCHANGED row
    /\ UNCHANGED <<run, seen, kid, wf, hist, around>>

\* executeFilter keeps or fences what follows; executeBranch picks its lane.
Filter(p) == Is(p, "eval") /\ plan[drv[p].pos].kind = "filter" /\ Decide(p)
Branch(p) == Is(p, "eval") /\ plan[drv[p].pos].kind = "branch" /\ Decide(p)

\* stateStore.set: the last write wins.
SetState(v) == wf' = v

\* executeState: the store refuses a write past its caps, or takes it.
StateWrite(p) ==
    LET d == drv[p]  i == d.pos IN
    /\ Is(p, "eval") /\ plan[i].kind = "state"
    /\ \/ /\ SetState(row[i].inp)
          /\ hist' = [hist EXCEPT !.calls[i] = @ \cup {<<d.epoch, d.att, row[i].inp>>}]
          /\ Move(p, [Closing(d, "succeeded") EXCEPT !.sc = row[i].inp])
       \/ Move(p, Closing(d, "failed")) /\ UNCHANGED <<wf, hist>>
    /\ UNCHANGED <<run, row, seen, kid, around>>

\* executeForEach: the verdict on the persisted items.
LoopEnter(p) ==
    LET d == drv[p]  i == d.pos IN
    /\ Is(p, "eval") /\ plan[i].kind = "loop"
    /\ Move(p, IF Items[row[i].inp] > MaxItems THEN Closing(d, "failed")
                                               ELSE Onward(d, i + 1))
    /\ UNCHANGED <<run, row, seen, kid, wf, hist, around>>

\* finishSucceeded, finishFailed: the row first ...
Finish(p) ==
    LET d == drv[p] IN
    /\ Is(p, "fin")
    /\ row' = [row EXCEPT ![d.pos].st = d.res]
    /\ Goto(p, "emit")
    /\ UNCHANGED <<run, seen, kid, wf, hist, around>>

\* ... then its event, and the scope goes on with the step's output.
Emit(p) ==
    LET d == drv[p] IN
    /\ Is(p, "emit")
    /\ seen' = [seen EXCEPT ![d.pos] = @ + 1]
    /\ Move(p, Passing([d EXCEPT
           !.sc = IF d.res = "succeeded" THEN Fed(@, d.pos) ELSE @], d.pos))
    /\ UNCHANGED <<run, row, kid, wf, hist, around>>

\* A canceled step or loop has a row and no event; the row of a loop stays
\* open when the driver was interrupted as well.
CloseCanceled(p) ==
    LET d == drv[p] IN
    /\ Is(p, "cancelrow")
    /\ IF plan[d.pos].kind = "loop" /\ d.intr
       THEN Goto(p, "exit") /\ UNCHANGED row
       ELSE /\ row' = [row EXCEPT ![d.pos].st = "canceled"]
            /\ Move(p, Canceling(d, d.pos))
    /\ UNCHANGED <<run, seen, kid, wf, hist, around>>

\* skipRemaining: every top-level step after a false filter gets a skipped
\* row and its event, or the event an earlier driver lost.
SkipStep(p) ==
    LET d == drv[p]  i == d.pos IN
    /\ Is(p, "skip")
    /\ \/ i > Len /\ Move(p, Settling(d, "succeeded")) /\ UNCHANGED <<row, seen>>
       \/ /\ i <= Len /\ row[i].st = "none"
          /\ row' = [row EXCEPT ![i].st = "skipped"]
          /\ Goto(p, "skipped") /\ UNCHANGED seen
       \/ /\ i <= Len /\ row[i].st # "none"
          /\ Backfill(d, i)
          /\ Move(p, [d EXCEPT !.pos = NextTop(i), !.shown = @ \cup {i}])
          /\ UNCHANGED row
    /\ UNCHANGED <<run, kid, wf, hist, around>>

SkipEmit(p) ==
    /\ Is(p, "skipped")
    /\ seen' = [seen EXCEPT ![drv[p].pos] = @ + 1]
    /\ Move(p, [drv[p] EXCEPT !.pc = "skip", !.pos = NextTop(@)])
    /\ UNCHANGED <<run, row, kid, wf, hist, around>>

-----------------------------------------------------------------------------
(* Leaf steps: attempts, retries, and the agent step's child. *)

\* executeLeaf before an attempt: shutdown, Stop and the wall clock again.
Attempt(p) ==
    LET d == drv[p]  i == d.pos IN
    /\ Is(p, "attempt")
    /\ \/ d.intr /\ Goto(p, "exit") /\ UNCHANGED <<hist, jobs>>
       \/ ~d.intr /\ d.cancel /\ Goto(p, "cancelrow") /\ UNCHANGED <<hist, jobs>>
       \/ /\ ~d.intr /\ ~d.cancel /\ run.late
          /\ Move(p, Closing(d, "failed")) /\ UNCHANGED <<hist, jobs>>
       \/ /\ ~d.intr /\ ~d.cancel /\ ~run.late
          /\ CASE plan[i].kind # "agent" ->
                    /\ Goto(p, "calling")
                    /\ hist' = [hist EXCEPT !.calls[i] =
                                    @ \cup {<<d.epoch, d.att, row[i].inp>>}]
                    /\ UNCHANGED jobs
               [] plan[i].kind = "agent" /\ d.child = "linked" ->
                    Goto(p, "watch") /\ UNCHANGED <<hist, jobs>>
               [] OTHER ->
                    /\ Goto(p, "dispatching") /\ UNCHANGED hist
                    /\ jobs' = jobs \cup {[proc |-> p, pos |-> i, pc |-> "link",
                                           ab |-> FALSE]}
    /\ UNCHANGED <<plan, run, row, seen, kid, wf, lock, proc, owes, sweep,
                   faults, moves>>

\* The driver after a failed attempt: again while the budget lasts, else the
\* terminal event and then the row.
Failed(d, retryable) ==
    IF retryable /\ d.att < MaxAttempts /\ ~d.cancel /\ ~run.late
    THEN At(d, "retry") ELSE At(d, "failing")

\* callMcpTool: a lost connection, a timeout, a 429 or a 5xx may be retried;
\* whatever the server answered on purpose may not.
CallFailures == {"retryable", "permanent"}

\* executeToolStep: also an unreachable authorization server is retryable; a
\* missing connection or grant, bad arguments and a tool's error are not.
ToolOutcomes == CallFailures \cup {"succeeded", "too_large"}

\* executeInferStep: a 429 or 5xx of the provider is retryable; a model off
\* the allowlist or output that stays invalid after one repair is not.
InferOutcomes == {"succeeded", "too_large", "retryable", "permanent"}

Outcomes(i) == IF plan[i].kind = "infer" THEN InferOutcomes ELSE ToolOutcomes

\* runAttempt: a call returned, failed or ran out of its time.  The runner
\* caps the output of a call that succeeded.
Return(p) ==
    LET d == drv[p]  i == d.pos IN
    /\ Is(p, "calling")
    /\ \/ d.intr /\ Goto(p, "exit") /\ UNCHANGED row
       \/ ~d.intr /\ d.cancel /\ Goto(p, "cancelrow") /\ UNCHANGED row
       \/ /\ ~d.intr /\ "succeeded" \in Outcomes(i)
          /\ \E v \in Value :
                row' = [row EXCEPT ![i].st = "succeeded", ![i].out = v]
          /\ Move(p, [d EXCEPT !.pc = "emit", !.res = "succeeded"])
       \/ /\ ~d.intr
          /\ \E e \in Outcomes(i) \ {"succeeded"} :
                /\ e # "too_large" => ~d.cancel
                /\ Move(p, IF e = "too_large" THEN Closing(d, "failed")
                           ELSE Failed(d, e = "retryable"))
          /\ UNCHANGED row
    /\ UNCHANGED <<run, seen, kid, wf, hist, around>>

\* After the backoff the next attempt is marked on the row.
Retry(p) ==
    LET d == drv[p] IN
    /\ Is(p, "retry")
    /\ row' = [row EXCEPT ![d.pos].st = "running", ![d.pos].att = d.att + 1]
    /\ Move(p, [d EXCEPT !.pc = "attempt", !.att = @ + 1])
    /\ UNCHANGED <<run, seen, kid, wf, hist, around>>

\* A leaf's failure is told first and recorded second.
EmitFailure(p) ==
    LET d == drv[p] IN
    /\ Is(p, "failing")
    /\ seen' = [seen EXCEPT ![d.pos] = @ + 1]
    /\ Goto(p, "failed")
    /\ UNCHANGED <<run, row, kid, wf, hist, around>>

RecordFailure(p) ==
    LET d == drv[p] IN
    /\ Is(p, "failed")
    /\ row' = [row EXCEPT ![d.pos].st = "failed"]
    /\ Move(p, Failing(d, d.pos))
    /\ UNCHANGED <<run, seen, kid, wf, hist, around>>

-----------------------------------------------------------------------------
(* The agent step's dispatch (steps/agent.ts, phase 1) runs beside its driver: *)
(* an abort makes the driver leave, the dispatch finds out at its fences.      *)

\* What the dispatch tells the driver that still waits for it.
Tell(j, d) == IF j.ab THEN UNCHANGED drv ELSE Move(j.proc, d)

\* Cancel fence (a): the attempt was aborted or the parent run is over.
Fenced(j) == j.ab \/ run.st \in Terminal

\* onRunCreated: the child row and its ledger link in one transaction.  A
\* busy session, or any other refusal, creates nothing.
Link(j) ==
    LET d == drv[j.proc] IN
    /\ j.pc = "link"
    /\ \/ /\ ~Fenced(j)
          /\ kid' = [kid EXCEPT ![j.pos] = [st |-> "queued", armed |-> FALSE]]
          /\ jobs' = (jobs \ {j}) \cup {[j EXCEPT !.pc = "send"]}
          /\ UNCHANGED drv
       \/ /\ jobs' = jobs \ {j} /\ UNCHANGED kid
          /\ \E busy \in BOOLEAN :
                /\ Fenced(j) => ~busy
                /\ Tell(j, Failed(d, busy))
    /\ UNCHANGED <<plan, run, row, seen, wf, lock, proc, owes, sweep, hist,
                   faults, moves>>

\* The pre-eve fences, the dispatch-attempt marker and the call to eve.  Eve
\* may refuse (a dead session is retried), and a worker may be missing
\* before the marker is set.
Send(j) ==
    LET d == drv[j.proc]  i == j.pos IN
    /\ j.pc = "send"
    /\ \/ /\ j.ab \/ kid[i].st \in Terminal
          /\ kid' = [kid EXCEPT ![i].st = IF @ \in Active THEN "canceled" ELSE @]
          /\ jobs' = jobs \ {j} /\ Tell(j, Failed(d, FALSE)) /\ UNCHANGED hist
       \/ /\ ~j.ab /\ kid[i].st = "queued"
          /\ kid' = [kid EXCEPT ![i].armed = TRUE]
          /\ hist' = [hist EXCEPT !.sent[i] = @ + 1]
          /\ jobs' = (jobs \ {j}) \cup {[j EXCEPT !.pc = "fence"]}
          /\ UNCHANGED drv
       \/ /\ ~j.ab /\ kid[i].st = "queued"
          /\ \E armed, dead \in BOOLEAN :
                /\ dead => armed
                /\ kid' = [kid EXCEPT ![i] = [st |-> "failed", armed |-> armed]]
                /\ Tell(j, Failed(d, dead))
          /\ jobs' = jobs \ {j} /\ UNCHANGED hist
    /\ UNCHANGED <<plan, run, row, seen, wf, lock, proc, owes, sweep, faults, moves>>

\* Eve accepted: the turn is live unless a Stop settled the child meanwhile.
\* Cancel fence (b) chases it when the attempt was aborted or the run
\* canceled; otherwise the driver parks on it.
Fence(j) ==
    LET d == drv[j.proc]  i == j.pos
        stopped == j.ab \/ run.st = "canceled" IN
    /\ j.pc = "fence"
    /\ jobs' = jobs \ {j}
    /\ kid' = [kid EXCEPT ![i].st =
                  IF @ \in Terminal THEN @
                  ELSE IF stopped THEN "canceled" ELSE "running"]
    /\ Tell(j, IF stopped \/ kid[i].st \in Terminal THEN Failed(d, FALSE)
               ELSE [d EXCEPT !.pc = "park", !.child = "linked"])
    /\ UNCHANGED <<plan, run, row, seen, wf, lock, proc, owes, sweep, hist,
                   faults, moves>>

\* runAttempt's abort: the driver does not wait for the executor.
Abandon(p) ==
    LET d == drv[p] IN
    /\ d.pc \in {"dispatching", "watch"} /\ (d.intr \/ d.cancel \/ run.late)
    /\ jobs' = {[j EXCEPT !.ab = @ \/ j.proc = p] : j \in jobs}
    /\ Move(p, CASE d.intr -> At(d, "exit")
                 [] ~d.intr /\ d.cancel -> At(d, "cancelrow")
                 [] OTHER -> At(d, "failing"))
    /\ UNCHANGED <<tables, lock, proc, owes, sweep, hist, faults, moves>>

\* Mutant of Stillborn: any failed child is replaced.
StillbornAny(k) == k.st = "failed"

\* isProvablyUndispatched: failed before the marker was set.
Stillborn(k) == k.st = "failed" /\ ~k.armed

\* watchAndExtract, phase 2: the linked child decides.
Watch(p) ==
    LET d == drv[p]  i == d.pos  k == kid[i] IN
    /\ Is(p, "watch")
    /\ \/ /\ k.st = "succeeded" /\ ~d.intr
          /\ \/ \E v \in Value :
                   /\ row' = [row EXCEPT ![i].st = "succeeded", ![i].out = v]
                   /\ Move(p, [d EXCEPT !.pc = "emit", !.res = "succeeded"])
             \/ Move(p, Failed(d, FALSE)) /\ UNCHANGED row
          /\ UNCHANGED jobs
       \/ /\ k.st = "waiting" /\ ~d.cancel /\ ~d.intr /\ Goto(p, "park")
          /\ UNCHANGED <<row, jobs>>
       \/ /\ Stillborn(k) /\ ~d.cancel /\ ~d.intr
          /\ Move(p, [d EXCEPT !.pc = "dispatching", !.child = "stillborn"])
          /\ jobs' = jobs \cup {[proc |-> p, pos |-> i, pc |-> "link", ab |-> FALSE]}
          /\ UNCHANGED row
       \/ /\ k.st \in {"failed", "canceled"} /\ ~Stillborn(k) /\ ~d.cancel /\ ~d.intr
          /\ Move(p, Failed(d, FALSE)) /\ UNCHANGED <<row, jobs>>
    /\ UNCHANGED <<plan, run, seen, kid, wf, lock, proc, owes, sweep, hist,
                   faults, moves>>

\* parkOnChild: the step and the run wait with the child ...
Park(p) ==
    LET d == drv[p] IN
    /\ Is(p, "park")
    /\ row' = [row EXCEPT ![d.pos].st = "waiting"]
    /\ run' = markRun("waiting")
    /\ Goto(p, "parked")
    /\ UNCHANGED <<seen, kid, wf, hist, around>>

\* ... until it moves, the user stops the run or the process closes.
Unpark(p) ==
    LET d == drv[p] IN
    /\ Is(p, "parked")
    /\ d.intr \/ d.cancel \/ kid[d.pos].st # "waiting"
    /\ run' = markRun("running")
    /\ IF d.intr \/ d.cancel
       THEN Goto(p, IF d.intr THEN "exit" ELSE "cancelrow") /\ UNCHANGED row
       ELSE Goto(p, "attempt") /\ row' = [row EXCEPT ![d.pos].st = "running"]
    /\ UNCHANGED <<seen, kid, wf, hist, around>>

\* The child's own life: its tail moves it, boot reconciliation fails one
\* whose dispatch died before eve's answer was recorded.
ChildMoves(i) ==
    /\ \/ /\ kid[i].st = "running" /\ moves < MaxMoves /\ moves' = moves + 1
          /\ kid' = [kid EXCEPT ![i].st = "waiting"]
       \/ /\ kid[i].st = "waiting" /\ UNCHANGED moves
          /\ kid' = [kid EXCEPT ![i].st = "running"]
       \/ /\ kid[i].st = "running" /\ UNCHANGED moves
          /\ \E st \in {"succeeded", "failed"} : kid' = [kid EXCEPT ![i].st = st]
       \/ /\ kid[i].st = "queued" /\ ~\E j \in jobs : j.pos = i
          /\ kid' = [kid EXCEPT ![i].st = "failed"] /\ UNCHANGED moves
    /\ UNCHANGED <<plan, run, row, seen, wf, lock, drv, jobs, proc, owes, sweep,
                   hist, faults>>

-----------------------------------------------------------------------------
(* The end of a run, and the reply it owes. *)

\* settle, or the driver error that ends the same way; an interrupted driver
\* writes nothing.
Settle(p) ==
    LET d == drv[p] IN
    /\ Is(p, "settle")
    /\ IF d.intr THEN Goto(p, "exit") /\ UNCHANGED run
       ELSE Goto(p, "deliver") /\ run' = markRun(d.res)
    /\ UNCHANGED <<row, seen, kid, wf, hist, around>>

\* Where a throw ends the driver: anywhere but in an executor, whose throws
\* are failed attempts, and in deliver, which catches its own.
Throws == {"boot", "begin", "step", "eval", "fin", "emit", "cancelrow", "skip",
           "skipped", "attempt", "calling", "retry", "failing", "failed", "park",
           "parked", "settle"}

\* An unexpected error (a store that throws): the run fails, or is left as it
\* is by an interrupted driver or because that last write throws as well.
DriverError(p) ==
    /\ drv[p].pc \in Throws
    /\ faults < MaxFaults /\ faults' = faults + 1
    /\ \/ Goto(p, "exit")
       \/ ~drv[p].intr /\ Move(p, Settling(drv[p], "failed"))
    /\ UNCHANGED <<tables, lock, jobs, proc, owes, sweep, hist, moves>>

\* deliver posts only what the DATABASE says succeeded and is still pending.
Owed == run.deliv = "pending" /\ run.st = "succeeded"

\* deliver, up to the call to Slack.
Deliver(p) ==
    /\ Is(p, "deliver")
    /\ \/ Owed /\ Goto(p, "post") /\ UNCHANGED run
       \/ /\ ~Owed /\ Goto(p, "exit")
          /\ run' = IF run.st \in Terminal THEN markDelivery(run, "failed") ELSE run
    /\ UNCHANGED <<row, seen, kid, wf, hist, around>>

\* chat.postMessage; no reply can be rendered or routed, or Slack refuses:
\* the ledger is settled failed.
Post(p) ==
    /\ Is(p, "post")
    /\ \/ Goto(p, "mark") /\ UNCHANGED run
       \/ Goto(p, "exit") /\ run' = markDelivery(run, "failed")
    /\ UNCHANGED <<row, seen, kid, wf, hist, around>>

Mark(p) ==
    /\ Is(p, "mark")
    /\ run' = markDelivery(run, "delivered") /\ Goto(p, "exit")
    /\ UNCHANGED <<row, seen, kid, wf, hist, around>>

\* The handle goes first, the lock last.
Release(p) ==
    /\ Is(p, "exit")
    /\ Move(p, NoDriver)
    /\ lock' = IF lock = p THEN None ELSE lock
    /\ UNCHANGED <<tables, jobs, proc, owes, sweep, hist, faults, moves>>

\* recoverPending at boot: the same deliver for a terminal run still owing.
RecoverDelivery(p) ==
    /\ owes[p] # "none" /\ UNCHANGED <<plan, row, seen, kid, wf, lock, drv, jobs,
                                       proc, sweep, hist, faults, moves>>
    /\ \/ /\ owes[p] = "due"
          /\ owes' = [owes EXCEPT ![p] = IF Owed THEN "post" ELSE "none"]
          /\ run' = IF run.st \in Terminal /\ ~Owed
                    THEN markDelivery(run, "failed") ELSE run
       \/ /\ owes[p] = "post"
          /\ \/ /\ owes' = [owes EXCEPT ![p] = "mark"] /\ UNCHANGED run
             \/ /\ owes' = [owes EXCEPT ![p] = "none"]
                /\ run' = markDelivery(run, "failed")
       \/ /\ owes[p] = "mark" /\ owes' = [owes EXCEPT ![p] = "none"]
          /\ run' = markDelivery(run, "delivered")

-----------------------------------------------------------------------------
(* Stop, shutdown, crash, and the clock. *)

\* Mutant of Sweepable: only steps the ledger still shows parked.
SweepableParked(i) == row[i].st \in {"running", "waiting"}

\* The cancel route sweeps ALL linked children.
Sweepable(i) == TRUE

\* The cancel route on process p: the live driver here is told; without one
\* the row is settled directly.
Stop(p) ==
    /\ proc[p] # "down" /\ run.st \in Active
    /\ hist.stops < MaxStops /\ hist' = [hist EXCEPT !.stops = @ + 1]
    /\ IF Handle(p)
       THEN /\ Move(p, [drv[p] EXCEPT !.cancel = TRUE])
            /\ jobs' = {[j EXCEPT !.ab = @ \/ j.proc = p] : j \in jobs}
            /\ UNCHANGED run
       ELSE run' = markRun("canceled") /\ UNCHANGED <<drv, jobs>>
    /\ sweep' = sweep \cup {<<p, ~Handle(p)>>}
    /\ UNCHANGED <<plan, row, seen, kid, wf, lock, proc, owes, faults, moves>>

\* ... then the reply is settled (when it was this handler that ended the
\* run) and every child the ledger links is canceled.
StopChildren(h) ==
    /\ h \in sweep /\ sweep' = sweep \ {h}
    /\ run' = IF h[2] THEN markDelivery(run, "failed") ELSE run
    /\ kid' = [i \in Pos |-> IF kid[i].st \in Active /\ Sweepable(i)
                             THEN [kid[i] EXCEPT !.st = "canceled"] ELSE kid[i]]
    /\ UNCHANGED <<plan, row, seen, wf, lock, drv, jobs, proc, owes, hist,
                   faults, moves>>

\* stopAll on one driver: interrupted, never canceled.
Drain(d) == [d EXCEPT !.intr = TRUE]

\* close: every live driver is interrupted and its attempt aborted.
Shutdown(p) ==
    /\ Shutdowns /\ proc[p] = "up"
    /\ faults < MaxFaults /\ faults' = faults + 1
    /\ proc' = [proc EXCEPT ![p] = "closing"]
    /\ drv' = [drv EXCEPT ![p] = IF Handle(p) THEN Drain(@) ELSE @]
    /\ jobs' = {[j EXCEPT !.ab = @ \/ (j.proc = p /\ Handle(p))] : j \in jobs}
    /\ UNCHANGED <<tables, lock, owes, sweep, hist, moves>>

\* The process is gone: its drivers, dispatches, handlers and lock with it.
Gone(p) ==
    /\ proc' = [proc EXCEPT ![p] = "down"]
    /\ drv' = [drv EXCEPT ![p] = NoDriver]
    /\ lock' = IF lock = p THEN None ELSE lock
    /\ jobs' = {j \in jobs : j.proc # p}
    /\ sweep' = {h \in sweep : h[1] # p}
    /\ owes' = [owes EXCEPT ![p] = "none"]
    /\ UNCHANGED <<tables, hist, moves>>

Crash(p) == proc[p] # "down" /\ faults < MaxFaults /\ faults' = faults + 1 /\ Gone(p)

\* close awaited every driver before the process leaves.
Closed(p) == proc[p] = "closing" /\ drv[p].pc = "none" /\ UNCHANGED faults /\ Gone(p)

\* Mutant of BootOwes: a boot recovers no deliveries.
BootOwesNothing == "none"

\* Boot reconciliation ends with recoverPending.
BootOwes == "due"

Restart(p) ==
    /\ proc[p] = "down"
    /\ proc' = [proc EXCEPT ![p] = "up"] /\ owes' = [owes EXCEPT ![p] = BootOwes]
    /\ UNCHANGED <<tables, lock, drv, jobs, sweep, hist, faults, moves>>

\* The run's wall clock runs out (restarts do not extend it).
Deadline ==
    /\ run.st \in Active /\ ~run.late /\ moves < MaxMoves /\ moves' = moves + 1
    /\ run' = [run EXCEPT !.late = TRUE]
    /\ UNCHANGED <<plan, row, seen, kid, wf, lock, drv, jobs, proc, owes, sweep,
                   hist, faults>>

\* Another run of the workflow (overlap "allow") moves the state.  Only a
\* driver's snapshot reads it, so the writes between two snapshots are
\* represented by the last one.
OtherRunWrites ==
    /\ run.st \in Active /\ \A p \in Proc : drv[p].pc \in {"none", "boot", "begin"}
    /\ moves < MaxMoves /\ moves' = moves + 1
    /\ \E v \in Value \ {wf} : wf' = v
    /\ UNCHANGED <<plan, run, row, seen, kid, lock, drv, jobs, proc, owes, sweep,
                   hist, faults>>

-----------------------------------------------------------------------------
Settles(p) == Settle(p) \/ Deliver(p) \/ Post(p) \/ Mark(p) \/ Release(p)

Steps(p) ==
    \/ Boot(p) \/ Begin(p) \/ Boundary(p) \/ Claim(p) \/ Adopt(p) \/ Reclaim(p)
    \/ Filter(p) \/ Branch(p) \/ StateWrite(p) \/ LoopEnter(p) \/ Finish(p) \/ Emit(p)
    \/ CloseCanceled(p) \/ SkipStep(p) \/ SkipEmit(p)
    \/ Attempt(p) \/ Return(p) \/ Retry(p) \/ EmitFailure(p) \/ RecordFailure(p)
    \/ Abandon(p) \/ Watch(p) \/ Park(p) \/ Unpark(p) \/ Settles(p)

Dispatches == \E j \in jobs : Link(j) \/ Send(j) \/ Fence(j)

Next ==
    \/ \E p \in Proc : \/ Start(p) \/ Resume(p) \/ ResumeFails(p) \/ Steps(p)
                       \/ RecoverDelivery(p) \/ DriverError(p) \/ Stop(p)
                       \/ Shutdown(p) \/ Crash(p) \/ Closed(p) \/ Restart(p)
    \/ Dispatches
    \/ \E h \in sweep : StopChildren(h)
    \/ \E i \in Pos : ChildMoves(i)
    \/ Deadline \/ OtherRunWrites

\* A live process keeps working: its driver, its dispatches and its handlers
\* go on, calls and child turns end (every one has a timeout), the recovery
\* sweeper comes round, and a dead process is restarted.
Fairness ==
    /\ \A p \in Proc : /\ WF_vars(Steps(p)) /\ WF_vars(RecoverDelivery(p))
                       /\ WF_vars(Resume(p)) /\ WF_vars(Closed(p))
                       /\ WF_vars(Restart(p))
    /\ WF_vars(Dispatches)
    /\ WF_vars(\E h \in sweep : StopChildren(h))
    /\ \A i \in Pos : WF_vars(ChildMoves(i))

Spec == Init /\ [][Next]_vars
FairSpec == Spec /\ Fairness

-----------------------------------------------------------------------------
(* Properties. *)

Driven == \E p \in Proc : drv[p].pc # "none"
Quiet == ~Driven /\ jobs = {} /\ sweep = {}

\* The advisory lock lets one driver at a time touch the run: row writes are
\* unconditional, so nothing else keeps two of them apart (runner.ts tryAcquire,
\* resume, drive's finally).
OneDriver == \A p, q \in Proc : Handle(p) /\ Handle(q) => p = q

\* Whatever crashes, a tool step declared "at_most_once" is called by one
\* driver only, its interrupted call being failed and never repeated
\* (executeLeaf); and the message of an agent step reaches eve at most once: a
\* restarted driver re-attaches to the linked child and replaces only one that
\* provably never left (steps/agent.ts phase 2, linkChildRunToStep).
AtMostOnce ==
    \A i \in DOMAIN plan :
        /\ plan[i].kind = "once" => Cardinality({c[1] : c \in hist.calls[i]}) <= 1
        /\ hist.sent[i] <= 1

\* Every attempt of a step, in this driver or after a restart, runs with the
\* input of the first one, although the state it was rendered from moved
\* (executeLeaf's and executeState's persisted input).
SameInput ==
    \A i \in DOMAIN plan : Cardinality({c[3] : c \in hist.calls[i]}) <= 1

\* A step whose switch reads "Never run twice" is called once (the step form's
\* label for sideEffect "at_most_once"; executeLeaf, attemptBudget).
NeverRunTwice ==
    \A i \in DOMAIN plan : plan[i].kind = "once" => Cardinality(hist.calls[i]) <= 1

\* A run that succeeded in time has a settled ledger, and every step that
\* ended shows its terminal event, whichever crash came between the row and
\* the event (backfillTerminalStepEvent, skipRemaining).
TimelineComplete ==
    run.st = "succeeded" /\ ~run.late /\ ~Driven =>
        \A i \in DOMAIN plan :
            /\ row[i].st \notin {"running", "waiting"}
            /\ row[i].st \in {"succeeded", "failed", "skipped"} => seen[i] > 0

\* When a Stop has ended the run and no process died on the way, no child
\* turn is left alive, however the dispatch raced the Stop (the cancel route's
\* sweep, the agent step's two fences).
StopReachesChildren ==
    Quiet /\ faults = 0 /\ run.st = "canceled" =>
        \A i \in Pos : kid[i].st \notin Active

\* A graceful shutdown leaves user work alone: without a Stop no child run is
\* ever canceled (stopAll: "a deploy must not cancel user work").
DeployCancelsNothing ==
    hist.stops = 0 => \A i \in Pos : kid[i].st # "canceled"

\* Started work ends, unless it waits for a person: the sweeper adopts what a
\* crash or a deploy left behind (recovery.ts, resume).
RunFinishes ==
    run.st \in Active ~>
        (run.st \in Terminal \/ \E i \in Pos : kid[i].st = "waiting")

\* A finished run does not owe its reply for ever (deliverOnComplete, the
\* cancel route, recoverPending).
DeliverySettles ==
    (run.st \in Terminal /\ run.deliv = "pending") ~> (run.deliv # "pending")

-----------------------------------------------------------------------------
\* What the ledger promises, stated without drivers: see StepLedger.
cell == [i \in Pos |->
            CASE row[i].st = "none" -> "blank"
              [] row[i].st \in {"running", "waiting"} -> "open"
              [] OTHER -> row[i].st]

frame == {i \in DOMAIN plan : plan[i].kind = "loop"}

Ledger == INSTANCE StepLedger WITH cell <- cell, frame <- frame

\* Whatever crashes and whoever resumes, the run_steps table moves as an
\* append-only ledger does: one leaf step open at a time, an outcome never
\* rewritten (claim, finish, adoptTerminal).
ImplementsLedger == Ledger!Spec
=============================================================================
