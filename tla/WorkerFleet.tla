---------------------------- MODULE WorkerFleet ----------------------------
(***************************************************************************)
(* The worker registry and its two clients: a worker's registration loop   *)
(* (register, heartbeat, fence, drain, deregister), the scheduler that     *)
(* places a session's next turn on a worker, and the dead-worker sweeper   *)
(* that fails stranded runs over.                                          *)
(*                                                                         *)
(* Time is abstract: a row is `fresh' while its heartbeat is younger than  *)
(* the TTL, and Lapse ends that.  An agent is its version hash in the set  *)
(* `agents' of its worker (AgentManager has the processes).  A dispatch is *)
(* reduced to what placement sees of it: pick, ensure, send, persist       *)
(* (SessionDispatch has the rest).  Workers authenticate with the shared   *)
(* secret, the default, which cannot expire.                               *)
(***************************************************************************)
EXTENDS Naturals, FiniteSets

CONSTANTS
    Worker,      \* worker ids (WORKER_ID, kept across restarts)
    Session,     \* chat or agent-step sessions
    Hash,        \* agent version content hashes
    HashOf,      \* the version hash of each session
    MaxAgents,   \* a worker's agent cap (WORKER_MAX_AGENTS)
    MaxRuns,     \* bound: runs per session
    MaxFaults    \* bound: crashes, heartbeat gaps, slow or lost calls, drains

ASSUME FleetAssumption ==
    /\ HashOf \in [Session -> Hash] /\ "none" \notin Worker \cup Session
    /\ MaxAgents \in Nat \ {0} /\ MaxRuns \in Nat /\ MaxFaults \in Nat

None == "none"

VARIABLES
    row,    \* the workers table: status, heartbeat freshness, reported hashes
    wk,     \* worker processes, their loops; `old', `unaware': see SweepMark
    call,   \* the loop's HTTP call in flight, per worker
    late,   \* a call whose caller gave up, not yet handled by the server
    resv,   \* agentReservations of the control plane
    ses,    \* agent_sessions with their current run and its tail
    req,    \* a dispatch in flight, per session
    sweep,  \* the sweeper's pass
    faults

vars == <<row, wk, call, late, resv, ses, req, sweep, faults>>

RunLive == {"queued", "running", "waiting"}

NoCall == [kind |-> "none", hashes |-> {}, drain |-> FALSE]
NoReq == [w |-> None, st |-> "none"]
IdleSweep == [pc |-> "idle", todo |-> {}, s |-> None, w |-> None]
NewProcess == [up |-> TRUE, reg |-> FALSE, drain |-> "no", agents |-> {},
               old |-> {}, unaware |-> FALSE]

\* The fleet has registered; nothing has been dispatched.
Init ==
    /\ row = [w \in Worker |-> [st |-> "live", fresh |-> TRUE, hashes |-> {}]]
    /\ wk = [w \in Worker |-> [NewProcess EXCEPT !.reg = TRUE]]
    /\ call = [w \in Worker |-> NoCall]
    /\ late = [w \in Worker |-> NoCall]
    /\ resv = [w \in Worker |-> {}]
    /\ ses = [s \in Session |-> [eve |-> FALSE, aff |-> None, run |-> "none", gen |-> 0, tail |-> None, dropped |-> FALSE]]
    /\ req = [s \in Session |-> NoReq]
    /\ sweep = IdleSweep
    /\ faults = 0

(***************************************************************************)
(* Calls of the registration loop and their handlers.                      *)
(***************************************************************************)

\* A plausible slip in the heartbeat handler: the status follows the flag.
HeartbeatStatusFollowsFlag(st, c) == IF c.drain THEN "draining" ELSE "live"

\* A heartbeat may start a drain and never ends one.
HeartbeatStatus(st, c) == IF c.drain THEN "draining" ELSE st

\* The registry's handlers: the row after call c of worker w.
Handled(w, c) ==
    CASE c.kind = "register" ->
           [st |-> "live", fresh |-> TRUE, hashes |-> c.hashes]
      [] c.kind = "heartbeat" /\ row[w].st # "dead" ->
           [st |-> HeartbeatStatus(row[w].st, c), fresh |-> TRUE, hashes |-> c.hashes]
      [] OTHER -> row[w]

\* A heartbeat for a dead row is answered 404.
Gone(w, c) == c.kind = "heartbeat" /\ row[w].st = "dead"

\* Mutant of Fencing: re-register first, stop the agents some other time.
FencingNothing(w) == {}

\* onFenced stops the agents its stopAll finds.
Fencing(w) == wk[w].agents

Body(w) == [kind |-> IF wk[w].reg THEN "heartbeat" ELSE "register",
            hashes |-> wk[w].agents, drain |-> wk[w].drain # "no"]

\* The next tick comes a back-off (20 s and more) after a call that was given
\* up: by then that call has been handled or is lost.
Ticks(w) == wk[w].up /\ wk[w].drain # "left" /\ call[w] = NoCall /\ late[w] = NoCall
Calling(w) == call[w].kind \in {"register", "heartbeat"}

\* tick: register first, heartbeat from then on; answered at once, or under
\* way for a while.
TickSend(w) ==
    /\ Ticks(w)
    /\ faults < MaxFaults /\ faults' = faults + 1
    /\ call' = [call EXCEPT ![w] = Body(w)]
    /\ UNCHANGED <<row, wk, late, resv, ses, req, sweep>>

\* Call c of w is handled and answered.
Succeeds(w, c) ==
    /\ ~Gone(w, c)
    /\ row' = [row EXCEPT ![w] = Handled(w, c)]
    /\ wk' = [wk EXCEPT ![w].reg = TRUE]

\* A heartbeat answered 404: no longer registered, and the agents go first.
Refused(w, c) ==
    /\ Gone(w, c)
    /\ wk' = [wk EXCEPT ![w].reg = FALSE]
    /\ call' = [call EXCEPT ![w] = [NoCall EXCEPT !.kind = "fence", !.hashes = Fencing(w)]]
    /\ row' = row

Tick(w) ==
    /\ Ticks(w)
    /\ \/ Succeeds(w, Body(w)) /\ UNCHANGED call
       \/ Refused(w, Body(w))
    /\ UNCHANGED <<late, resv, ses, req, sweep, faults>>

TickAnswered(w) ==
    /\ Calling(w)
    /\ \/ Succeeds(w, call[w]) /\ call' = [call EXCEPT ![w] = NoCall]
       \/ Refused(w, call[w])
    /\ UNCHANGED <<late, resv, ses, req, sweep, faults>>

FenceDone(w) ==
    /\ call[w].kind = "fence"
    /\ wk' = [wk EXCEPT ![w].agents = @ \ call[w].hashes, ![w].old = @ \ call[w].hashes]
    /\ call' = [call EXCEPT ![w] = NoCall]
    /\ UNCHANGED <<row, late, resv, ses, req, sweep, faults>>

\* The 5 s abort or a network error: the loop backs off with its flags as
\* they were.  The request is lost, or its answer is, or it arrives later.
TickLost(w) ==
    /\ Calling(w)
    /\ \/ UNCHANGED <<row, late>>
       \/ /\ row' = [row EXCEPT ![w] = Handled(w, call[w])]
          /\ UNCHANGED late
       \/ /\ late' = [late EXCEPT ![w] = call[w]]
          /\ UNCHANGED row
    /\ call' = [call EXCEPT ![w] = NoCall]
    /\ UNCHANGED <<wk, resv, ses, req, sweep, faults>>

LateHandled(w) ==
    /\ late[w] # NoCall
    /\ row' = [row EXCEPT ![w] = Handled(w, late[w])]
    /\ late' = [late EXCEPT ![w] = NoCall]
    /\ UNCHANGED <<wk, call, resv, ses, req, sweep, faults>>

(***************************************************************************)
(* The worker process.                                                     *)
(***************************************************************************)

\* A process that goes leaves its unhandled call behind.
Straggler(w) == IF Calling(w) THEN call[w] ELSE late[w]

\* drain: flag, then one draining heartbeat when registered, whose answer
\* nobody looks at.  It is lost or late at the price of a fault of its own (one
\* slot holds the late calls of a worker).
DrainBegin(w) ==
    LET c == [kind |-> "heartbeat", hashes |-> wk[w].agents, drain |-> TRUE] IN
    /\ wk[w].up /\ wk[w].drain = "no" /\ faults < MaxFaults
    /\ wk' = [wk EXCEPT ![w].drain = "told"]
    /\ \/ /\ ~wk[w].reg
          /\ faults' = faults + 1
          /\ UNCHANGED <<row, late>>
       \/ /\ wk[w].reg
          /\ faults' = faults + 1
          /\ row' = [row EXCEPT ![w] = Handled(w, c)]
          /\ UNCHANGED late
       \/ /\ wk[w].reg /\ faults + 1 < MaxFaults
          /\ faults' = faults + 2
          /\ \/ UNCHANGED late
             \/ call[w] = NoCall /\ late[w] = NoCall /\ late' = [late EXCEPT ![w] = c]
          /\ UNCHANGED row
    /\ UNCHANGED <<call, resv, ses, req, sweep>>

\* The bounded wait for requests is over: stopAll, and the loop stops.
DrainStops(w) ==
    /\ wk[w].up /\ wk[w].drain = "told"
    /\ wk' = [wk EXCEPT ![w].drain = "left", ![w].agents = {}, ![w].old = {}]
    /\ UNCHANGED <<row, call, late, resv, ses, req, sweep, faults>>

Deregister(w) ==
    /\ wk[w].up /\ wk[w].drain = "left"
    /\ row' = [row EXCEPT ![w].st = "dead"]
    /\ wk' = [wk EXCEPT ![w].up = FALSE, ![w].reg = FALSE]
    /\ late' = [late EXCEPT ![w] = Straggler(w)]
    /\ call' = [call EXCEPT ![w] = NoCall]
    /\ UNCHANGED <<resv, ses, req, sweep, faults>>

Crash(w) ==
    /\ wk[w].up
    /\ faults < MaxFaults /\ faults' = faults + 1
    /\ wk' = [wk EXCEPT ![w] = [NewProcess EXCEPT !.up = FALSE]]
    /\ late' = [late EXCEPT ![w] = Straggler(w)]
    /\ call' = [call EXCEPT ![w] = NoCall]
    /\ UNCHANGED <<row, resv, ses, req, sweep>>

Boot(w) ==
    /\ ~wk[w].up
    /\ wk' = [wk EXCEPT ![w] = NewProcess]
    /\ UNCHANGED <<row, call, late, resv, ses, req, sweep, faults>>

\* The idle reaper stops an agent nobody talks to.
Reap(w, h) ==
    /\ h \in wk[w].agents /\ wk[w].drain = "no"
    /\ \A s \in Session : HashOf[s] = h => ses[s].tail # w /\ req[s].w # w
    /\ wk' = [wk EXCEPT ![w].agents = @ \ {h}, ![w].old = @ \ {h}]
    /\ UNCHANGED <<row, call, late, resv, ses, req, sweep, faults>>

\* No heartbeat for a whole TTL: the process is gone, or it is slow or cut off.
Lapse(w) ==
    /\ row[w].fresh
    /\ \/ ~wk[w].up /\ faults' = faults
       \/ wk[w].up /\ faults < MaxFaults /\ faults' = faults + 1
    /\ row' = [row EXCEPT ![w].fresh = FALSE]
    /\ UNCHANGED <<wk, call, late, resv, ses, req, sweep>>

(***************************************************************************)
(* The scheduler.                                                          *)
(***************************************************************************)

isWorkerLive(w) == row[w].st = "live" /\ row[w].fresh
LiveWorkers == {w \in Worker : isWorkerLive(w)}
isWarmOn(w, h) == h \in row[w].hashes

\* A reservation counts until the worker reports the hash.
reserved(w) == resv[w] \ row[w].hashes
occupied(w) == Cardinality(row[w].hashes) + Cardinality(reserved(w))
hasHeadroom(w) == occupied(w) < MaxAgents

Sticky(a, h) == a \in LiveWorkers /\ (isWarmOn(a, h) \/ hasHeadroom(a))
WarmWorkers(h) == {w \in LiveWorkers : isWarmOn(w, h)}
ColdWorkers == {w \in LiveWorkers : hasHeadroom(w)}

\* pickWorker: affinity, then warm, then the least occupied with headroom.
\* Ties go to the freshest heartbeat, which is any of them here.
pickWorker(h, a) ==
    IF Sticky(a, h) THEN {a}
    ELSE IF WarmWorkers(h) # {} THEN WarmWorkers(h)
    ELSE {w \in ColdWorkers : \A v \in ColdWorkers : occupied(w) <= occupied(v)}

\* The workers whose reservations that pick has counted, and so pruned.
Counted(h, a) ==
    IF a \in LiveWorkers /\ isWarmOn(a, h) THEN {}
    ELSE IF Sticky(a, h) \/ WarmWorkers(h) # {} THEN {a} \cap LiveWorkers
    ELSE LiveWorkers

\* selectWorker reserves the slot of an agent that is not running yet.
Reserved(h, a, w) ==
    [v \in Worker |->
        (IF v \in Counted(h, a) THEN reserved(v) ELSE resv[v])
        \cup (IF v = w /\ ~isWarmOn(w, h) THEN {h} ELSE {})]

\* The reservation's TTL covers the ensure it was made for.
ReservationLapses(w, h) ==
    /\ h \in resv[w]
    /\ \A s \in Session : HashOf[s] = h => req[s].w # w /\ ~(sweep.s = s /\ sweep.w = w)
    /\ resv' = [resv EXCEPT ![w] = @ \ {h}]
    /\ UNCHANGED <<row, wk, call, late, ses, req, sweep, faults>>

(***************************************************************************)
(* Dispatches and runs.                                                    *)
(***************************************************************************)

\* The worker's ensure handler and its proxy.
Ensures(w, h) == /\ wk[w].up /\ wk[w].drain = "no"
                 /\ h \in wk[w].agents \/ Cardinality(wk[w].agents) < MaxAgents
Serves(w, h) == wk[w].up /\ wk[w].drain = "no" /\ h \in wk[w].agents

\* A CAS onto a terminal status: the first one sticks.
settle(r, st) == IF r \in RunLive THEN st ELSE r

\* A message: a new run on a quiet session, placed before it is sent.  A new
\* session's row carries the pick at once.
Dispatch(s) ==
    LET h == HashOf[s] IN
    /\ req[s] = NoReq
    /\ ses[s].run \notin RunLive /\ ses[s].gen < MaxRuns
    /\ ses[s].eve \/ ses[s].gen = 0
    /\ \E w \in pickWorker(h, ses[s].aff) :
         /\ resv' = Reserved(h, ses[s].aff, w)
         /\ req' = [req EXCEPT ![s] = [w |-> w, st |-> "ensure"]]
         /\ ses' = [ses EXCEPT ![s].run = "queued", ![s].gen = @ + 1,
                               ![s].dropped = FALSE,
                               ![s].aff = IF ses[s].eve THEN @ ELSE w]
    /\ UNCHANGED <<row, wk, call, late, sweep, faults>>

\* The answer to a parked run re-uses its row.
AnswerInput(s) ==
    LET h == HashOf[s] IN
    /\ req[s] = NoReq /\ ses[s].run = "waiting"
    /\ \E w \in pickWorker(h, ses[s].aff) :
         /\ resv' = Reserved(h, ses[s].aff, w)
         /\ req' = [req EXCEPT ![s] = [w |-> w, st |-> "ensure"]]
    /\ ses' = [ses EXCEPT ![s].run = "queued", ![s].dropped = FALSE]
    /\ UNCHANGED <<row, wk, call, late, sweep, faults>>

DispatchFails(s) ==
    /\ ses' = [ses EXCEPT ![s].run = settle(@, "failed")]
    /\ req' = [req EXCEPT ![s] = NoReq]

ReqEnsure(s) ==
    LET w == req[s].w  h == HashOf[s] IN
    /\ req[s].st = "ensure"
    /\ \/ /\ Ensures(w, h)
          /\ wk' = [wk EXCEPT ![w].agents = @ \cup {h}]
          /\ req' = [req EXCEPT ![s].st = "send"]
          /\ UNCHANGED ses
       \/ /\ ~Ensures(w, h)
          /\ DispatchFails(s)
          /\ UNCHANGED wk
    /\ UNCHANGED <<row, call, late, resv, sweep, faults>>

\* The marker fence refuses a settled run; a worker without the agent fails it.
ReqSend(s) ==
    /\ req[s].st = "send"
    /\ IF ses[s].run \in RunLive /\ Serves(req[s].w, HashOf[s])
       THEN req' = [req EXCEPT ![s].st = "persist"] /\ UNCHANGED ses
       ELSE DispatchFails(s)
    /\ UNCHANGED <<row, wk, call, late, resv, sweep, faults>>

\* casSessionLive, the recheck, and the tail (start returns a tail already
\* there).
ReqPersist(s) ==
    /\ req[s].st = "persist"
    /\ ses' = [ses EXCEPT ![s].eve = TRUE, ![s].aff = req[s].w,
                          ![s].run = IF @ \in RunLive THEN "running" ELSE @,
                          ![s].tail = IF ses[s].run \in RunLive /\ @ = None THEN req[s].w ELSE @]
    /\ req' = [req EXCEPT ![s] = NoReq]
    /\ UNCHANGED <<row, wk, call, late, resv, sweep, faults>>

\* The tail reads its turn's boundary: finished or parked on input.
TurnEnds(s) ==
    /\ ses[s].run = "running" /\ ses[s].tail # None
    /\ wk[ses[s].tail].up /\ HashOf[s] \in wk[ses[s].tail].agents
    /\ \E st \in {"succeeded", "waiting"} :
         ses' = [ses EXCEPT ![s].run = st, ![s].tail = None]
    /\ UNCHANGED <<row, wk, call, late, resv, req, sweep, faults>>

\* Reconnects are exhausted (15.5 s of backoff) before a heartbeat can be a
\* TTL (30 s) old: nothing waits for the sweeper.
TailLost(s) ==
    /\ ses[s].tail # None
    /\ ~(wk[ses[s].tail].up /\ HashOf[s] \in wk[ses[s].tail].agents)
    /\ ses' = [ses EXCEPT ![s].run = settle(@, "failed"), ![s].tail = None]
    /\ UNCHANGED <<row, wk, call, late, resv, req, sweep, faults>>

Stop(s) ==
    /\ ses[s].run \in RunLive
    /\ ses' = [ses EXCEPT ![s].run = "canceled", ![s].tail = None]
    /\ UNCHANGED <<row, wk, call, late, resv, req, sweep, faults>>

(***************************************************************************)
(* The sweeper's pass.                                                     *)
(***************************************************************************)

Expired(w) == row[w].st # "dead" /\ ~row[w].fresh

Stranded(s) == /\ ses[s].run \in RunLive
               /\ ses[s].aff # None /\ row[ses[s].aff].st = "dead"

\* A pass; one that finds nothing to do changes nothing and is left out.
\* History, for FencedBeforeLive: the agents of a process whose row dies, and
\* whether it took itself for unregistered.
SweepMark ==
    /\ sweep.pc = "idle"
    /\ \/ \E w \in Worker : Expired(w)
       \/ \E s \in Session : Stranded(s)
    /\ row' = [w \in Worker |-> IF Expired(w) THEN [row[w] EXCEPT !.st = "dead"] ELSE row[w]]
    /\ wk' = [w \in Worker |-> IF Expired(w)
          THEN [wk[w] EXCEPT !.old = wk[w].agents,
                             !.unaware = ~wk[w].reg /\ wk[w].agents # {}] ELSE wk[w]]
    /\ sweep' = [sweep EXCEPT !.pc = "scan"]
    /\ UNCHANGED <<call, late, resv, ses, req, faults>>

SweepScan ==
    /\ sweep.pc = "scan"
    /\ sweep' = [sweep EXCEPT !.pc = "rows",
           !.todo = {[s |-> s, run |-> ses[s].run, gen |-> ses[s].gen, eve |-> ses[s].eve]
                        : s \in {t \in Session : Stranded(t)}}]
    /\ UNCHANGED <<row, wk, call, late, resv, ses, req, faults>>

\* A parked run: its affinity is cleared, whatever it is by now.
SweepParked(t) ==
    /\ sweep.pc = "rows" /\ t \in sweep.todo /\ t.run = "waiting"
    /\ ses' = [ses EXCEPT ![t.s].aff = None]
    /\ sweep' = [sweep EXCEPT !.todo = @ \ {t}]
    /\ UNCHANGED <<row, wk, call, late, resv, req, faults>>

\* No eve session yet: the run fails, and then the affinity is cleared.
SweepEveless(t) ==
    /\ sweep.pc = "rows" /\ t \in sweep.todo /\ t.run # "waiting" /\ ~t.eve
    /\ ses' = [ses EXCEPT ![t.s].run = IF ses[t.s].gen = t.gen THEN settle(@, "failed") ELSE @]
    /\ sweep' = [sweep EXCEPT !.pc = "clear", !.todo = @ \ {t}, !.s = t.s]
    /\ UNCHANGED <<row, wk, call, late, resv, req, faults>>

SweepClear ==
    /\ sweep.pc = "clear"
    /\ ses' = [ses EXCEPT ![sweep.s].aff = None]
    /\ sweep' = [sweep EXCEPT !.pc = "rows", !.s = None]
    /\ UNCHANGED <<row, wk, call, late, resv, req, faults>>

\* Placement of a stranded turn: none deferred, or the stale tail detached.
SweepPick(t) ==
    LET h == HashOf[t.s]  Picks == pickWorker(h, None) IN
    /\ sweep.pc = "rows" /\ t \in sweep.todo /\ t.run # "waiting" /\ t.eve
    /\ \/ /\ Picks = {}
          /\ sweep' = [sweep EXCEPT !.todo = @ \ {t}]
          /\ UNCHANGED <<resv, ses>>
       \/ \E w \in Picks :
          /\ resv' = Reserved(h, None, w)
          /\ ses' = [ses EXCEPT ![t.s].tail = IF ses[t.s].gen = t.gen THEN None ELSE @]
          /\ sweep' = [sweep EXCEPT !.pc = "ensure", !.s = t.s, !.w = w]
    /\ UNCHANGED <<row, wk, call, late, req, faults>>

\* The row being handled.
Current == CHOOSE t \in sweep.todo : t.s = sweep.s

\* A failed ensure is logged and the pass goes on, the tail gone.
SweepEnsure ==
    LET w == sweep.w  h == HashOf[sweep.s] IN
    /\ sweep.pc = "ensure"
    /\ \/ /\ Ensures(w, h)
          /\ wk' = [wk EXCEPT ![w].agents = @ \cup {h}]
          /\ sweep' = [sweep EXCEPT !.pc = "point"]
          /\ UNCHANGED ses
       \/ /\ ~Ensures(w, h)
          /\ sweep' = [sweep EXCEPT !.pc = "rows", !.todo = @ \ {Current}, !.s = None, !.w = None]
          /\ ses' = [ses EXCEPT ![sweep.s].dropped = TRUE]
          /\ UNCHANGED wk
    /\ UNCHANGED <<row, call, late, resv, req, faults>>

\* Mutant of Retail: the failover forgets to follow the run again.
RetailNever(t) == FALSE

\* startTail on the run of the scan; a run settled since then gets none.
Retail(t) == ses[t.s].gen = t.gen /\ ses[t.s].run \in RunLive

\* The session is re-pointed, wherever it points by now.
SweepPoint ==
    /\ sweep.pc = "point"
    /\ ses' = [ses EXCEPT ![sweep.s].aff = sweep.w, ![sweep.s].dropped = FALSE,
                          ![sweep.s].tail = IF Retail(Current) /\ @ = None THEN sweep.w ELSE @]
    /\ sweep' = [sweep EXCEPT !.pc = "rows", !.todo = @ \ {Current}, !.s = None, !.w = None]
    /\ UNCHANGED <<row, wk, call, late, resv, req, faults>>

SweepEnds ==
    /\ sweep.pc = "rows" /\ sweep.todo = {}
    /\ sweep' = IdleSweep
    /\ UNCHANGED <<row, wk, call, late, resv, ses, req, faults>>

Next ==
    \/ \E w \in Worker :
         \/ Tick(w) \/ TickSend(w) \/ TickAnswered(w) \/ FenceDone(w)
         \/ TickLost(w) \/ LateHandled(w)
         \/ DrainBegin(w) \/ DrainStops(w) \/ Deregister(w)
         \/ Crash(w) \/ Boot(w) \/ Lapse(w)
         \/ \E h \in Hash : Reap(w, h) \/ ReservationLapses(w, h)
    \/ \E s \in Session :
         \/ Dispatch(s) \/ AnswerInput(s) \/ ReqEnsure(s) \/ ReqSend(s) \/ ReqPersist(s)
         \/ TurnEnds(s) \/ TailLost(s) \/ Stop(s)
    \/ \E t \in sweep.todo : SweepParked(t) \/ SweepEveless(t) \/ SweepPick(t)
    \/ SweepMark \/ SweepScan \/ SweepClear \/ SweepEnsure \/ SweepPoint \/ SweepEnds

Spec == Init /\ [][Next]_vars

(***************************************************************************)
(* Properties.                                                             *)
(***************************************************************************)

RowType == [st : {"live", "draining", "dead"}, fresh : BOOLEAN, hashes : SUBSET Hash]
Process == [up : BOOLEAN, reg : BOOLEAN, drain : {"no", "told", "left"},
            agents : SUBSET Hash, old : SUBSET Hash, unaware : BOOLEAN]
CallType == [kind : {"none", "register", "heartbeat", "fence"}, hashes : SUBSET Hash,
             drain : BOOLEAN]
RunStatus == RunLive \cup {"none", "succeeded", "failed", "canceled"}
SessionRow == [eve : BOOLEAN, aff : Worker \cup {None}, run : RunStatus, gen : 0..MaxRuns,
               tail : Worker \cup {None}, dropped : BOOLEAN]
Request == [w : Worker, st : {"ensure", "send", "persist"}] \cup {NoReq}
Scanned == [s : Session, run : RunStatus, gen : 0..MaxRuns, eve : BOOLEAN]
Pass == [pc : {"idle", "scan", "rows", "clear", "ensure", "point"}, todo : SUBSET Scanned,
         s : Session \cup {None}, w : Worker \cup {None}]

\* The shape of every row, process, call and pass.
TypeOK ==
    /\ row \in [Worker -> RowType] /\ wk \in [Worker -> Process]
    /\ call \in [Worker -> CallType] /\ late \in [Worker -> CallType]
    /\ resv \in [Worker -> SUBSET Hash]
    /\ ses \in [Session -> SessionRow] /\ req \in [Session -> Request]
    /\ sweep \in Pass
    /\ faults \in 0..MaxFaults

\* Fencing (workers.ts, registration.ts): a process that is declared dead
\* while it runs is never offered work again with an agent of its former life
\* still running, however its calls, lost or late ones too, a drain and the
\* sweep interleave.  The exception is a process that had agents and did not
\* know that it was registered, its register still to be sent or its answer
\* lost: its next call is a register, which stops nothing.
FencedBeforeLive ==
    \A w \in Worker : row[w].st = "live" => wk[w].old = {} \/ wk[w].unaware

\* workers.ts: a worker marked dead is fenced, "so the worker stops its
\* (possibly failed-over) agents", without that exception.
FencedWithoutException == \A w \in Worker : row[w].st = "live" => wk[w].old = {}

\* Drain (registration.ts beginDrain, workers.ts heartbeat): once the row is
\* `draining' no call of the loop, not even one sent before the drain, puts
\* it back to live while the registered process drains.  A process told to
\* drain before it has registered is no such process: its register puts a
\* former process's `draining' row back to live until its first heartbeat.
DrainSticks ==
    [][\A w \in Worker : row[w].st = "draining" /\ row'[w].st = "live"
                         => wk[w].drain = "no" \/ ~wk[w].up \/ ~wk[w].reg]_vars

\* A queued or running run is in somebody's hands: its dispatch, a tail, or
\* the pass that detached the tail.
InHand(s) == \/ req[s] # NoReq
             \/ ses[s].tail # None
             \/ sweep.s = s

\* Failover (worker-sweeper.ts): whatever dispatches, Stops, restarts and
\* passes do to each other, only a failover whose ensure failed leaves a queued
\* or running run to nobody.
NobodyForgotten ==
    \A s \in Session : ses[s].run \in {"queued", "running"} => InHand(s) \/ ses[s].dropped

\* docs/runtime-worker-contract.md: "at most one live agent process per
\* version hash, fleet-wide", kept by the warm preference and reservations.
OneWriterPerHash ==
    \A v, w \in Worker : v # w => wk[v].agents \cap wk[w].agents = {}
=============================================================================
