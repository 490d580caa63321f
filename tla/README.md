# A TLA+ model of invisible-string

invisible-string runs AI agents for teams. A *control plane* (apps/control-plane,
Bun + Postgres) owns sessions, runs and workflows; *workers* (apps/worker) boot
compiled agents as child processes and proxy HTTP to them; the agents themselves
run on `eve`, an external runtime with durable sessions and an event stream. A web
application (apps/web) talks to the control plane over HTTP and SSE.

This directory holds specifications of the parts whose correctness depends on
interleaving, crashes and time, the TLC configurations that check them, and proofs
that TLAPS checks. `PROJECT.json` maps every modelling definition to the source
lines it stands for.

## 1. Inventory

| Component | State it keeps | Operations | What is hard |
|---|---|---|---|
| Agent manager (worker `agents.ts`, `ports.ts`, `server.ts`, `supervisor.ts`) | `running` handles, pending boots, port pool, in-flight counts, drain flag | ensure, boot, stop, idle sweep, crash cleanup, proxy begin/end, stopAll, fence, drain | one thread but an await in every operation; handles leave `running` before their process dies; ports are released by three different paths |
| Session dispatch (`runtime/dispatch.ts`, `routes.ts`, `session-lock.ts`) | `agent_sessions` and `runs` rows, an advisory lock per session, the dispatch-attempt marker | new chat, message, agent step, HITL answer, reset, Stop | the eve call may time out and still happen; the process may die at any point; the next dispatch must decide from rows alone |
| Run tails (`runs/tailer.ts`, `runs/store.ts`) | one reader per eve session, cursor, attribution of turns to runs, remote-cancel obligations | start, chain, observe, read, finish, detach | events of several runs in one stream; a Stop outlives the request; readers hand the stream over |
| Boot reconciliation, remote-cancel sweeper (`runtime/reconcile.ts`) | snapshots of interrupted runs and eveless sessions | sweep 1, sweep 2, settle obligations | runs beside live traffic |
| Worker registry, scheduler, dead-worker sweeper (`runtime/workers.ts`, `scheduler.ts`, `worker-sweeper.ts`, worker `registration.ts`) | `workers` rows, session affinity, reservations | register, heartbeat, drain, deregister, place, mark dead, fail over | false suspicion, fencing, late calls, failover without the session lock |
| Pipeline runner (`pipeline/`) | run row, `run_steps` ledger, workflow state, lock per run | start, replay, step kinds, park, cancel, stopAll, recovery sweep | replay after a crash between an effect and its ledger row; lock pool at its limit |
| Reply delivery (`runs/delivery.ts`) | `delivery_status` marker | deliver, recoverPending | post first, mark later; several settlers |
| Schedule ticker, cron | `next_fire_at` cursor | claim, dispatch | several tickers; crash after the claim |
| OAuth broker and tokens (`oauth/`) | `connection_oauth` row | start, callback, refresh, revoke | single-use state, rotating refresh tokens, lost answers |
| Trigger ingress (`integrations/`) | idempotency map, seen events, rate windows | webhook, Slack event | check before an await, remember after it |
| Build and compile service (`build/`, `compile-service.ts`) | `builds`, `agent_versions` | ensureBuild | coalescing per hash, crash in the middle |
| Artifact cache (worker `cache.ts`) | extracted directories, LRU order | ensure, evict | eviction beside boots |
| Run event stream (`runs/sse.ts`, `bus.ts`) | persisted events, live subscribers | replay, follow | the seam between replay and follow |
| Chat client (`lib/sse.ts`, `use-thread-streams.ts`, `run-view.ts`, `use-message-queue.ts`, `ThreadContainer.tsx`) | cursors, frames, cached rows, queued messages, retry timer | connect, reopen, submit, flush, give up, Stop, answer | what the tab believes of the run slot lags what the server knows |

How they interact: a trigger or a chat message is *admitted* as a run row under the
session's advisory lock; the dispatch picks a worker, ensures the agent there, arms
the dispatch-attempt marker, sends the turn to eve through the worker's proxy,
persists the eve id and starts a tail. The tail reads eve's stream, attributes turns
to runs and finishes the run row; the SSE endpoint replays and follows what it
persisted. Stops settle the row at once and leave a *remote-cancel obligation* that
a tail, an observer or the sweeper discharges. A pipeline's agent step dispatches a
child run the same way.

What makes each component correct:

- *Agent manager*: the port pool neither leaks nor shares a port; no request is
  routed to a process that is not the agent; the cap holds; stopAll and drain end and
  cover what they promise.
- *Session dispatch*: one eve session per row; one live run per session; an accepted
  turn's session is not closed under it; a thread is only taken from a session that
  sent nothing; a reset has nothing beneath it.
- *Tails, reconciliation*: every admitted run is eventually finished or parked; every
  obligation is met or declared unresolved, and never dropped while eve still owes
  the turn; a tail does not miss its own turn's end.
- *Worker registry*: a worker declared dead has stopped its old agents before it is
  offered work again; a drain is not undone; no live run is left to nobody.
- *Pipeline runner*: one driver; an at-most-once step is not repeated by a second
  driver and an agent step is sent once; attempts agree on their input; the ledger
  only grows; a Stop leaves no child alive; what started finishes and answers.
- *Ticker and ingress*: a window fires at most once and is not backfilled; cap and
  overlap hold for racing dispatches; connections and runs belong together; a repeated
  delivery starts nothing; a due window is claimed.
- *OAuth*: tokens and endpoints stay paired; nothing of a flow outlives the reset of
  its grant; one-time credentials are used once; a failed re-consent harms nothing.
- *Streams and chat*: no gap and no repetition in a transcript; no message lost, sent
  twice or reordered; a finished run is shown finished; a queued message does not
  strand.

The hazards behind these, each at its line, are listed in `PROJECT.json`.

## 2. Modules

| Module | Models | Runs |
|---|---|---|
| `AgentManager` | the agent process manager of one worker, its pool, proxy counts, stopAll, fencing and drain | `agent_manager` |
| `AgentManagerProofs` | the inductive invariant of `AgentManager` and its theorems | TLAPS |
| `SessionDispatch`, `MCSessionDispatch` | dispatch, Stop, tails, remote cancels and reconciliation of one control-plane process, with eve as an external actor | `dispatch_*` |
| `SessionDispatchProofs` | the layered invariant of `SessionDispatch`: sessions, runs, requests, tails and sweeps | TLAPS |
| `SessionTurnProofs` | the order of a session's turns, its stopped runs' obligations, the ends its tails wait for | TLAPS |
| `PipelineRunner`, `MCPipelineRunner` | one pipeline run over several processes: drivers, ledger, children, Stop, deploy, recovery, the reply it owes | `pipeline_*` |
| `PipelineRunnerProofs` | the inductive invariant of `PipelineRunner`, the replay of a predecessor's rows, the refinement of `StepLedger`, the timeline | TLAPS |
| `StepLedger` | what the `run_steps` table promises a reader; `PipelineRunner` implements it | `pipeline_ledger` |
| `WorkerFleet`, `MCWorkerFleet` | registration loops, registry, placement, the sweeper's failover | `fleet` |
| `WorkerFleetProofs` | the inductive invariant of `WorkerFleet` | TLAPS |
| `OAuthGrant`, `MCOAuthGrant` | one connection's grant: flows, callbacks, refreshes, edits, authorization servers | `oauth` |
| `OAuthGrantProofs` | the inductive invariant of `OAuthGrant` | TLAPS |
| `Triggers`, `MCTriggers` | ticker, webhook and Slack ingress, manual runs, admission, edits of trigger rows | `triggers_*` |
| `TriggersProofs` | the inductive invariant of `Triggers` | TLAPS |
| `ChatThread`, `MCChatThread` | a browser tab's streams and message queue composed with tails, bus and SSE responses | `chat_thread` |
| `ChatThreadProofs` | the inductive invariants of `ChatThread`: messages and streams | TLAPS |

The modules meet at their interfaces: `WorkerFleet` sees a dispatch as placement does
and leaves the rest to `SessionDispatch`, an agent is a hash there and a process in
`AgentManager`; `Triggers` ends where a run is launched and `PipelineRunner` starts
there; `PipelineRunner` sees an agent step's child run as a row with a send in flight;
`ChatThread` sees tails as what they persist and publish.

In each module a definition named like another with a suffix and a comment that says
"Mutant" is a plausible bug in the code it resembles; no specification uses it. They
exist so that every property can be seen to fail when the code is wrong. Every module
also states its types as `TypeOK`; all are proved, and that of `AgentManager` is checked
by TLC as well.

### AgentManager

The supervisor is one JavaScript thread, so an action is the code between two awaits.

- `running[h]` is the handle map; `boot[h]` the pending boot promise and how far it
  is (artifact, port probe, spawned); `up` is the operating system's view, which the
  supervisor does not see; `stopping` are the processes stopAgent awaits.
- `EnsureAccepted` / `EnsureAgent` are the two halves of the ensure handler around
  `await request.json()`: the draining check is before the await, the cap after it.
- `ArtifactReady`, `ProbeBurns`, `Spawn`, `BootReady`, `BootFails` are bootAgent.
  A busy port found by the bind probe stays allocated ("burned").
- `ProcessExits` is a process death with the exit handler that follows; it cleans up
  only when the handle is still the running one. `StopReturns` is the end of
  stopAgent, which releases the port even if the process survived SIGKILL (`Stuck`).
- `BeginRequest` / `EndRequest` are the proxy's counts; endRequest looks the handle up
  by hash when the response ends.
- `StopAllStarts`, `StopAllRunning`, `StopAllReturns` are stopAll for its two callers,
  the fencing hook and drain().

Bounds: `MaxProcs` processes per behaviour (SpawnBudget stops new boots at it),
`MaxPort` ports. Data left out: URLs, environment, logs, idle timestamps (the idle
window may have passed whenever a ready agent has no request).

### SessionDispatch

- `sess`, `run` are the two tables, reduced to the columns that decide anything:
  status, whether the eve id is known, whether the row holds its Slack thread key; for
  a run its status, session, dispatch-attempt marker (`armed`), whether its turn id is
  recorded, whether it owes a remote cancel, whether that was declared unresolved.
  A run's number is its `created_at` order.
- `lock` is the advisory lock per session. It dies with the process, the rows do not.
- `disp[d]` is a request in progress, with its program counter and the row snapshot it
  took. `Begin` to `StartTail` and the `Fail*` actions follow dispatchRenderedRun,
  createChatSession, resumeRunInput and failEveDispatch.
- `eve[s]` is the runtime behind the row, external: how many sessions were created for
  it, the queue of accepted turns, the open turn, the event log and `cur`, how much of
  the log has been persisted. `limbo` holds sends whose client gave up: eve may still
  accept them (`EveAcceptsLate`), in the order they were sent.
- `tail[r]` is the tail of run r in this process: preamble, following, ended with its
  two writes outstanding, stopping, or observing for an obligation. One reader per
  session: a new tail waits for the previous one to release the stream.
- `stops` are Stop handlers between finding no tail and settling the row.
- `recon` is boot reconciliation with the stale snapshots it works from.
- `Restart(S)` is a crash or a graceful shutdown; S are the tails that still settle.

Environment assumptions, all constants or stated in comments:

- `EarlyTraffic = FALSE`: no request arrives while sweep 1 runs. The code does not
  enforce it; `SessionDispatchEarlyMessage.cfg` shows what happens without it.
- `SlowStop = FALSE`: a Stop that found no tail performs its one UPDATE before a tail
  started after that lookup has finished its preamble. The code does not enforce it
  either; `SessionDispatchSlowStop.cfg` shows what happens without it.
- eve serialises the turns of a session, keeps them in arrival order, and answers 404
  or 409 for a session it has ended. These come from how dispatch.ts, tailer.ts and
  the session API types use it.

Abstracted: payloads, content hashes (attribution is by run), seq numbers (the cursor
is one number per session), backoff and reconnects (a lost stream is `TailLost`),
which worker serves a session.

### PipelineRunner and StepLedger

- `plan` is the published config, flattened: the step instances in execution order with
  their enclosing loop, item and lane. `row` is `run_steps`, `seen` the terminal step
  events of the stream, `kid` the linked child run of an agent step, `wf` the durable
  workflow state. Inputs, state and items are one small value: what matters is whether
  two attempts saw the same one.
- `drv[p]` is the driver in process p with its program counter; `lock` the run's
  advisory lock, which dies with the process. An action is the code between two durable
  writes: claim or adopt (`Claim`, `Reclaim`, `Adopted`), attempt and retry, the row and
  the event in the order the code writes them, loop and lane bookkeeping, `skipRemaining`,
  the agent step's link, marker, send and watch (`Dispatches`, `Watch`), delivery.
- `Stop` is the cancel route (the live driver told, else the row settled, then all linked
  children swept); `Shutdown`/`Closed` a deploy; `DriverError` a store that throws, at any
  of the driver's reads and writes (`Throws`): the run fails, or stays as it is when the
  driver was interrupted or that write throws too; `Crash`, `Restart` and `Resume` the
  recovery sweeper; `RecoverDelivery` boot's recoverPending; `Deadline` the
  run's wall clock; `OtherRunWrites` another run of the workflow moving its state.
- `StepLedger` has only blank, open and ended cells: a step opens when no other leaf is
  open, ends once, or is skipped. `ImplementsLedger` maps a row's status to a cell and
  holds although rows are written without guards, because the lock and the replay rules
  keep drivers apart.

### WorkerFleet

- `row[w]` is the workers table (status, freshness of the heartbeat, reported hashes);
  `wk[w]` the process with its registration loop and its agents. Two fields are history:
  `old`, the agents of a life it was declared dead in, and `unaware`, that it had agents
  then and took itself for unregistered. `call` is the loop's HTTP call in flight, `late` a call
  its caller gave up on that the server may still handle.
- `Tick`, `TickSend`, `TickAnswered`, `FenceDone` are the loop (register, heartbeat,
  404 → onFenced → register); `DrainBegin`, `DrainStops`, `Deregister` the shutdown, whose
  draining heartbeat may be handled, late or lost.
- `Dispatch`, `ReqEnsure`, `ReqSend`, `ReqPersist` are a dispatch as placement sees it,
  with the scheduler's preference order and reservations (`pickWorker`, `resv`).
- `SweepMark` to `SweepEnds` are one pass: mark dead, scan, clear parked and eveless
  affinities, and per run detach, pick, ensure, re-point and tail again.

### OAuthGrant

- `grant` is the connection_oauth row, `conn` the connection, `flows` every flow ever
  armed, `minted` the tokens with their issuer and fate.
- `StartReads`/`Arm` are startOauth around discovery and registration; `CallbackFinds`,
  `CallbackClaims`, `CallbackExchanges`, `CallbackPromotes`, `CallbackFails` are
  handleCallback between its awaits; `Reader*` is getAccessToken with the row lock held
  across the refresh; `Edit*` are updateConnection and deleteConnection in their order
  of writes. Authorization servers rotate or keep a refresh token, refuse it, or answer
  into the void.
- updated_at serves only for comparison with a claim, so the row keeps whose claims left
  the stamp it has (`last`). With `SameTick` a write may fall into the millisecond of the
  one before and leave the stamp equal (`Stamps`); the suite and two theorems assume that
  it does not. Every row ever created, and every reset of one, is a generation of its own
  (`gens`), so that a row that was deleted and created anew is told from the old one.

### Triggers

- `trig` are the trigger rows (`next` is the cursor), `wf` the workflows, `runs` the
  pipeline runs, `pins` the reserved connections of each process's lock pool, `capLock`
  the workspace's advisory lock, `idem` and `seen` the bounded in-process memories.
- `adm[a]` is what an actor, a request or a process's ticker, is doing; every source goes
  through the same admission: reserve a connection, decide under the cap lock (cap,
  overlap), insert, launch, or refuse and give the connection back.
- The ticker scans, claims each window with the clock of its tick, loads the workflow and
  dispatches. A webhook looks its token up, checks its key, starts, and remembers. A
  Slack event is marked seen, acknowledged, and routed in the background; a mention
  comes as two events.
- Edits (switch, publish, mint a token, bind Slack) read, compute and write in the steps
  the handlers have: minting and binding update the type first, then the token or the
  binding. A cron expression is the set of instants it matches.

### ChatThread

- Server side: `status`, `log`, `body` are the rows; `due` are frames written and not yet
  published; `conn[r]` is the SSE response with its replay, buffer, dedup and status
  snapshot, one action per await.
- Tab side: `rows` is the cached session detail, `live`/`store`/`cursor` what the stream
  brought, `follow` the stream handles; `ViewStatus`, `SlotHeld` and `Queueing` are the
  derivations of run-view.ts and ThreadContainer.tsx; `queue`, `post`, `attempts`,
  `retry`, `box` are useMessageQueue and the composer. `fetch` is a refetch of the detail
  under way, `reopening` the runs whose stream is opened again once it is in (`Resumed`,
  after an answer or a context control). `silent` is history: events persisted and
  published to nobody.
- Faults: a dropped connection, a lost reply, a failed dispatch, a restart with boot
  reconciliation. Acts: Stop, answer, remove, context controls, another tab.
- `bound` is chosen once, initially, among the instances of `MCBounds`, so that one run
  explores several small instances instead of their product.

## 3. Runs

Times are of two workers on a laptop-class machine.

| Run | Checks | Instance | Shows |
|---|---|---|---|
| `agent_manager` | TypeOK, PortsConserved, AgentOwnsItsPort, CapRespected, StopAllCovers, DrainCompletes | 2 hashes for a cap of 1, 3 ports of which a foreign listener holds one, 2 processes of which one survives SIGKILL, 1 request (0.3 M states, 30 s) | with burned, released-while-alive and reused ports in one behaviour, no port leaks or is shared and no request is misrouted; the cap across awaits; drain ends |
| `dispatch_turns` | ResetStaysQuiet, OneEveSessionPerRow, OneLiveRun, StoppedTurnIsOwed, PersistLands, TailMeetsItsEnd | 1 session, 2 requests, 2 runs, every turn outcome, HITL, resets, 1 restart (2.1 M, 2 to 3 min) | the dispatch protocol across lost and late sends, Stops and a crash; nothing starts beneath a reset; stream hand-over between tails and observers loses no turn's end |
| `dispatch_threads` | EvictionSparesDispatch | 2 sessions, 2 requests (agent steps on one thread, resets with their replacement row), 1 restart; turns are accepted but none starts (`MaxLog` = 0), since only what was sent matters (0.6 M, 45 s) | a thread claim is taken over only from a session for which nothing was sent |
| `dispatch_liveness` | RunsSettle, ObligationsSettle | 1 session, 2 runs, 1 restart | runs and obligations settle |
| `dispatch_answer_during_drain` | RunsSettle (violated) | 1 run, HITL | finding 1 |
| `pipeline_ledger` | OneDriver, AtMostOnce, SameInput, TimelineComplete, StopReachesChildren, ImplementsLedger | 2 processes, 6 plans (agent, cursor, two loops, branch, a loop in a lane), 1 fault, 1 Stop, 1 state move, a deploy | replay after a crash anywhere, and the refinement of `StepLedger` |
| `pipeline_liveness` | RunFinishes, DeliverySettles | 2 processes, agent and loop plans, 1 fault | orphans are adopted, replies settled |
| `fleet` | FencedBeforeLive, NobodyForgotten, DrainSticks | 2 workers, 1 session, 2 faults (2 min) | fencing, drain and failover in every order of calls, late ones included |
| `oauth` | PairedEndpoints, NoResurrection, UsedOnce, GrantKept | 2 users, 2 urls, 2 callbacks, 2 readers, 2 flows, 3 tokens, 1 edit, 1 fault, no two writes in a millisecond (0.7 M, 30 s) | the broker's optimistic writes and the refresh lock |
| `triggers_ingress` | LimitsHold, LocksMatchRuns, RedeliveryStartsNothing | a webhook workflow that skips overlaps and a Slack workflow that does not, a cap of 2 for 3 runs, a pool of 3, 2 requests, 2 keys for a memory of 1, a mention's 2 event ids for a memory of 2, 1 crash, no edits (2 M, 1.5 min) | cap and overlap for racing dispatches, lock before claim, idempotency and Slack dedup while their memory lasts |
| `triggers_schedule` | CursorAhead, DueIsClaimed | 2 tickers, 3 windows, pools of 1, 1 edit of the schedule or of a webhook's workflow, 1 fault (3 min) | claims and cursor; no ticker gets stuck |
| `chat_thread` | TranscriptFaithful, NoMessageLost, SentInOrder, EndsAreShown, QueueDrains | five instances, up to 3 messages, 2 events, 1 fault or act (0.8 M, 2 to 3 min) | streams, view and queue against everything that changes a run |

Why the bounds suffice. Two hashes give a competitor for a slot and a port; with a cap of
one, a process that lingers and its successor. On a session two runs are predecessor and
successor, the most that admission lets overlap (a stopped run whose turn is still owed
and the next). One restart exercises every recovery path, since reconciliation starts from
rows only; in `dispatch_turns` and `dispatch_liveness` `MaxLog` leaves room for a start
and an end of every admitted turn. Two processes are what a lock keeps apart;
`MaxExecuted` = 2 makes the step budget bite in the loops and `MaxItems` = 2 the item cap.
Two faults in `fleet` allow a false suspicion together with a late call or a drain. Two
flows and three tokens give an old grant, its re-consent and a refresh; one edit comes
before, between or after. In `triggers_ingress` a third run meets a cap of two and a
second one of the first workflow its overlap rule, and two keys overflow an idempotency
memory of one entry. Slack's memory holds both event ids of the one message: a memory of one
would have forgotten the first id whenever the second comes, and two messages are too large
for the suite, so that its eviction is covered by the theorem ToldTwice alone. In `triggers_schedule` a dispatch finds the pool of one
exhausted while another run of its process is alive. Edits occur in the schedule's run only;
the theorems NoConnectionLeaks and ToldTwice cover them together with the ingress. In
`ChatThread` three messages let one be typed while another waits and a third is in flight;
two events let one be replayed and one be live. A queue that sends into a busy slot, because
a stopped predecessor's turn.cancelled was persisted under the new run, needs a Stop and
three messages together: that instance is too large for the suite and is checked by
`ChatThreadBusySlot.cfg` (section 4); the theorems cover it as any other.
What the passing runs exclude because of a disagreement below: no request during sweep 1
and no Stop overtaken by a tail (`EarlyTraffic`, `SlowStop`), no HITL answer in
`dispatch_liveness`; and the exceptions written into TailMeetsItsEnd (a restart),
FencedBeforeLive (`unaware`), NobodyForgotten (`dropped`), DrainSticks (a process that is
not registered), NoResurrection and GrantKept (`SameTick`), GrantKept (a start with a stale
row), CursorAhead (`hist.late`), SentInOrder (`bounced`), EndsAreShown and QueueDrains (`unheard`).
Deadlock is not checked: all these systems rest when no request comes, and the
counters that bound a behaviour stop it.

Fairness. `AgentManager.FairSpec`: a boot's steps are bounded by timeouts, signals
end a process that is not stuck, stopAgent's waits are timers, drain() is
straight-line code; nothing is assumed of clients, crashes or the idle reaper.
`SessionDispatch.FairSpec`: a request, a tail with something to read, a Stop's handler
and reconciliation run on; the wall-clock cap and the observation window elapse.
Strong fairness is only assumed of the sweeper's settlement, which is retried
periodically and finds the session's lock free again and again. Nothing is assumed of
eve: it may never start or end a turn.
`PipelineRunner.FairSpec`: a live process goes on with its driver, dispatches and
handlers (every call has a timeout), the recovery sweeper comes round, a dead process is
restarted, a child turn ends or parks.
`Triggers.FairSpec`: continuations, ticks and settlements happen; strong fairness for
`Decide`, because Postgres queues the waiters of an advisory lock.
`ChatThread.FairSpec`: one condition, weak fairness of "the system does something":
promises resolve, timers fire, a turn ends. Between two steps of the environment the
system can only take finitely many, so no finer condition is needed.

## 4. Where code and documents disagree

Finding 1 is a run of the suite (`dispatch_answer_during_drain`): *a HITL answer without a
reader*. RunTailerManager.start returns an existing handle even when it is closed and
draining (tailer.ts:2367), and the resumed run stays queued; tailer.ts:2242 says that "a
later `start()` for the same run never returns a dead handle".

The following are reproduced by configurations kept beside the suite
(`tlc -config X.cfg Module` ends with the named property violated):

| Configuration, module | Property | What happens |
|---|---|---|
| `AgentManagerDrainLeaves`, AgentManager | DrainLeavesNoAgent | The ensure handler checks isDraining() before `await request.json()` only (server.ts:238); a body that arrives after stopAll's snapshot boots an agent nobody stops. supervisor.ts:46: drain will "stop accepting ensures ..., stop all agents, deregister". |
| `SessionDispatchEarlyMessage`, SessionDispatch | OneEveSessionPerRow | Sweep 1 fails runs without the dispatch lock while requests are served (reconcile.ts:191); a message between its heal check and its busy check creates a second eve session on the row. routes.ts:698: "never a second turn on the old row". |
| `SessionDispatchSlowStop`, SessionDispatch | StoppedTurnIsOwed | A Stop that found no tail settles the row after the new tail adopted it; that tail's `supersedesAll` (tailer.ts:1336) then confirms the obligation of a newer stopped run. tailer.ts:1334: "every obligation predates a live run". |
| `PipelineRunnerDeploy`, MCPipelineRunner | DeployCancelsNothing | stopAll aborts the signal a Stop uses, so a deploy between the link of an agent step's child and its dispatch cancels the child (steps/agent.ts:790), and the next driver fails the run. runner.ts:767: "a deploy must not cancel user work". |
| `PipelineRunnerTwice`, MCPipelineRunner | NeverRunTwice | An at_most_once call that times out or meets a 5xx is retried by the same driver (runner.ts:2022). ToolStepForm.tsx:295 labels the switch "Never run twice". |
| `WorkerFleetTwoWriters`, MCWorkerFleet | OneWriterPerHash | Two cold dispatches of one hash within a heartbeat: the first one's reservation makes the picked worker look full to the second (scheduler.ts:235). docs/runtime-worker-contract.md:830: "at most one live agent process per version hash, fleet-wide". |
| `WorkerFleetUnfenced`, MCWorkerFleet | FencedWithoutException | A register is handled and its answer lost: agents are placed on the worker, which takes itself for unregistered; it is declared dead, and its next call is again a register, which sets the row live and stops nothing (registration.ts:169, workers.ts:240). docs/runtime-worker-contract.md:846: "a false-dead worker can therefore never keep executing a hash the sweeper already resumed elsewhere". |
| `OAuthGrantSameTick`, MCOAuthGrant | NoResurrection | updated_at is a Date in milliseconds: a reset in the millisecond of a callback's claim leaves the stamp equal, and the promotion writes the old flow's tokens onto the reset row (broker.ts:676). broker.ts:545: "any intervening mutation makes this stale and the promotion match zero rows". |
| `OAuthGrantMoved`, MCOAuthGrant | TokensMatchUrl | armConsentFlow's write keys on the row id alone (broker.ts:388): a start still in discovery when a PATCH of the url blanked the row arms the old server's flow on it. broker.ts:683: "never persist a credential against a row whose url or auth mode has moved". |
| `TriggersSwitch`, MCTriggers | SwitchMirrored | Of two overlapping PATCHes of the switch the second compares with the value it loaded before the first wrote (workflows.ts:299) and leaves an enabled workflow with a disabled trigger. workflows.ts:297: "mirror it onto the trigger row". |
| `ChatThreadSilent`, MCChatThread | EveryEndIsShown | A run settled by boot reconciliation (reconcile.ts:224), the dead-worker sweep (worker-sweeper.ts:206) or failDispatch (routes.ts:623) publishes no frame; a tab that reconnected before follows it for ever. sse.ts:11: "The stream closes after a stream-terminal status". |

One more configuration beside the suite passes: `ChatThreadBusySlot` (MCChatThread)
checks TranscriptFaithful, NoMessageLost and SentInOrder in the instance where the queue
sends into a busy slot (section 3; 22 M states, 14 min with four workers).

Smaller ones, visible in the models as the exceptions named above or as reachable states:

- *Agent manager*: an ensure during a stop starts a second process of the hash; finish()
  of a request opened on a crashed process decrements its successor's count.
- *Dispatch and tails*: the boundary event is persisted before the run row is finished
  (tailer.ts:1954), so after a crash in between a restarted tail is behind its boundary
  and the run ends by its cap; sweep 1 can fail a run a live request is dispatching; after
  a crash between a HITL answer's flip and its re-arm sweep 1 tails a run whose answer was
  never sent; finishRun's session write is unconditional (tailer.ts:955) and may reopen a
  session a dispatch closed on eve's 409.
- *Fleet*: the tail's five reconnects last 15.5 s (tailer.ts:798), less than heartbeat TTL
  plus sweep interval, so a killed worker's run is failed before failover finds it
  (site docs, durability.mdx:9: "kill a worker mid-run, and the run survives"); failover
  detaches the tail before its ensure (worker-sweeper.ts:305), and if the ensure fails
  and the dead worker comes back nobody finds the run (`dropped`; :122 calls it
  self-healing); a heartbeat's 401 re-registers without stopping agents; clearAffinity and
  the re-pointing are unconditional; register ignores the draining flag of its caller.
- *Pipeline*: an interrupted at_most_once row is not charged to the step budget, so a
  crash loop does re-grant it; a Stop on another replica settles the row while the live
  driver goes on to its next check (runner.ts:748); a leaf failure is announced before it
  is recorded, so a crash in between announces it twice (runner.ts:1838); recovery never
  lists canceled runs, although cancelPipelineRun's comment leaves it the ledger; the
  driver is never told that the connection holding its lock is gone.
- *OAuth*: a start that read the row before it was connected downgrades a grant that
  connected meanwhile (broker.ts:363); a benign refresh bumps updated_at, so a successful
  re-consent may be discarded as superseded (broker.ts:681); a lost refresh answer may
  have spent a rotating token (tokens.ts:202 says it has not).
- *Triggers*: an edit that computed its cursor before a window passed re-arms it after the
  claim; two deliveries of one key in flight together start two runs (routes.ts:362, whose
  comment at :223 promises the same run); minting a token on a published schedule writes
  the draft's type and stops the schedule; minting and binding enable the trigger whatever
  the switch says; a crash between a PATCH's two writes leaves the rows apart.
- *Chat*: a direct send refused as busy joins the queue behind what was typed meanwhile
  (ThreadContainer.tsx:374; its comment at :397 forbids overtaking); a fresh tail persists a
  stopped predecessor's turn.cancelled under its own run, which the view then shows as
  stopped (run-view.ts:885); a refetch read before a message was accepted drops its run
  from the thread when it arrives after it; a tab whose stream ended at `waiting` does not
  hear that another tab answered or stopped the run, since run_status invalidates the
  lists and not the session's detail; messages queued behind a retired session stay queued.

## 5. Proofs

Eight modules prove theorems of `Spec` of the module they extend, for every value of the
constants that satisfies its named assumption: bounds are natural numbers, "none" names
no actor, sets that are counted are finite. No assumption restricts the environment
except where stated (`SessionDispatch`, `OAuthGrant`).

| Module | Theorem | States |
|---|---|---|
| `AgentManagerProofs` | PoolConserved, RoutingSound, CapHolds, StopAllSound | PortsConserved, AgentOwnsItsPort, CapRespected, StopAllCovers |
| `OAuthGrantProofs` | EndpointsPaired, NeverResurrected, CodesAndTokensUsedOnce, WorkingGrantKept | PairedEndpoints, NoResurrection, UsedOnce, GrantKept |
| `WorkerFleetProofs` | FencingHolds, FailoverForgetsNobody, DrainIsForGood | FencedBeforeLive, NobodyForgotten, DrainSticks |
| `PipelineRunnerProofs` | OneDriverHolds, CalledOnce, InputPersists, StopReachesAll, ReplayHolds, Refines, TimelineHolds | OneDriver, AtMostOnce, SameInput, StopReachesChildren, the replay invariant, ImplementsLedger, TimelineComplete |
| `TriggersProofs` | CapHolds, NoConnectionLeaks, NoWindowTwice, ToldTwice | LimitsHold, LocksMatchRuns, CursorAhead, RedeliveryStartsNothing |
| `SessionDispatchProofs` | OneRunPerSession, CreatedOnce, IdLands, ResetAlone, EvictionSpares | OneLiveRun, OneEveSessionPerRow, PersistLands, ResetStaysQuiet, EvictionSparesDispatch |
| `SessionTurnProofs` | StoppedIsOwed, EndIsMet | StoppedTurnIsOwed, TailMeetsItsEnd |
| `ChatThreadProofs` | Faithful, Lossless, InOrder | TranscriptFaithful, NoMessageLost, SentInOrder |

Each module also has `TypeCorrect` (`SessionTurnProofs` extends `SessionDispatchProofs`),
and each rests on an inductive invariant (`IInv`; `Inv` in `SessionDispatchProofs`), whose
parts are defined and explained where its proof begins.
None of the properties is inductive as it stands. The theorem of the invariant is named
`Inductive` or `InvariantHolds`; the lemma that a step preserves it has one step per
action, or cites one lemma per action or kind of step.

### AgentManager

Assumes `ManagerAssumption` (natural bounds, `Stuck` and `ForeignPorts` within their
ranges, finitely many hashes). A step that releases a port says nothing of who else owned
it unless the boots and handles are known to be well formed. `IInv` adds to
`PortsConserved` `BootShape` (a boot owns a port from its allocation on, and a child of its
own hash, on that port, once spawned), `HandleShape` (a ready handle's child is of its
hash and not being stopped, and the hash is not booting) and `PoolShape` (owners hold
allocated ports, no two the same, every allocated port has an owner). The steps that
matter: `LowestFreeFree`, the pool answers a free port while there is one (by
well-foundedness of `<`); `BeginStopIInv`, the head of stopAgent moves a process from
`running` to `stopping` and leaves the set of owners alone; `ReleasePool`, an exit or the
end of a stop removes one owner and its port, which no other owner has; `BootReadyIInv`,
the handle takes over from the boot. `RoutingSound` needs one more invariant,
`PortExclusive`: it extends exclusivity to stopping processes and spawned boots, so that a
spawn on a freshly probed port cannot meet a survivor. `CapHolds` rests on `ActiveStep`:
only an ensure that passed the cap check makes a hash active. `StopAllSound` adds
`CoverShape`: what a stopAll answers for has been spawned, is in no pending boot any more,
and is out of service once its stops have begun.

### OAuthGrant

Assumes `OAuthAssumption`. `IInv` says who may hold what.

- `RowShape`, `TokensOfRow`: both tokens of the row were issued by the row's endpoints, to
  a flow claimed since the last reset. This is what the edits and the callbacks race for.
- `ReaderHolds`: the row lock held across the refresh gives the refresh token to one
  reader, and the row it writes is the row it read.
- `CallbackHolds`: a callback that promotes compares the row with its claim; the stamp
  `last` ties what it holds to a generation of the row, as long as no two writes share it.
- `FlowOnce`, `SpentUnheld`, `TokenOwned`: compare-and-clear gives a flow to one callback,
  a rotated token is nobody's, and a token is either the row's or one caller's.
- `NothingToLose`: a callback that saw no working grant cannot end one that came since.

GrantKept is an action property; `KeptStep` shows it of each step from `IInv`.
NeverResurrected and WorkingGrantKept assume `~SameTick`, in their statements;
EndpointsPaired and CodesAndTokensUsedOnce hold whatever the stamps are.

### WorkerFleet

Assumes `FleetAssumption` (bounds, and "none" is no worker and no session). `Loop` says
which of a worker's calls, a call it gave up on included, can still reach the server:
a late register can only arrive while the process does not know that it is registered.
`Fenced` says where the agents of a former life are: on a process that has yet to hear
that it is dead (its row is dead), or that is stopping all of them, or that was `unaware`.
FencingHolds states this exception as FencedBeforeLive does: what a process does that had
agents and took itself for unregistered when its row died is `WorkerFleetUnfenced` in
section 4. `Passing` and `Handed`
say that the sweeper's pass and the dispatches hand a session's run to each other: a run
without tail or request is the pass's, or was dropped by a failover whose ensure failed.

`DrainSticks` excludes a process that is not registered. Proving it without that
exclusion failed on a step TLC could then reproduce with three faults: a worker drains and
crashes, its successor is told to drain before it has registered, and its register puts the
former process's draining row back to live until its first heartbeat. `register` ignores
the draining flag of its caller (section 4), so this is what the code does.

### PipelineRunner

Assumes `RunAssumption` (natural bounds, at least the values 0 and 1) and `PlanAssumption`:
every published plan is a finite sequence of step instances whose loops and lanes nest
(`WellNested`), as a config that passed the workflow validator flattens to. `IInv`:

- `Owner`: the driver that may write holds the run's advisory lock.
- `Ledgered(i)`: the calls of a step were made with the input of its row; a call or a child
  has a row behind it; a message that left has its marker and left once; one driver calls
  an at-most-once step.
- `DriverOK`, `JobsOK`: what a driver or a dispatch, at its program counter, has established
  about its step. They make `Ledgered` inductive across crashes: the next driver starts
  from rows that were written before the effect they stand for.
- `Unfaulty`, without faults: `Caught`, once the Stop's own sweep is over a child still
  active has a dispatch that will meet a fence; `Undisturbed` and `CancelKnown`, a driver
  that ends as canceled was told to.

The refinement also needs what a new driver's replay of its predecessor's rows relies on.
Nothing in the code guards a row's write by the row's status, so that the refinement holds
only because of where drivers are. `LInv` says so in two parts, neither of which mentions
the driver that wrote the rows:

- `RowsOK`, of the rows alone: a claimed step applies, in a loop that was entered
  (`Placed`); before a row there are rows, and steps a replay passes over (`Gapless`);
  nothing but the body of an open loop lies behind an open row (`Frontier`); a row that
  ended the run, a loop or an item has nothing of it behind it.
- `PathOK`, of a driver: behind its position nothing is open but its loop, and what was not
  claimed is passed over for good. A walk to the next position keeps this, by the shape of
  a published plan (`WellNested`), and a claim of the step arrived at keeps `RowsOK`.

`Refines` maps Init to an empty ledger and each kind of step to an opening, an end, a skip
or a stutter; the one obligation is that a step opens while no other leaf is open, which is
`Frontier` and `PathOK`. The timeline is a second table, written after the row: `TInv` says
which rows have told their end by the time a driver is where it is (`ToldTo`), what it
found shown when it began (`Aware`), and that a loop which succeeded in time has told its
body (`Tells`). A driver that dies between row and event is made up for by the next one's
backfill, and no success is written before the replay has been through every row.

### Triggers

Assumes `TriggersAssumption` (start types, finitely many processes and requests, with
different names). The layers of `IInv` are proved one on the other: shapes; `CapInv`, the
holder of the workspace's lock and what it has counted, so that the counts read before an
insert still hold at the insert; `LockInv`, the reserved connections of a process are
exactly its admissions and its drivers (a cardinality argument); the cursors; `HookInv` and
`SlackInv`, what a delivery or a message in flight has found in the bounded memories or
left there, given that the memories evict the oldest entry.

### SessionDispatch

Assumes `DispatchAssumption`. `TypeCorrect` and `OneRunPerSession` hold without further
hypothesis. The other theorems say `ASSUME ~EarlyTraffic`: no request arrives while the
first reconciliation sweep is at work. With such traffic they are false of the code:
`SessionDispatchEarlyMessage.cfg` shows the counterexample (section 4), and the runs of the
suite set the constant alike. StoppedIsOwed and EndIsMet also assume `~SlowStop`, for
which `SessionDispatchSlowStop.cfg` shows the same.

The branches of `Next` against a dozen layers would be many hundred cases, so the
actions are first sorted into some twenty *kinds of steps*, each stated by what it does to
one row of each table: a request that quits, passes on, takes the session's lock, admits a
run, flips an answered run, arms the marker, is accepted by eve, persists the eve id,
abandons or retires; a tail that moves; a sweep, a settlement, a restart. `ShapeStep`
proves that every step is one of them and that shapes persist. The layers of `Inv`:

- `Shape`: types, and what a request knows of its session and run at each program counter.
- `SoleLive`: one live run per session, and none beside the run of the lock's holder.
- `BootQuiet`, `ResetHeld`: who can be at work during the first sweep, and beneath a reset.
- `Known`: who may rely on the session's eve id being on the row.
- `TailMode`, `Deaths`: which tails a run may have, and that whoever closes a session on
  eve's word has eve's word.
- `Landing`: until eve answers only its own word can have closed the session, and after it
  has accepted a turn nothing closes it before the id is written.
- `Eveless` and `Creates`: of a session without an eve id, at most the newest run is armed,
  and eve has created at most one session, for an armed run. The dispatch-attempt marker is
  written before the send, so a send that may have happened is always visible in the rows.

`Inv` does not say whose turn comes when, on which the evidence of a confirmation rests:
a reader who sees a turn start takes every older obligation for settled. `SessionTurnProofs`
adds this as `Order`.

- `Traced`, `Ordered`: what eve has queued, opened or logged was sent for an armed run of
  that session, and what is unread, open, queued or late comes in the order of the runs.
- `LiveNewest`, `OwnNewest`: a live run, and the run of a request, is its session's newest.
- `TurnKnown`, `SendClear`, `Parked`: a run known to have begun has no second turn on its
  way and nothing older is outstanding; a run about to be sent has nothing at eve; a run
  that waits knows a turn that is over.

StoppedIsOwed rests on `Stops`: `StoppedOwes` extends the property to turns that are being
sent and to sessions without an id, where a dead session is the excuse (`Excused`);
`Gone`, an excuse given by eve's word is not taken back; `FollowLive`, a Stop without a
tail is not overtaken. EndIsMet rests on `Turns`: in the log each start is followed by its
end (`Paired`), before a crash nothing is reconciled (`FirstBoot`), once the turn of a live
run is known its session owes nothing (`LiveUnowed`), so that no observer or chained tail
reads in its place, and `Ends` extends the property to the request and the tail that are
about to follow. The attempt corrected the model and the property: an observer of a session
that owes nothing used to read on, where the code's has been told to close; and
StoppedTurnIsOwed accepted a confirmation still to come in place of the obligation, which it
need not, since the sweeper and the tail clear only what eve has confirmed.

### ChatThread

Assumes `ChatThreadAssumption` (natural bounds, room for as many runs as an instance can
create) and `NoneAssumption` ("no post" is no post). `IInv` has two halves that share the
run numbers only.

- Messages, `SInv`. `Numbered`: runs are numbered in the order they were created, one for
  each send that reached the server, with messages no other send carried. `PostOK`: what a
  request carries at each stage of its way is neither in the box nor, sent directly, in the
  queue; a flush carries the head of the queue, but for what was removed meanwhile.
  `Waiting`: a message that waits has nothing sent ahead of it that was typed later.
- Streams, `RInv`. `Carries` and `EndsLate` say of a sequence of frames that it continues a
  cursor without gap or repetition, and that none says "settled" ahead of an event
  persisted before the end. `Response` says it of a response at each of its awaits: one
  that replays has buffered all that was published since it subscribed, one that follows
  has sent all that is published. `Published` is the log without a frame that is
  written and not yet on the bus, and without those persisted for nobody (`silent`), which
  only a run that is over gets (`Quiet`). `TabOK` is the tab's side: it holds what its cursor says.

Flushing a buffer (`EmitAll`) and removing messages from the queue (`Without`) are
recursive functions; `EmitAllUnfolds` and its like prove what they compute by the least
element at which it would fail. The proof found one flaw of the model: `Emit` was a CASE
with overlapping guards, of which TLC takes the first and the logic any. It is an
IF now, in the order of the code's early returns. The attempt also showed that an
absent post had to be assumed different from all posts.

### What stays with TLC, and why

- *Liveness and fairness* are out of the prover's reach: DrainCompletes, RunsSettle,
  ObligationsSettle, RunFinishes, DeliverySettles, DueIsClaimed, EndsAreShown, QueueDrains.
- *Induction over data*: the sum of in-flight counts of `AgentManager` (`InflightOf`, a
  recursive function) has no conjunct in `TypeOK`.

Every invariant and every action property that a run checks is stated by a theorem.

## 6. Not modelled, and what could come next

Not modelled yet: the artifact cache (stage-then-rename extraction, LRU eviction beside
boots; `AgentManager` sees it as ArtifactReady and ArtifactFails), the build service
(coalescing per hash across a crash), the copilot's one-turn-per-socket latch, the tail's
cursor arithmetic and mid-turn latches, republishing a workflow under a live pipeline run,
lost lock connections, the connection that an abandoned waiter of the lock pool is granted
late (session-lock.ts:176 hands it back), the refetch of the session lists that a reply
awaits before a sent message leaves the queue, rate limits and signatures of the ingress,
session-token rotation of workers, several control planes in `SessionDispatch` and `WorkerFleet`.

Left out for good: the compiler (a text generator with golden tests), resource CRUD,
search and session titles, cron's grammar and calendar, templates, cryptography,
authentication, configuration, database schema and migrations, and the user interface
beyond the thread's streams and queue. These make up most of the repository's lines
(components, schemas, API types, documentation site): they render, validate and
transport data and hold no protocol state, so the share of all lines that the map covers
stays small by nature, while the files that hold the protocols are largely covered.
