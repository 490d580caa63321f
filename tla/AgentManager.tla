---------------------------- MODULE AgentManager ----------------------------
(***************************************************************************)
(* The agent process manager of one worker (apps/worker/src/agents.ts),    *)
(* its port pool (ports.ts), the ensure and proxy handlers that drive it   *)
(* (server.ts) and the supervisor's drain and fencing hook (supervisor.ts).*)
(*                                                                         *)
(* The supervisor is one JavaScript thread: every action below is the code *)
(* between two awaits.  An agent is an operating-system process; its       *)
(* handle leaves `running' when a stop BEGINS, its process dies later.     *)
(***************************************************************************)
EXTENDS Integers, FiniteSets

CONSTANTS
    Hash,        \* version hashes the control plane may ensure here
    MaxPort,     \* the pool is 1..MaxPort (agentPortMin..agentPortMax)
    Req,         \* identities of proxied requests
    MaxAgents,   \* config.maxAgents
    MaxProcs,    \* bound: processes spawned in one behaviour
    Stuck,       \* processes that outlive SIGKILL's 5 s wait
    ForeignPorts \* ports held by a listener of an earlier supervisor

Port   == 1 .. MaxPort
Proc   == 1 .. MaxProcs
None   == 0
Caller == {"fence", "drain"}   \* the two callers of stopAll

ASSUME ManagerAssumption ==
    /\ MaxPort \in Nat /\ MaxProcs \in Nat /\ MaxAgents \in Nat
    /\ Stuck \subseteq Proc /\ ForeignPorts \subseteq Port
    /\ IsFiniteSet(Hash)

VARIABLES
    running,    \* [Hash -> Proc \cup {None}]: the ready handle's child
    boot,       \* [Hash -> phase]: the pending boot promise of a hash
    bootPort,   \* [Hash -> Port \cup {None}]: the port that boot allocated
    bootProc,   \* [Hash -> Proc \cup {None}]: the child that boot spawned
    procHash,   \* [Proc -> Hash]: what a spawned process runs
    procPort,   \* [Proc -> Port]: the port it was given
    up,         \* SUBSET Proc: the operating system's view
    nproc,      \* processes spawned so far
    stopping,   \* SUBSET Proc: stopAgent awaits their exit
    allocated,  \* SUBSET Port: the pool's own set
    burned,     \* SUBSET Port: allocated and found busy by the bind probe
    inflight,   \* [Proc -> Nat]: handle.inflight
    total,      \* inflightTotal, an integer
    req,        \* [Req -> Proc \cup {None}]: the process an open request uses
    ensuring,   \* SUBSET Hash: ensure handlers past the draining check,
                \* awaiting their request body
    drainPc,    \* the supervisor's drain()
    stopAll     \* [Caller -> record]: the stopAll() calls in progress

portVars == <<allocated, burned>>
procVars == <<procHash, procPort, up, nproc>>
bootVars == <<boot, bootPort, bootProc>>
reqVars  == <<inflight, total, req>>
vars == <<running, bootVars, procVars, stopping, portVars, reqVars,
          ensuring, drainPc, stopAll>>

BootPhase == {"none", "fetch", "probe", "spawned"}
DrainPhase == {"off", "notify", "waiting", "stopping", "done"}
StopAllCall == [pc : {"idle", "boots", "stops", "done"},
                boots : SUBSET Hash, stops : SUBSET Proc,
                covered : SUBSET Proc]
IdleStopAll == [pc |-> "idle", boots |-> {}, stops |-> {}, covered |-> {}]

TypeOK ==
    /\ running \in [Hash -> Proc \cup {None}]
    /\ boot \in [Hash -> BootPhase]
    /\ bootPort \in [Hash -> Port \cup {None}]
    /\ bootProc \in [Hash -> Proc \cup {None}]
    /\ nproc \in 0 .. MaxProcs
    /\ procHash \in [1 .. nproc -> Hash]
    /\ procPort \in [1 .. nproc -> Port]
    /\ up \subseteq 1 .. nproc
    /\ stopping \subseteq 1 .. nproc
    /\ allocated \subseteq Port /\ burned \subseteq Port
    /\ inflight \in [1 .. nproc -> Nat]
    /\ req \in [Req -> Proc \cup {None}]
    /\ ensuring \subseteq Hash
    /\ drainPc \in DrainPhase
    /\ stopAll \in [Caller -> StopAllCall]

Init ==
    /\ running = [h \in Hash |-> None]
    /\ boot = [h \in Hash |-> "none"]
    /\ bootPort = [h \in Hash |-> None]
    /\ bootProc = [h \in Hash |-> None]
    /\ procHash = <<>> /\ procPort = <<>>
    /\ up = {} /\ nproc = 0 /\ stopping = {}
    /\ allocated = {} /\ burned = {}
    /\ inflight = <<>> /\ total = 0
    /\ req = [r \in Req |-> None]
    /\ ensuring = {}
    /\ drainPc = "off"
    /\ stopAll = [c \in Caller |-> IdleStopAll]

-----------------------------------------------------------------------------
(* Helpers the handlers share. *)

draining == drainPc # "off"

\* agents.isActive: running OR currently booting.
isActive(h) == running[h] # None \/ boot[h] # "none"

\* Mutant: boots in flight do not count against the cap.
activeCountReadyOnly == Cardinality({h \in Hash : running[h] # None})

\* agents.activeCount.
activeCount == Cardinality({h \in Hash : isActive(h)})

\* Bound: every boot that starts can still spawn its process.
SpawnBudget == nproc + Cardinality({h \in Hash : boot[h] # "none"}) < MaxProcs

\* Someone already listens on the port, so portIsFree answers false.
PortBusy(port) ==
    port \in ForeignPorts \/ \E p \in up : procPort[p] = port

\* ports.allocate: the lowest port the pool does not hold allocated.
LowestFree(held) ==
    CHOOSE port \in Port \ held : \A q \in Port \ held : port <= q

\* The boot promise of h settles: every stopAll that awaits it moves on, and
\* a stopAll that awaited it now knows the process it produced.
SettleBoot(h, produced) ==
    stopAll' = [c \in Caller |->
        IF h \in stopAll[c].boots
        THEN [stopAll[c] EXCEPT !.boots = @ \ {h}, !.covered = @ \cup produced]
        ELSE stopAll[c]]

\* Boot h is over without an agent; its port goes back to the pool.
AbandonBoot(h, held) ==
    /\ boot' = [boot EXCEPT ![h] = "none"]
    /\ bootPort' = [bootPort EXCEPT ![h] = None]
    /\ bootProc' = [bootProc EXCEPT ![h] = None]
    /\ allocated' = held
    /\ SettleBoot(h, {})

\* allocatePort: take the next port and probe it, or give the boot up when
\* the pool is exhausted (PortPoolExhaustedError).
AllocateAndProbe(h, held) ==
    IF Port \ held = {}
    THEN AbandonBoot(h, held)
    ELSE LET port == LowestFree(held) IN
         /\ boot' = [boot EXCEPT ![h] = "probe"]
         /\ bootPort' = [bootPort EXCEPT ![h] = port]
         /\ allocated' = held \cup {port}
         /\ UNCHANGED <<bootProc, stopAll>>

\* The synchronous head of stopAgent for the processes P: the handles leave
\* `running' and their requests leave the total; SIGTERM is sent.
InflightOf(P) ==
    LET f[n \in 0 .. nproc] ==
            IF n = 0 THEN 0 ELSE f[n - 1] + (IF n \in P THEN inflight[n] ELSE 0)
    IN f[nproc]

BeginStop(P) ==
    /\ running' = [h \in Hash |-> IF running[h] \in P THEN None ELSE running[h]]
    /\ total' = total - InflightOf(P)
    /\ stopping' = stopping \cup P

RunningProcs == {running[h] : h \in Hash} \ {None}

-----------------------------------------------------------------------------
(* POST /internal/agents/ensure. *)

\* The handler checks isDraining() and then awaits the request body.
EnsureAccepted(h) ==
    /\ ~draining
    /\ h \notin ensuring
    /\ ensuring' = ensuring \cup {h}
    /\ UNCHANGED <<running, bootVars, procVars, stopping, portVars, reqVars,
                   drainPc, stopAll>>

\* With the body in hand the handler runs to the next await: it refuses a new
\* hash at the cap, reuses a ready agent, joins a pending boot, or starts one.
EnsureAgent(h) ==
    /\ h \in ensuring
    /\ ensuring' = ensuring \ {h}
    /\ \/ /\ isActive(h) \/ activeCount >= MaxAgents
          /\ UNCHANGED boot
       \/ /\ ~isActive(h)
          /\ activeCount < MaxAgents
          /\ SpawnBudget
          /\ boot' = [boot EXCEPT ![h] = "fetch"]
    /\ UNCHANGED <<running, bootPort, bootProc, procVars, stopping, portVars,
                   reqVars, drainPc, stopAll>>

-----------------------------------------------------------------------------
(* bootAgent. *)

\* cache.ensure answers the extracted directory; a port is allocated.
ArtifactReady(h) ==
    /\ boot[h] = "fetch"
    /\ AllocateAndProbe(h, allocated)
    /\ UNCHANGED <<running, procVars, stopping, burned, reqVars, ensuring,
                   drainPc>>

\* cache.ensure throws an ArtifactError.
ArtifactFails(h) ==
    /\ boot[h] = "fetch"
    /\ AbandonBoot(h, allocated)
    /\ UNCHANGED <<running, procVars, stopping, burned, reqVars, ensuring,
                   drainPc>>

\* The bind probe finds a stale listener: the port stays allocated for this
\* supervisor's lifetime and the next one is tried.
ProbeBurns(h) ==
    /\ boot[h] = "probe"
    /\ PortBusy(bootPort[h])
    /\ burned' = burned \cup {bootPort[h]}
    /\ AllocateAndProbe(h, allocated)
    /\ UNCHANGED <<running, procVars, stopping, reqVars, ensuring, drainPc>>

\* Mutant: the bind probe's answer is ignored.
SpawnUnprobed(h) ==
    /\ boot[h] = "probe" /\ nproc < MaxProcs
    /\ LET p == nproc + 1 IN
       /\ nproc' = p
       /\ procHash' = [q \in 1 .. p |-> IF q = p THEN h ELSE procHash[q]]
       /\ procPort' = [q \in 1 .. p |-> IF q = p THEN bootPort[h] ELSE procPort[q]]
       /\ inflight' = [q \in 1 .. p |-> IF q = p THEN 0 ELSE inflight[q]]
       /\ up' = up \cup {p}
       /\ boot' = [boot EXCEPT ![h] = "spawned"]
       /\ bootProc' = [bootProc EXCEPT ![h] = p]
    /\ UNCHANGED <<running, bootPort, stopping, portVars, total, req,
                   ensuring, drainPc, stopAll>>

\* The probe succeeds and the agent is spawned on the port.
Spawn(h) ==
    /\ boot[h] = "probe" /\ nproc < MaxProcs
    /\ ~PortBusy(bootPort[h])
    /\ LET p == nproc + 1 IN
       /\ nproc' = p
       /\ procHash' = [q \in 1 .. p |-> IF q = p THEN h ELSE procHash[q]]
       /\ procPort' = [q \in 1 .. p |-> IF q = p THEN bootPort[h] ELSE procPort[q]]
       /\ inflight' = [q \in 1 .. p |-> IF q = p THEN 0 ELSE inflight[q]]
       /\ up' = up \cup {p}
       /\ boot' = [boot EXCEPT ![h] = "spawned"]
       /\ bootProc' = [bootProc EXCEPT ![h] = p]
    /\ UNCHANGED <<running, bootPort, stopping, portVars, total, req,
                   ensuring, drainPc, stopAll>>

\* /eve/v1/health answers: the handle enters `running'.
BootReady(h) ==
    /\ boot[h] = "spawned"
    /\ bootProc[h] \in up
    /\ running' = [running EXCEPT ![h] = bootProc[h]]
    /\ boot' = [boot EXCEPT ![h] = "none"]
    /\ bootPort' = [bootPort EXCEPT ![h] = None]
    /\ bootProc' = [bootProc EXCEPT ![h] = None]
    /\ SettleBoot(h, {bootProc[h]})
    /\ UNCHANGED <<procVars, stopping, portVars, reqVars, ensuring, drainPc>>

\* The process exits early, or the ready timeout passes: SIGKILL, a bounded
\* wait, and the port is released although a stuck process may still hold it.
BootFails(h) ==
    /\ boot[h] = "spawned"
    /\ up' = up \ ({bootProc[h]} \ Stuck)
    /\ AbandonBoot(h, allocated \ {bootPort[h]})
    /\ UNCHANGED <<running, procHash, procPort, nproc, stopping, burned,
                   reqVars, ensuring, drainPc>>

-----------------------------------------------------------------------------
(* Process exit, stopAgent, the idle reaper. *)

\* Mutant: the exit handler frees the port of whatever the process was.
ProcessExitsUnguarded(p) ==
    /\ p \in up
    /\ up' = up \ {p}
    /\ running' = [running EXCEPT ![procHash[p]] = IF @ = p THEN None ELSE @]
    /\ allocated' = allocated \ {procPort[p]}
    /\ total' = total - (IF running[procHash[p]] = p THEN inflight[p] ELSE 0)
    /\ UNCHANGED <<bootVars, procHash, procPort, nproc, stopping, burned,
                   inflight, req, ensuring, drainPc, stopAll>>

\* A process exits: on its own, or of the signals stopAgent sent.  The exit
\* handler cleans up only while the handle still is the running one.
ProcessExits(p) ==
    /\ p \in up
    /\ up' = up \ {p}
    /\ IF running[procHash[p]] = p
       THEN /\ running' = [running EXCEPT ![procHash[p]] = None]
            /\ allocated' = allocated \ {procPort[p]}
            /\ total' = total - inflight[p]
       ELSE UNCHANGED <<running, allocated, total>>
    /\ UNCHANGED <<bootVars, procHash, procPort, nproc, stopping, burned,
                   inflight, req, ensuring, drainPc, stopAll>>

\* Mutant: stopAgent waits for the exit without a bound.
StopReturnsOnExit(p) ==
    /\ p \in stopping \ up
    /\ stopping' = stopping \ {p}
    /\ allocated' = allocated \ {procPort[p]}
    /\ stopAll' = [c \in Caller |-> [stopAll[c] EXCEPT !.stops = @ \ {p}]]
    /\ UNCHANGED <<running, bootVars, procVars, burned, reqVars, ensuring,
                   drainPc>>

\* stopAgent's wait ends, the process gone or (stuck) past SIGKILL's wait;
\* the port is released in the finally.
StopReturns(p) ==
    /\ p \in stopping
    /\ p \in up => p \in Stuck
    /\ stopping' = stopping \ {p}
    /\ allocated' = allocated \ {procPort[p]}
    /\ stopAll' = [c \in Caller |-> [stopAll[c] EXCEPT !.stops = @ \ {p}]]
    /\ UNCHANGED <<running, bootVars, procVars, burned, reqVars, ensuring,
                   drainPc>>

\* One handle's turn of sweepIdle: it stops a ready agent with no request in
\* flight whose idle window has passed; drain() stops the reaper once
\* beginDrain() has returned.
IdleSweep(h) ==
    /\ drainPc \in {"off", "notify"}
    /\ running[h] # None
    /\ inflight[running[h]] = 0
    /\ BeginStop({running[h]})
    /\ UNCHANGED <<bootVars, procVars, portVars, inflight, req, ensuring,
                   drainPc, stopAll>>

-----------------------------------------------------------------------------
(* The reverse proxy's bookkeeping. *)

\* proxy: refused while draining or when no agent runs the hash, otherwise
\* beginRequest counts it on the handle and in the total.
BeginRequest(r, h) ==
    /\ ~draining
    /\ req[r] = None
    /\ running[h] # None
    /\ req' = [req EXCEPT ![r] = running[h]]
    /\ inflight' = [inflight EXCEPT ![running[h]] = @ + 1]
    /\ total' = total + 1
    /\ UNCHANGED <<running, bootVars, procVars, stopping, portVars, ensuring,
                   drainPc, stopAll>>

\* Mutant: Math.max(0, .) is missing.
Unfloored(n) == n

\* Math.max(0, n).
Floor0(n) == IF n < 0 THEN 0 ELSE n

\* finish(): the response body ended, failed or was cancelled.  endRequest
\* looks the handle up BY HASH, so it reaches whichever process runs it now.
EndRequest(r) ==
    /\ req[r] # None
    /\ req' = [req EXCEPT ![r] = None]
    /\ LET q == running[procHash[req[r]]] IN
       IF q # None
       THEN /\ inflight' = [inflight EXCEPT ![q] = Floor0(@ - 1)]
            /\ total' = Floor0(total - 1)
       ELSE UNCHANGED <<inflight, total>>
    /\ UNCHANGED <<running, bootVars, procVars, stopping, portVars, ensuring,
                   drainPc, stopAll>>

-----------------------------------------------------------------------------
(* stopAll, called by the fencing hook and by drain(). *)

StopAllStarts(c) ==
    stopAll' = [stopAll EXCEPT ![c] =
        [pc |-> "boots", boots |-> {h \in Hash : boot[h] # "none"},
         stops |-> {}, covered |-> RunningProcs]]

\* The heartbeat was answered 404: onFenced stops every local agent.
Fenced ==
    /\ stopAll["fence"].pc = "idle"
    /\ drainPc # "done"
    /\ StopAllStarts("fence")
    /\ UNCHANGED <<running, bootVars, procVars, stopping, portVars, reqVars,
                   ensuring, drainPc>>

\* Mutant: stopAll does not wait for the boots in flight.
StopAllAtOnce(c) ==
    /\ stopAll[c].pc = "boots"
    /\ BeginStop(RunningProcs)
    /\ stopAll' = [stopAll EXCEPT ![c].pc = "stops", ![c].stops = RunningProcs]
    /\ UNCHANGED <<bootVars, procVars, portVars, inflight, req, ensuring,
                   drainPc>>

\* Every boot that was pending has settled: stop what runs now.
StopAllRunning(c) ==
    /\ stopAll[c].pc = "boots"
    /\ stopAll[c].boots = {}
    /\ BeginStop(RunningProcs)
    /\ stopAll' = [stopAll EXCEPT ![c].pc = "stops", ![c].stops = RunningProcs]
    /\ UNCHANGED <<bootVars, procVars, portVars, inflight, req, ensuring,
                   drainPc>>

StopAllReturns(c) ==
    /\ stopAll[c].pc = "stops"
    /\ stopAll[c].stops = {}
    /\ stopAll' = [stopAll EXCEPT ![c].pc = "done"]
    /\ drainPc' = IF c = "drain" THEN "done" ELSE drainPc
    /\ UNCHANGED <<running, bootVars, procVars, stopping, portVars, reqVars,
                   ensuring>>

\* The fencing hook is over and the worker registers again.
Reregister ==
    /\ stopAll["fence"].pc = "done"
    /\ drainPc # "done"
    /\ stopAll' = [stopAll EXCEPT !["fence"] = IdleStopAll]
    /\ UNCHANGED <<running, bootVars, procVars, stopping, portVars, reqVars,
                   ensuring, drainPc>>

\* SIGTERM or POST /internal/drain: the flag is set, then beginDrain() is
\* awaited with the idle reaper still on.
Drain ==
    /\ drainPc = "off"
    /\ drainPc' = "notify"
    /\ UNCHANGED <<running, bootVars, procVars, stopping, portVars, reqVars,
                   ensuring, stopAll>>

DrainNotified ==
    /\ drainPc = "notify"
    /\ drainPc' = "waiting"
    /\ UNCHANGED <<running, bootVars, procVars, stopping, portVars, reqVars,
                   ensuring, stopAll>>

\* No request is counted, or drainTimeoutMs has passed: stop all agents.
DrainStops ==
    /\ drainPc = "waiting"
    /\ drainPc' = "stopping"
    /\ StopAllStarts("drain")
    /\ UNCHANGED <<running, bootVars, procVars, stopping, portVars, reqVars,
                   ensuring>>

Next ==
    \/ \E h \in Hash : EnsureAccepted(h)
    \/ \E h \in Hash : EnsureAgent(h)
    \/ \E h \in Hash : ArtifactReady(h)
    \/ \E h \in Hash : ArtifactFails(h)
    \/ \E h \in Hash : ProbeBurns(h)
    \/ \E h \in Hash : Spawn(h)
    \/ \E h \in Hash : BootReady(h)
    \/ \E h \in Hash : BootFails(h)
    \/ \E p \in Proc : ProcessExits(p)
    \/ \E p \in Proc : StopReturns(p)
    \/ \E h \in Hash : IdleSweep(h)
    \/ \E r \in Req, h \in Hash : BeginRequest(r, h)
    \/ \E r \in Req : EndRequest(r)
    \/ Fenced
    \/ \E c \in Caller : StopAllRunning(c)
    \/ \E c \in Caller : StopAllReturns(c)
    \/ Reregister
    \/ Drain
    \/ DrainNotified
    \/ DrainStops

Spec == Init /\ [][Next]_vars

-----------------------------------------------------------------------------
(* Fairness.  A boot settles: the download ends, the probe answers and the *)
(* ready timeout bounds the health poll.  A signalled process exits and    *)
(* stopAgent's waits are timers.  drain() itself is straight-line code.    *)

BootStep(h) ==
    \/ ArtifactReady(h) \/ ArtifactFails(h) \/ ProbeBurns(h) \/ Spawn(h)
    \/ BootReady(h) \/ BootFails(h)

SignalledExits(p) == p \in stopping \ Stuck /\ ProcessExits(p)

Fairness ==
    /\ \A h \in Hash : WF_vars(BootStep(h))
    /\ \A p \in Proc : WF_vars(SignalledExits(p)) /\ WF_vars(StopReturns(p))
    /\ WF_vars(DrainNotified) /\ WF_vars(DrainStops)
    /\ WF_vars(StopAllRunning("drain")) /\ WF_vars(StopAllReturns("drain"))

FairSpec == Spec /\ Fairness

-----------------------------------------------------------------------------
(* Properties. *)

\* Who holds a port: a boot, a running or stopping process, or the burn list.
Holders(port) ==
    {<<"boot", h>> : h \in {g \in Hash : bootPort[g] = port}}
    \cup {<<"proc", p>> : p \in {q \in RunningProcs \cup stopping :
                                   procPort[q] = port}}
    \cup (IF port \in burned THEN {<<"burned", port>>} ELSE {})

\* The pool never leaks a port and never hands one out twice: a port is
\* allocated exactly when it has a holder, and it has at most one.  Crash
\* cleanup (agents.ts exited.then), stopAgent's finally and bootAgent's catch
\* release it between them once.
PortsConserved ==
    \A port \in Port :
        /\ port \in allocated <=> Holders(port) # {}
        /\ \A x, y \in Holders(port) : x = y

\* The proxy never reaches a foreign listener through a ready agent's port,
\* even though stopAgent releases a port whose process may still be alive
\* (agents.ts allocatePort: "a silent mis-route to the wrong agent").
AgentOwnsItsPort ==
    \A h \in Hash : running[h] # None =>
        /\ procPort[running[h]] \notin ForeignPorts
        /\ \A q \in up : procPort[q] = procPort[running[h]] => q = running[h]

\* Running plus boot-in-flight agents never exceed WORKER_MAX_AGENTS, under
\* every interleaving of ensures, crashes and stops (server.ts ensureAgent).
CapRespected ==
    Cardinality({h \in Hash : running[h] # None \/ boot[h] # "none"}) <= MaxAgents

\* When stopAll returns, no agent that ran or was booting at its call is
\* still in service, whatever crashed, booted or was ensured meanwhile.
StopAllCovers ==
    \A c \in Caller : stopAll[c].pc = "done" =>
        stopAll[c].covered \cap RunningProcs = {}

\* A drain ends: no boot, stop or second stopAll can hold it up forever.
DrainCompletes == drainPc = "notify" ~> drainPc = "done"

\* supervisor.ts drain: "stop accepting ensures and new proxied requests, ...
\* stop all agents, deregister": a finished drain leaves no agent in service.
DrainLeavesNoAgent == drainPc = "done" => RunningProcs = {}
=============================================================================
