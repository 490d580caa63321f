------------------------- MODULE AgentManagerProofs -------------------------
(***************************************************************************)
(* Theorems about AgentManager, for every pool, fleet and set of hashes:   *)
(* its type invariant, the cap on active agents, and the conservation of   *)
(* the port pool, which needs the shape of boots and handles as well.      *)
(***************************************************************************)
EXTENDS AgentManager, TLAPS, FiniteSetTheorems, WellFoundedInduction

\* A boot owns a port from its allocation on, and a child once it spawned.
BootShape ==
    /\ \A h \in Hash : bootPort[h] = None <=> boot[h] \in {"none", "fetch"}
    /\ \A h \in Hash :
        IF boot[h] = "spawned"
        THEN /\ bootProc[h] \in 1 .. nproc
             /\ procPort[bootProc[h]] = bootPort[h]
             /\ procHash[bootProc[h]] = h
             /\ bootProc[h] \notin stopping
        ELSE bootProc[h] = None

\* A ready handle has a child of its own hash, not being stopped, and its
\* hash is not booting.
HandleShape ==
    \A h \in Hash : running[h] # None =>
        /\ running[h] \in 1 .. nproc
        /\ procHash[running[h]] = h
        /\ running[h] \notin stopping
        /\ boot[h] = "none"

\* The processes whose port has not been given back.
Held == RunningProcs \cup stopping

\* Boots, processes and the burn list own allocated ports only, ...
OwnedIsAllocated ==
    /\ burned \subseteq allocated
    /\ \A h \in Hash : bootPort[h] # None => bootPort[h] \in allocated \ burned
    /\ \A p \in Held : procPort[p] \in allocated \ burned

\* ... no two of them the same one, ...
OwnersDistinct ==
    /\ \A g, h \in Hash : bootPort[g] = bootPort[h] /\ bootPort[h] # None => g = h
    /\ \A h \in Hash, p \in Held : bootPort[h] # procPort[p]
    /\ \A p, q \in Held : procPort[p] = procPort[q] => p = q

\* ... and every allocated port has an owner.
AllocatedIsOwned ==
    \A port \in allocated :
        \/ port \in burned
        \/ \E h \in Hash : bootPort[h] = port
        \/ \E p \in Held : procPort[p] = port

PoolShape == OwnedIsAllocated /\ OwnersDistinct /\ AllocatedIsOwned

IInv == TypeOK /\ BootShape /\ HandleShape /\ PoolShape


-----------------------------------------------------------------------------
(* The pool. *)

\* The port a boot without one records is no port of the pool.
LEMMA NoneIsNoPort == None \notin Port
BY ManagerAssumption DEF None, Port

\* ports.allocate never hands out a port that is held: while one is free, it
\* answers a port of the range outside the held set.
LEMMA LowestFreeFree ==
    ASSUME NEW held, Port \ held # {}
    PROVE  LowestFree(held) \in Port \ held
<1> DEFINE T == Port \ held
           R == {ss \in Nat \X Nat : ss[1] < ss[2]}
<1>1. T \subseteq Nat /\ T # {}
  BY ManagerAssumption DEF Port
<1>2. IsWellFoundedOn(R, Nat)
  BY NatLessThanWellFounded, Zenon DEF OpToRel
<1>3. PICK x \in T : \A y \in T : ~(<<y, x>> \in R)
  <2> HIDE DEF T, R
  <2> QED BY <1>1, <1>2, WFMin
<1>4. ASSUME NEW y \in T PROVE x <= y
  <2>1. x \in Nat /\ y \in Nat
    BY <1>1
  <2>2. y < x => <<y, x>> \in R
    BY <2>1
  <2> QED
    BY <1>3, <2>1, <2>2
<1> QED
  BY <1>3, <1>4 DEF LowestFree

-----------------------------------------------------------------------------
(* The invariant holds initially and survives every action. *)

\* A supervisor starts with an empty registry and an untouched pool.
LEMMA InitIInv == Init => IInv
<1> SUFFICES ASSUME Init PROVE IInv
  OBVIOUS
<1> USE DEF Init
<1>1. TypeOK
  BY ManagerAssumption
  DEF TypeOK, BootPhase, DrainPhase, Caller, IdleStopAll, StopAllCall,
      None
<1>2. BootShape /\ HandleShape
  BY DEF BootShape, HandleShape, None
<1>3. RunningProcs = {} /\ Held = {}
  BY DEF RunningProcs, Held
<1>4. PoolShape
  BY <1>3 DEF PoolShape, OwnedIsAllocated, OwnersDistinct, AllocatedIsOwned
<1> QED
  BY <1>1, <1>2, <1>4 DEF IInv

\* A step that touches no handle, boot, process or port keeps the shapes.
LEMMA FrameIInv ==
    ASSUME IInv, TypeOK',
           UNCHANGED <<running, bootVars, procHash, procPort, nproc, stopping,
                       portVars>>
    PROVE  IInv'
<1> USE DEF IInv, bootVars, portVars
<1>1. BootShape'
  BY DEF BootShape
<1>2. HandleShape'
  BY DEF HandleShape
<1>3. Held' = Held
  BY DEF Held, RunningProcs
<1>4. PoolShape'
  BY <1>3 DEF PoolShape, OwnedIsAllocated, OwnersDistinct, AllocatedIsOwned
<1> QED
  BY <1>1, <1>2, <1>4

\* Settling a boot leaves the pending stopAll calls well formed.
LEMMA SettleBootType ==
    ASSUME TypeOK, NEW h \in Hash, NEW P \in SUBSET Proc, SettleBoot(h, P)
    PROVE  stopAll' \in [Caller -> StopAllCall]
<1> SUFFICES ASSUME NEW c \in Caller
             PROVE  (IF h \in stopAll[c].boots
                     THEN [stopAll[c] EXCEPT !.boots = @ \ {h},
                                             !.covered = @ \cup P]
                     ELSE stopAll[c]) \in StopAllCall
  BY DEF SettleBoot
<1>1. stopAll[c] \in StopAllCall
  BY DEF TypeOK
<1> QED
  BY <1>1 DEF StopAllCall

\* The types of the variables a step of the port pool leaves alone.
RestTyped ==
    /\ running' \in [Hash -> Proc \cup {None}]
    /\ nproc' \in 0 .. MaxProcs
    /\ procHash' \in [1 .. nproc' -> Hash]
    /\ procPort' \in [1 .. nproc' -> Port]
    /\ up' \subseteq 1 .. nproc'
    /\ stopping' \subseteq 1 .. nproc'
    /\ inflight' \in [1 .. nproc' -> Nat]
    /\ req' \in [Req -> Proc \cup {None}]
    /\ ensuring' \subseteq Hash
    /\ drainPc' \in DrainPhase

\* Giving up a boot that holds no port, or whose port is given back with it,
\* keeps the pool conserved.
LEMMA AbandonIInv ==
    ASSUME IInv, NEW h \in Hash, NEW held, AbandonBoot(h, held), RestTyped,
           UNCHANGED <<running, procHash, procPort, nproc, stopping>>,
           \/ /\ bootPort[h] = None /\ held = allocated /\ burned' = burned
           \/ /\ bootPort[h] # None /\ burned' = burned
              /\ held = allocated \ {bootPort[h]}
           \/ /\ bootPort[h] # None /\ burned' = burned \cup {bootPort[h]}
              /\ held = allocated
    PROVE  IInv'
<1> USE DEF IInv, AbandonBoot
<1>1. TypeOK'
  <2>1. stopAll' \in [Caller -> StopAllCall]
    BY SettleBootType
  <2> QED
    BY <2>1 DEF TypeOK, RestTyped, BootPhase
<1>2. BootShape'
  BY DEF TypeOK, BootShape, None, BootPhase
<1>3. HandleShape'
  BY DEF TypeOK, HandleShape
<1>4. Held' = Held
  BY DEF Held, RunningProcs
<1>4a. \A p \in Held : procPort[p] \in Port
  BY DEF PoolShape, OwnedIsAllocated, TypeOK
<1>5. PoolShape'
  <2> USE DEF PoolShape, TypeOK
  <2>1. OwnedIsAllocated'
    BY <1>4, <1>4a, NoneIsNoPort DEF OwnedIsAllocated, OwnersDistinct
  <2>2. OwnersDistinct'
    BY <1>4, <1>4a, NoneIsNoPort DEF OwnedIsAllocated, OwnersDistinct
  <2>3. AllocatedIsOwned'
    BY <1>4, <1>4a, NoneIsNoPort DEF OwnedIsAllocated, OwnersDistinct, AllocatedIsOwned
  <2> QED
    BY <2>1, <2>2, <2>3
<1> QED
  BY <1>1, <1>2, <1>3, <1>5

\* Moving a boot to a free port keeps the pool conserved: its earlier port, if
\* it had one, is burned by the same step.
LEMMA AllocateIInv ==
    ASSUME IInv, NEW h \in Hash, Port \ allocated # {}, RestTyped,
           AllocateAndProbe(h, allocated), boot[h] \in {"fetch", "probe"},
           UNCHANGED <<running, procHash, procPort, nproc, stopping>>,
           \/ bootPort[h] = None /\ burned' = burned
           \/ bootPort[h] # None /\ burned' = burned \cup {bootPort[h]}
    PROVE  IInv'
<1> DEFINE port == LowestFree(allocated)
<1>1. port \in Port \ allocated
  BY LowestFreeFree
<1>2. /\ boot' = [boot EXCEPT ![h] = "probe"]
      /\ bootPort' = [bootPort EXCEPT ![h] = port]
      /\ allocated' = allocated \cup {port}
      /\ UNCHANGED <<bootProc, stopAll>>
  BY DEF AllocateAndProbe
<1> HIDE DEF port
<1>3. port # None
  BY <1>1, ManagerAssumption DEF Port, None
<1> USE DEF IInv
<1>4. TypeOK'
  BY <1>1, <1>2 DEF TypeOK, RestTyped, BootPhase
<1>5. BootShape'
  BY <1>2, <1>3 DEF TypeOK, BootShape, BootPhase
<1>6. HandleShape'
  BY <1>2 DEF TypeOK, BootShape, HandleShape
<1>7. Held' = Held
  BY DEF Held, RunningProcs
<1>8. PoolShape'
  <2> USE DEF PoolShape, TypeOK
  <2>1. OwnedIsAllocated'
    BY <1>1, <1>2, <1>3, <1>7 DEF OwnedIsAllocated, OwnersDistinct
  <2>2. OwnersDistinct'
    BY <1>1, <1>2, <1>3, <1>7 DEF OwnedIsAllocated, OwnersDistinct
  <2>3. AllocatedIsOwned'
    <3> SUFFICES ASSUME NEW q \in allocated'
                 PROVE  \/ q \in burned'
                        \/ \E g \in Hash : bootPort'[g] = q
                        \/ \E p \in Held : procPort[p] = q
      BY <1>7 DEF AllocatedIsOwned
    <3>1. CASE q = port
      BY <3>1, <1>2
    <3>2. CASE q \in burned \/ \E p \in Held : procPort[p] = q
      BY <3>2
    <3>3. CASE q # port /\ \E g \in Hash : bootPort[g] = q
      BY <3>3, <1>2, NoneIsNoPort
    <3> QED
      BY <3>1, <3>2, <3>3, <1>2 DEF AllocatedIsOwned
  <2> QED
    BY <2>1, <2>2, <2>3
<1> QED
  BY <1>4, <1>5, <1>6, <1>8

\* A process gives its port back and stops being an owner: nothing leaks.
LEMMA ReleasePool ==
    ASSUME TypeOK, PoolShape, NEW p \in Held, Held' = Held \ {p},
           allocated' = allocated \ {procPort[p]},
           UNCHANGED <<bootPort, procPort, burned>>
    PROVE  PoolShape'
<1> USE DEF PoolShape
<1>1. OwnedIsAllocated'
  BY DEF OwnedIsAllocated, OwnersDistinct
<1>2. OwnersDistinct'
  BY DEF OwnersDistinct
<1>3. AllocatedIsOwned'
  BY DEF AllocatedIsOwned
<1> QED
  BY <1>1, <1>2, <1>3

\* The head of stopAgent moves processes from `running' to `stopping': the
\* owners of the pool stay the same.
LEMMA BeginStopIInv ==
    ASSUME IInv, NEW P \in SUBSET RunningProcs, BeginStop(P), TypeOK',
           UNCHANGED <<bootVars, procHash, procPort, nproc, portVars>>
    PROVE  IInv'
<1> USE DEF IInv, BeginStop, bootVars, portVars
<1>1. \A p \in P : p # None /\ \E h \in Hash : running[h] = p
  BY DEF RunningProcs
<1>2. BootShape'
  BY <1>1 DEF BootShape, HandleShape
<1>3. HandleShape'
  BY <1>1 DEF HandleShape
<1>4. RunningProcs' = RunningProcs \ P
  BY <1>1 DEF RunningProcs
<1>5. Held' = Held
  BY <1>4 DEF Held
<1>6. PoolShape'
  BY <1>5 DEF PoolShape, OwnedIsAllocated, OwnersDistinct, AllocatedIsOwned
<1> QED
  BY <1>2, <1>3, <1>6

\* Ready handles belong to processes that were spawned.
LEMMA RunningSpawned == ASSUME IInv PROVE RunningProcs \subseteq 1 .. nproc
BY DEF IInv, HandleShape, RunningProcs

-----------------------------------------------------------------------------
(* One lemma per group of actions. *)

\* Ensuring an agent, or refusing to.
LEMMA EnsureIInv ==
    ASSUME IInv, NEW h \in Hash, EnsureAccepted(h) \/ EnsureAgent(h)
    PROVE  IInv'
<1>1. CASE EnsureAccepted(h)
  <2>1. TypeOK'
    BY <1>1 DEF IInv, TypeOK, EnsureAccepted, bootVars, procVars, portVars,
                reqVars
  <2> QED
    BY <1>1, <2>1, FrameIInv DEF EnsureAccepted, procVars
<1>2. CASE EnsureAgent(h)
  <2> USE DEF EnsureAgent, procVars, portVars, reqVars, IInv
  <2>1. \/ boot' = boot
        \/ /\ boot[h] = "none" /\ running[h] = None
           /\ boot' = [boot EXCEPT ![h] = "fetch"]
    BY <1>2 DEF isActive
  <2>2. TypeOK'
    BY <1>2, <2>1 DEF TypeOK, BootPhase
  <2>3. BootShape'
    BY <1>2, <2>1 DEF TypeOK, BootShape
  <2>4. HandleShape'
    BY <1>2, <2>1 DEF TypeOK, HandleShape
  <2>5. Held' = Held
    BY <1>2 DEF Held, RunningProcs
  <2>6. PoolShape'
    BY <1>2, <2>5
    DEF PoolShape, OwnedIsAllocated, OwnersDistinct, AllocatedIsOwned
  <2> QED
    BY <2>2, <2>3, <2>4, <2>6
<1> QED
  BY <1>1, <1>2

\* The boot allocates its first port, or gives up without one.
LEMMA ArtifactIInv ==
    ASSUME IInv, NEW h \in Hash, ArtifactReady(h) \/ ArtifactFails(h)
    PROVE  IInv'
<1> USE DEF ArtifactReady, ArtifactFails
<1>1. RestTyped
  BY DEF IInv, TypeOK, RestTyped, procVars, reqVars
<1>2. boot[h] = "fetch" /\ bootPort[h] = None
  BY DEF IInv, BootShape
<1>3. CASE AbandonBoot(h, allocated)
  BY <1>1, <1>2, <1>3, AbandonIInv DEF procVars
<1>4. CASE AllocateAndProbe(h, allocated) /\ Port \ allocated # {}
  BY <1>1, <1>2, <1>4, AllocateIInv DEF procVars
<1> QED
  BY <1>3, <1>4 DEF AllocateAndProbe

\* A busy port is burned and the next one taken, or the boot gives up.
LEMMA ProbeBurnsIInv ==
    ASSUME IInv, NEW h \in Hash, ProbeBurns(h)
    PROVE  IInv'
<1> USE DEF ProbeBurns
<1>1. RestTyped
  BY DEF IInv, TypeOK, RestTyped, procVars, reqVars
<1>2. boot[h] = "probe" /\ bootPort[h] # None
  BY DEF IInv, BootShape
<1>3. CASE AbandonBoot(h, allocated)
  BY <1>1, <1>2, <1>3, AbandonIInv DEF procVars
<1>4. CASE AllocateAndProbe(h, allocated) /\ Port \ allocated # {}
  BY <1>1, <1>2, <1>4, AllocateIInv DEF procVars
<1> QED
  BY <1>3, <1>4 DEF AllocateAndProbe

\* The boot fails: its port goes back.
LEMMA BootFailsIInv ==
    ASSUME IInv, NEW h \in Hash, BootFails(h)
    PROVE  IInv'
<1> USE DEF BootFails
<1>1. RestTyped
  BY DEF IInv, TypeOK, RestTyped, reqVars
<1>2. bootPort[h] # None
  BY DEF IInv, BootShape
<1> QED
  BY <1>1, <1>2, AbandonIInv

\* A spawned process takes over its boot's port without being its owner yet.
LEMMA SpawnIInv ==
    ASSUME IInv, NEW h \in Hash, Spawn(h)
    PROVE  IInv'
<1> DEFINE p == nproc + 1
<1> USE DEF Spawn, IInv, portVars
<1>1. bootPort[h] \in Port
  BY DEF BootShape, TypeOK
<1>2. nproc \in Nat /\ p \in Proc /\ nproc' = p /\ p \in 1 .. nproc'
  BY ManagerAssumption DEF TypeOK, Proc
<1>3. /\ \A q \in 1 .. nproc : q \in 1 .. p /\ q # p
                                /\ procHash'[q] = procHash[q]
                                /\ procPort'[q] = procPort[q]
      /\ procHash'[p] = h /\ procPort'[p] = bootPort[h]
  BY <1>2
<1>4. TypeOK'
  BY <1>1, <1>2 DEF TypeOK, BootPhase, Proc
<1>5. BootShape'
  BY <1>2, <1>3 DEF TypeOK, BootShape
<1>6. HandleShape'
  BY <1>2, <1>3 DEF TypeOK, BootShape, HandleShape
<1>7. Held' = Held /\ Held \subseteq 1 .. nproc
  BY RunningSpawned DEF Held, RunningProcs, TypeOK
<1>8. PoolShape'
  BY <1>3, <1>7
  DEF PoolShape, OwnedIsAllocated, OwnersDistinct, AllocatedIsOwned
<1> QED
  BY <1>4, <1>5, <1>6, <1>8

\* The handle takes the port over from the boot.
LEMMA BootReadyIInv ==
    ASSUME IInv, NEW h \in Hash, BootReady(h)
    PROVE  IInv'
<1> DEFINE p == bootProc[h]
<1> USE DEF BootReady, IInv, portVars, procVars
<1>1. /\ p \in 1 .. nproc /\ procPort[p] = bootPort[h] /\ procHash[p] = h
      /\ p \notin stopping /\ bootPort[h] # None /\ bootPort[h] \in Port
      /\ running[h] = None
  BY DEF BootShape, HandleShape, TypeOK
<1>2. p \in Proc /\ p # None
  BY <1>1, ManagerAssumption DEF TypeOK, Proc, None
<1>3. TypeOK'
  <2>1. stopAll' \in [Caller -> StopAllCall]
    BY <1>2, SettleBootType
  <2> QED
    BY <1>2, <2>1 DEF TypeOK, BootPhase, reqVars
<1>4. BootShape'
  BY DEF TypeOK, BootShape
<1>5. HandleShape'
  BY <1>1 DEF TypeOK, HandleShape
<1>6. Held' = Held \cup {p}
  BY <1>1, <1>2 DEF Held, RunningProcs, TypeOK
<1>7. PoolShape'
  <2> USE DEF PoolShape, TypeOK
  <2>1. OwnedIsAllocated'
    BY <1>1, <1>6 DEF OwnedIsAllocated
  <2>2. OwnersDistinct'
    BY <1>1, <1>6, NoneIsNoPort DEF OwnersDistinct, OwnedIsAllocated
  <2>3. AllocatedIsOwned'
    BY <1>1, <1>6 DEF AllocatedIsOwned
  <2> QED
    BY <2>1, <2>2, <2>3
<1> QED
  BY <1>3, <1>4, <1>5, <1>7

\* A process exits: the exit handler gives the port back if the handle still
\* is the running one, and leaves it to stopAgent otherwise.
LEMMA ProcessExitsIInv ==
    ASSUME IInv, NEW p \in Proc, ProcessExits(p)
    PROVE  IInv'
<1> USE DEF ProcessExits, IInv, bootVars
<1>1. p \in 1 .. nproc /\ procHash[p] \in Hash
  BY DEF TypeOK
<1>2. TypeOK'
  BY <1>1 DEF TypeOK
<1>3. CASE running[procHash[p]] = p
  <2>1. running' = [running EXCEPT ![procHash[p]] = None]
    BY <1>3
  <2>2. p # None
    BY <1>1 DEF TypeOK, None
  <2>3. BootShape'
    BY DEF BootShape
  <2>4. HandleShape'
    BY <1>1, <2>1 DEF HandleShape, TypeOK
  <2>5. RunningProcs' = RunningProcs \ {p}
    <3>1. \A g \in Hash : running[g] = p => g = procHash[p]
      BY <2>2 DEF HandleShape
    <3> QED
      BY <1>1, <1>3, <2>1, <3>1 DEF RunningProcs, TypeOK
  <2>6. p \in Held /\ Held' = Held \ {p}
    BY <1>1, <1>3, <2>2, <2>5 DEF Held, HandleShape, RunningProcs
  <2>7. PoolShape'
    BY <1>3, <2>6, ReleasePool
  <2> QED
    BY <1>2, <2>3, <2>4, <2>7
<1>4. CASE running[procHash[p]] # p
  BY <1>2, <1>4, FrameIInv DEF portVars
<1> QED
  BY <1>3, <1>4

\* stopAgent returns and gives the port back.
LEMMA StopReturnsIInv ==
    ASSUME IInv, NEW p \in Proc, StopReturns(p)
    PROVE  IInv'
<1> USE DEF StopReturns, IInv, bootVars, procVars
<1>1. TypeOK'
  <2>1. stopAll' \in [Caller -> StopAllCall]
    BY DEF TypeOK, StopAllCall
  <2> QED
    BY <2>1 DEF TypeOK, reqVars
<1>2. BootShape' /\ HandleShape'
  BY DEF BootShape, HandleShape
<1>3. p \in Held /\ Held' = Held \ {p}
  <2>1. p # None /\ p \notin RunningProcs
    BY ManagerAssumption DEF HandleShape, RunningProcs, Proc, None
  <2> QED
    BY <2>1 DEF Held, RunningProcs
<1>4. PoolShape'
  BY <1>3, ReleasePool
<1> QED
  BY <1>1, <1>2, <1>4

\* The idle reaper starts a stop.
LEMMA IdleSweepIInv ==
    ASSUME IInv, NEW h \in Hash, IdleSweep(h)
    PROVE  IInv'
<1> USE DEF IdleSweep
<1>1. {running[h]} \in SUBSET RunningProcs
  BY DEF RunningProcs
<1>2. TypeOK'
  BY <1>1, RunningSpawned
  DEF IInv, TypeOK, BeginStop, bootVars, procVars, portVars
<1> QED
  BY <1>1, <1>2, BeginStopIInv DEF procVars

\* stopAll starts the stops of all that runs.
LEMMA StopAllRunningIInv ==
    ASSUME IInv, NEW c \in Caller, StopAllRunning(c)
    PROVE  IInv'
<1> USE DEF StopAllRunning
<1>1. RunningProcs \subseteq 1 .. nproc /\ RunningProcs \subseteq Proc
  BY RunningSpawned, ManagerAssumption DEF IInv, TypeOK, Proc
<1>2. stopAll' \in [Caller -> StopAllCall]
  <2> DEFINE call == [stopAll[c] EXCEPT !.pc = "stops", !.stops = RunningProcs]
  <2>1. call \in StopAllCall
    BY <1>1 DEF IInv, TypeOK, StopAllCall
  <2>2. stopAll' = [stopAll EXCEPT ![c] = call]
    BY DEF IInv, TypeOK
  <2> HIDE DEF call
  <2> QED
    BY <2>1, <2>2 DEF IInv, TypeOK
<1>3. TypeOK'
  BY <1>1, <1>2 DEF IInv, TypeOK, BeginStop, bootVars, procVars, portVars
<1> QED
  BY <1>3, BeginStopIInv DEF procVars

\* Opening and finishing a proxied request only count.
LEMMA RequestIInv ==
    ASSUME IInv, NEW r \in Req,
           EndRequest(r) \/ \E h \in Hash : BeginRequest(r, h)
    PROVE  IInv'
<1> USE DEF bootVars, procVars, portVars
<1>1. CASE EndRequest(r)
  <2>1. inflight' \in [1 .. nproc -> Nat] /\ req' \in [Req -> Proc \cup {None}]
    BY <1>1 DEF EndRequest, IInv, TypeOK, Floor0
  <2>2. TypeOK'
    BY <1>1, <2>1 DEF EndRequest, IInv, TypeOK
  <2> QED
    BY <1>1, <2>2, FrameIInv DEF EndRequest
<1>2. ASSUME NEW h \in Hash, BeginRequest(r, h) PROVE IInv'
  <2>1. running[h] \in 1 .. nproc /\ inflight[running[h]] \in Nat
    BY <1>2 DEF BeginRequest, IInv, TypeOK, HandleShape
  <2>2. inflight' \in [1 .. nproc -> Nat] /\ req' \in [Req -> Proc \cup {None}]
    BY <1>2, <2>1 DEF BeginRequest, IInv, TypeOK
  <2>3. TypeOK'
    BY <1>2, <2>2 DEF BeginRequest, IInv, TypeOK
  <2> QED
    BY <1>2, <2>3, FrameIInv DEF BeginRequest
<1> QED
  BY <1>1, <1>2

\* The control steps of stopAll and drain.
ControlStep ==
    \/ Fenced \/ Reregister \/ Drain \/ DrainNotified \/ DrainStops
    \/ \E c \in Caller : StopAllReturns(c)

\* The control steps touch no handle, boot, process or port.
LEMMA ControlIInv == ASSUME IInv, ControlStep PROVE IInv'
<1> USE DEF bootVars, procVars, portVars, reqVars
<1>1. /\ UNCHANGED <<running, bootVars, procVars, stopping, portVars, reqVars,
                      ensuring>>
      /\ drainPc' \in DrainPhase
  BY DEF ControlStep, Fenced, Reregister, Drain, DrainNotified, DrainStops,
         StopAllReturns, IInv, TypeOK, DrainPhase
<1>2. RunningProcs \subseteq Proc /\ "fence" \in Caller /\ "drain" \in Caller
  BY RunningSpawned, ManagerAssumption DEF IInv, TypeOK, Proc, Caller
<1>3. stopAll' \in [Caller -> StopAllCall]
  <2> USE DEF IInv, TypeOK, StopAllCall
  <2>1. CASE Fenced
    BY <1>2, <2>1 DEF Fenced, StopAllStarts
  <2>2. CASE Reregister
    BY <1>2, <2>2 DEF Reregister, IdleStopAll
  <2>3. CASE Drain \/ DrainNotified
    BY <2>3 DEF Drain, DrainNotified
  <2>4. CASE DrainStops
    BY <1>2, <2>4 DEF DrainStops, StopAllStarts
  <2>5. ASSUME NEW c \in Caller, StopAllReturns(c)
        PROVE  stopAll' \in [Caller -> StopAllCall]
    BY <2>5 DEF StopAllReturns
  <2> QED
    BY <2>1, <2>2, <2>3, <2>4, <2>5 DEF ControlStep
<1>4. TypeOK'
  BY <1>1, <1>3 DEF IInv, TypeOK
<1> QED
  BY <1>1, <1>4, FrameIInv

-----------------------------------------------------------------------------
(* The theorems. *)

\* The inductive invariant holds in every reachable state of the manager.
THEOREM Inductive == Spec => []IInv
<1>1. IInv /\ [Next]_vars => IInv'
  <2> SUFFICES ASSUME IInv, [Next]_vars PROVE IInv'
    OBVIOUS
  <2>1. CASE UNCHANGED vars
    <3>1. TypeOK'
      BY <2>1 DEF IInv, TypeOK, vars, bootVars, procVars, portVars, reqVars
    <3> QED
      BY <2>1, <3>1, FrameIInv DEF vars, procVars
  <2>2. CASE Next
    BY <2>2, EnsureIInv, ArtifactIInv, ProbeBurnsIInv, SpawnIInv,
       BootReadyIInv, BootFailsIInv, ProcessExitsIInv, StopReturnsIInv,
       IdleSweepIInv, RequestIInv, StopAllRunningIInv, ControlIInv, Zenon
    DEF Next, ControlStep
  <2> QED
    BY <2>1, <2>2
<1> QED
  BY <1>1, InitIInv, PTL DEF Spec

\* Every handle, boot, process, port and request count keeps its type, the
\* counts staying natural under every order of endRequest, crash and stop.
THEOREM TypeCorrect == Spec => []TypeOK
<1>1. IInv => TypeOK
  BY DEF IInv
<1> QED
  BY <1>1, Inductive, PTL

\* For every pool size, set of hashes and cap: the manager never leaks a port
\* and never has two owners of one, whatever crashes, stops, failed boots and
\* stuck processes interleave.
THEOREM PoolConserved == Spec => []PortsConserved
<1>1. IInv => PortsConserved
  <2> SUFFICES ASSUME IInv, NEW port \in Port
               PROVE  /\ port \in allocated <=> Holders(port) # {}
                      /\ \A x, y \in Holders(port) : x = y
    BY DEF PortsConserved
  <2> USE DEF IInv, PoolShape, OwnedIsAllocated, OwnersDistinct,
              AllocatedIsOwned, Held
  <2>1. \A x : x \in Holders(port) <=>
          \/ \E h \in Hash : x = <<"boot", h>> /\ bootPort[h] = port
          \/ \E p \in Held : x = <<"proc", p>> /\ procPort[p] = port
          \/ x = <<"burned", port>> /\ port \in burned
    BY Zenon DEF Holders
  <2>2. port # None
    BY NoneIsNoPort
  <2>3. port \in allocated <=> Holders(port) # {}
    <3>1. ASSUME port \in allocated PROVE \E x : x \in Holders(port)
      BY <2>1, <3>1, Zenon
    <3>2. ASSUME NEW x \in Holders(port) PROVE port \in allocated
      BY <2>1, <2>2
    <3> QED
      BY <3>1, <3>2
  <2>4. \A x, y \in Holders(port) : x = y
    BY <2>1, <2>2
  <2> QED
    BY <2>3, <2>4
<1> QED
  BY <1>1, Inductive, PTL

-----------------------------------------------------------------------------
(* The cap on active agents. *)

Active == {h \in Hash : running[h] # None \/ boot[h] # "none"}

\* Only an ensure that passed the cap check makes a hash active.
LEMMA ActiveStep ==
    ASSUME IInv, [Next]_vars
    PROVE  \/ Active' \subseteq Active
           \/ \E h \in Hash : /\ h \notin Active
                              /\ Active' = Active \cup {h}
                              /\ Cardinality(Active) < MaxAgents
<1> USE DEF bootVars, Active
<1>1. CASE UNCHANGED <<running, boot>>
  BY <1>1
<1>2. ASSUME NEW h \in Hash, EnsureAgent(h), boot' # boot
      PROVE  /\ h \notin Active
             /\ Active' = Active \cup {h}
             /\ Cardinality(Active) < MaxAgents
  <2>1. /\ ~isActive(h) /\ activeCount < MaxAgents
        /\ boot' = [boot EXCEPT ![h] = "fetch"] /\ running' = running
    BY <1>2 DEF EnsureAgent
  <2>2. activeCount = Cardinality(Active)
    BY DEF activeCount, isActive
  <2> QED
    BY <2>1, <2>2 DEF isActive, IInv, TypeOK
<1>3. ASSUME NEW h \in Hash,
             \/ ArtifactReady(h) \/ ArtifactFails(h) \/ ProbeBurns(h) \/ Spawn(h)
             \/ BootReady(h) \/ BootFails(h)
      PROVE  Active' \subseteq Active
  <2>1. \/ running' = running
        \/ /\ running' = [running EXCEPT ![h] = bootProc[h]]
           /\ boot[h] = "spawned"
    BY <1>3 DEF ArtifactReady, ArtifactFails, ProbeBurns, Spawn, BootReady,
                BootFails
  <2>2. boot[h] # "none" /\ \E ph : boot' = [boot EXCEPT ![h] = ph]
    BY <1>3 DEF ArtifactReady, ArtifactFails, ProbeBurns, Spawn, BootReady,
                BootFails, AllocateAndProbe, AbandonBoot
  <2> QED
    BY <2>1, <2>2 DEF IInv, TypeOK
<1>4. ASSUME NEW p \in Proc, ProcessExits(p)
      PROVE  Active' \subseteq Active
  BY <1>4 DEF ProcessExits, IInv, TypeOK
<1>5. ASSUME NEW P, BeginStop(P), boot' = boot
      PROVE  Active' \subseteq Active
  BY <1>5 DEF BeginStop
<1>6. ASSUME NEW h \in Hash, IdleSweep(h)
      PROVE  Active' \subseteq Active
  BY <1>5, <1>6 DEF IdleSweep
<1>7. ASSUME NEW c \in Caller, StopAllRunning(c)
      PROVE  Active' \subseteq Active
  BY <1>5, <1>7 DEF StopAllRunning
<1>8. ASSUME Next, ~UNCHANGED <<running, boot>>
      PROVE  \/ \E h \in Hash : EnsureAgent(h) /\ boot' # boot
             \/ \E h \in Hash :
                  \/ ArtifactReady(h) \/ ArtifactFails(h) \/ ProbeBurns(h)
                  \/ Spawn(h) \/ BootReady(h) \/ BootFails(h)
             \/ \E p \in Proc : ProcessExits(p)
             \/ \E h \in Hash : IdleSweep(h)
             \/ \E c \in Caller : StopAllRunning(c)
  BY <1>8 DEF Next, EnsureAccepted, EnsureAgent, StopReturns, BeginRequest,
              EndRequest, Fenced, StopAllReturns, Reregister, Drain,
              DrainNotified, DrainStops
<1> QED
  BY <1>1, <1>2, <1>3, <1>4, <1>6, <1>7, <1>8 DEF vars

\* For every cap and set of hashes: running plus booting agents never exceed
\* WORKER_MAX_AGENTS, since the check and the registration of the boot happen
\* in one synchronous stretch of the ensure handler.
THEOREM CapHolds == Spec => []CapRespected
<1>1. Init => CapRespected
  <2> SUFFICES ASSUME Init PROVE CapRespected
    OBVIOUS
  <2>1. {h \in Hash : running[h] # None \/ boot[h] # "none"} = {}
    BY DEF Init
  <2> QED
    BY <2>1, FS_EmptySet, ManagerAssumption DEF CapRespected
<1>2. IInv /\ CapRespected /\ [Next]_vars => CapRespected'
  <2> SUFFICES ASSUME IInv, CapRespected, [Next]_vars PROVE CapRespected'
    OBVIOUS
  <2>1. /\ CapRespected <=> Cardinality(Active) <= MaxAgents
        /\ CapRespected' <=> Cardinality(Active') <= MaxAgents
    BY DEF CapRespected, Active
  <2>2. IsFiniteSet(Active) /\ IsFiniteSet(Active')
    BY ManagerAssumption, FS_Subset DEF Active
  <2>3. Cardinality(Active) \in Nat /\ Cardinality(Active') \in Nat
    BY <2>2, FS_CardinalityType
  <2>4. CASE Active' \subseteq Active
    <3>1. Cardinality(Active') <= Cardinality(Active)
      BY <2>2, <2>4, FS_Subset
    <3> QED
      BY <3>1, <2>1, <2>3, ManagerAssumption
  <2>5. ASSUME NEW h \in Hash, h \notin Active, Active' = Active \cup {h},
               Cardinality(Active) < MaxAgents
        PROVE  CapRespected'
    <3>1. Cardinality(Active') = Cardinality(Active) + 1
      BY <2>2, <2>5, FS_AddElement
    <3> QED
      BY <3>1, <2>1, <2>3, <2>5, ManagerAssumption
  <2> QED
    BY <2>4, <2>5, ActiveStep
<1> QED
  BY <1>1, <1>2, Inductive, PTL DEF Spec

-----------------------------------------------------------------------------
(* Routing: no one else answers on an agent's port. *)

\* The processes the pool vouches for: those that hold a port, and the
\* children of boots.
Users == Held \cup {bootProc[h] : h \in {g \in Hash : boot[g] = "spawned"}}

\* A user's port has no listener of an earlier supervisor and no other live
\* process, stopped ones whose port was released early included.
PortExclusive ==
    \A p \in Users :
        /\ procPort[p] \notin ForeignPorts
        /\ \A q \in up : procPort[q] = procPort[p] => q = p

\* Every step but a spawn may only drop users and live processes.
LEMMA UsersStep ==
    ASSUME IInv, IInv', [Next]_vars
    PROVE  \/ /\ Users' \subseteq Users /\ up' \subseteq up
              /\ procPort' = procPort
           \/ \E h \in Hash : Spawn(h)
<1> USE DEF bootVars, procVars, reqVars
<1>1. ASSUME UNCHANGED <<running, boot, bootProc, stopping>>
      PROVE  Users' = Users
  BY <1>1 DEF Users, Held, RunningProcs
<1>2. ASSUME NEW P \in SUBSET RunningProcs, BeginStop(P), UNCHANGED bootVars
      PROVE  Users' \subseteq Users
  BY <1>2 DEF BeginStop, Users, Held, RunningProcs
<1>3. ASSUME NEW h \in Hash, \/ ArtifactReady(h) \/ ArtifactFails(h)
                             \/ ProbeBurns(h) \/ BootFails(h)
      PROVE  Users' \subseteq Users /\ up' \subseteq up /\ procPort' = procPort
  <2>1. /\ UNCHANGED <<running, stopping, procPort>> /\ up' \subseteq up
        /\ \E ph \in {"none", "probe"} : boot' = [boot EXCEPT ![h] = ph]
        /\ \A g \in Hash \ {h} : bootProc'[g] = bootProc[g]
    BY <1>3 DEF ArtifactReady, ArtifactFails, ProbeBurns, BootFails,
                AllocateAndProbe, AbandonBoot, IInv, TypeOK
  <2> QED
    BY <2>1 DEF Users, Held, RunningProcs, IInv, TypeOK
<1>4. ASSUME NEW h \in Hash, BootReady(h)
      PROVE  Users' \subseteq Users /\ up' \subseteq up /\ procPort' = procPort
  BY <1>4 DEF BootReady, Users, Held, RunningProcs, IInv, TypeOK
<1>5. ASSUME NEW p \in Proc, ProcessExits(p) \/ StopReturns(p)
      PROVE  Users' \subseteq Users /\ up' \subseteq up /\ procPort' = procPort
  BY <1>5 DEF ProcessExits, StopReturns, Users, Held, RunningProcs, IInv, TypeOK
<1>6. ASSUME NEW h \in Hash, EnsureAgent(h)
      PROVE  Users' \subseteq Users /\ up' \subseteq up /\ procPort' = procPort
  BY <1>6 DEF EnsureAgent, Users, Held, RunningProcs, IInv, TypeOK
<1>7. ASSUME NEW h \in Hash, IdleSweep(h)
      PROVE  Users' \subseteq Users /\ up' \subseteq up /\ procPort' = procPort
  <2>1. {running[h]} \in SUBSET RunningProcs
    BY <1>7 DEF IdleSweep, RunningProcs
  <2> QED
    BY <1>2, <1>7, <2>1 DEF IdleSweep
<1>8. ASSUME NEW c \in Caller, StopAllRunning(c)
      PROVE  Users' \subseteq Users /\ up' \subseteq up /\ procPort' = procPort
  BY <1>2, <1>8 DEF StopAllRunning
<1>9. ASSUME \/ UNCHANGED vars
             \/ \E h \in Hash : EnsureAccepted(h)
             \/ \E r \in Req, h \in Hash : BeginRequest(r, h)
             \/ \E r \in Req : EndRequest(r)
             \/ ControlStep
      PROVE  Users' = Users /\ up' = up /\ procPort' = procPort
  <2>1. UNCHANGED <<running, boot, bootProc, stopping, up, procPort>>
    BY <1>9 DEF vars, EnsureAccepted, BeginRequest, EndRequest, ControlStep,
                Fenced, StopAllReturns, Reregister, Drain, DrainNotified,
                DrainStops
  <2> QED
    BY <1>1, <2>1
<1> QED
  BY <1>3, <1>4, <1>5, <1>6, <1>7, <1>8, <1>9, Zenon DEF Next, ControlStep

\* A spawn adds one user, on a port nobody else uses: the probe found no
\* listener and the pool had given the port to this boot alone.
LEMMA SpawnExclusive ==
    ASSUME IInv, PortExclusive, NEW h \in Hash, Spawn(h)
    PROVE  PortExclusive'
<1> DEFINE p == nproc + 1
<1> USE DEF IInv
<1>1. nproc \in Nat /\ up \subseteq 1 .. nproc
  BY DEF TypeOK
<1>2. p \notin 1 .. nproc /\ 1 .. nproc \subseteq 1 .. p
  BY <1>1
<1>3. /\ up' = up \cup {p} /\ procPort'[p] = bootPort[h]
      /\ \A q \in 1 .. nproc : procPort'[q] = procPort[q]
  BY <1>1, <1>2 DEF Spawn
<1>4. /\ bootPort[h] \notin ForeignPorts
      /\ \A q \in up : procPort[q] # bootPort[h]
  BY DEF Spawn, PortBusy
<1>5. Users \subseteq 1 .. nproc
  BY RunningSpawned DEF Users, Held, BootShape, TypeOK
<1>6. Users' \subseteq Users \cup {p}
  BY DEF Spawn, Users, Held, RunningProcs, TypeOK
<1>7. \A u \in Users : procPort[u] # bootPort[h]
  <2>1. \A u \in Held : procPort[u] # bootPort[h]
    BY DEF PoolShape, OwnersDistinct
  <2>2. ASSUME NEW g \in Hash, boot[g] = "spawned"
        PROVE  procPort[bootProc[g]] # bootPort[h]
    BY <2>2 DEF PoolShape, OwnersDistinct, BootShape, Spawn
  <2> QED
    BY <2>1, <2>2 DEF Users
<1> QED
  <2> SUFFICES ASSUME NEW u \in Users'
               PROVE  /\ procPort'[u] \notin ForeignPorts
                      /\ \A q \in up' : procPort'[q] = procPort'[u] => q = u
    BY DEF PortExclusive
  <2> HIDE DEF p
  <2>1. CASE u = p
    BY <2>1, <1>1, <1>3, <1>4
  <2>2. CASE u \in Users
    BY <2>2, <1>1, <1>3, <1>5, <1>7 DEF PortExclusive
  <2> QED
    BY <2>1, <2>2, <1>6

\* For every pool, every set of foreign listeners and every set of processes
\* that outlive SIGKILL: a ready agent alone answers on its port, so the
\* reverse proxy never reaches another process through it.
THEOREM RoutingSound == Spec => []AgentOwnsItsPort
<1>1. Init => PortExclusive
  BY DEF Init, PortExclusive, Users, Held, RunningProcs
<1>2. IInv /\ IInv' /\ PortExclusive /\ [Next]_vars => PortExclusive'
  <2> SUFFICES ASSUME IInv, IInv', PortExclusive, [Next]_vars
               PROVE  PortExclusive'
    OBVIOUS
  <2>1. CASE Users' \subseteq Users /\ up' \subseteq up /\ procPort' = procPort
    BY <2>1 DEF PortExclusive
  <2> QED
    BY <2>1, UsersStep, SpawnExclusive
<1>3. PortExclusive => AgentOwnsItsPort
  BY DEF PortExclusive, AgentOwnsItsPort, Users, Held, RunningProcs
<1> QED
  BY <1>1, <1>2, <1>3, Inductive, PTL DEF Spec

-----------------------------------------------------------------------------
(* stopAll.                                                                *)

\* What a stopAll call has covered is neither a later boot's process nor, from
\* the stop on, in service; it waits for no boot by then.
CoverOf(c) ==
    /\ stopAll[c].covered \subseteq 1 .. nproc
    /\ stopAll[c].pc # "boots" => stopAll[c].boots = {}
    /\ \A h \in Hash : boot[h] = "spawned" => bootProc[h] \notin stopAll[c].covered
    /\ stopAll[c].pc \in {"stops", "done"} => stopAll[c].covered \cap RunningProcs = {}
CoverShape == \A c \in Caller : CoverOf(c)

\* A call that only moves on, or waits for fewer boots, stays covered by a
\* step that puts no process in service and spawns none.
LEMMA CoverKept ==
    ASSUME NEW c \in Caller, CoverOf(c), nproc' = nproc,
           RunningProcs' \subseteq RunningProcs,
           \A h \in Hash : boot'[h] = "spawned" =>
             boot[h] = "spawned" /\ bootProc'[h] = bootProc[h],
           stopAll'[c].covered = stopAll[c].covered,
           stopAll'[c].boots \subseteq stopAll[c].boots,
           \/ stopAll'[c].pc = stopAll[c].pc
           \/ stopAll[c].pc = "stops" /\ stopAll'[c].pc = "done"
    PROVE  CoverOf(c)'
BY DEF CoverOf

\* A settled boot: who awaited it knows what it produced.
LEMMA SettleCover ==
    ASSUME TypeOK, NEW h \in Hash, NEW P, SettleBoot(h, P), NEW c \in Caller
    PROVE  /\ stopAll'[c].pc = stopAll[c].pc
           /\ stopAll'[c].boots \subseteq stopAll[c].boots
           /\ stopAll'[c].covered = stopAll[c].covered \cup
                (IF h \in stopAll[c].boots THEN P ELSE {})
<1>1. stopAll[c] \in StopAllCall
  BY DEF TypeOK
<1>2. stopAll'[c] = IF h \in stopAll[c].boots
                    THEN [stopAll[c] EXCEPT !.boots = @ \ {h}, !.covered = @ \cup P]
                    ELSE stopAll[c]
  BY DEF SettleBoot
<1> QED
  BY <1>1, <1>2 DEF StopAllCall

\* A stopAll call that starts covers what runs, which no boot has spawned.
LEMMA StartCovers ==
    ASSUME IInv, CoverShape, NEW c \in Caller, StopAllStarts(c),
           UNCHANGED <<running, boot, bootProc, nproc>>
    PROVE  CoverShape'
<1> SUFFICES ASSUME NEW d \in Caller
             PROVE  CoverOf(d)'
  BY DEF CoverShape
<1>1. RunningProcs' = RunningProcs /\ RunningProcs \subseteq 1 .. nproc
  BY RunningSpawned DEF RunningProcs
<1>2. stopAll \in [Caller -> StopAllCall] /\ CoverOf(d)
  BY DEF IInv, TypeOK, CoverShape
<1>3. CASE d = c
  <2>1. /\ stopAll'[c].pc = "boots" /\ stopAll'[c].covered = RunningProcs
    BY <1>2 DEF StopAllStarts
  <2>2. ASSUME NEW h \in Hash, boot[h] = "spawned", bootProc[h] \in RunningProcs
        PROVE  FALSE
    <3>1. PICK g \in Hash : running[g] = bootProc[h] /\ running[g] # None
      BY <2>2 DEF RunningProcs
    <3>2. procHash[running[g]] = g /\ boot[g] = "none" /\ procHash[bootProc[h]] = h
      BY <2>2, <3>1 DEF IInv, HandleShape, BootShape
    <3> QED
      BY <2>2, <3>1, <3>2
  <2> QED
    BY <1>1, <1>3, <2>1, <2>2 DEF CoverOf
<1>4. CASE d # c
  <2>1. stopAll'[d] = stopAll[d]
    BY <1>2, <1>4 DEF StopAllStarts
  <2> QED
    BY <1>1, <1>2, <2>1, CoverKept
<1> QED
  BY <1>3, <1>4

\* An agent that becomes ready is covered by the calls that awaited its boot,
\* and they have stopped nothing yet.
LEMMA ReadyCovers ==
    ASSUME IInv, CoverShape, NEW h \in Hash, BootReady(h)
    PROVE  CoverShape'
<1> SUFFICES ASSUME NEW c \in Caller
             PROVE  CoverOf(c)'
  BY DEF CoverShape
<1>1. CoverOf(c)
  BY DEF CoverShape
<1>2. PICK p : p = bootProc[h]
  OBVIOUS
<1>3. p \in 1 .. nproc /\ procHash[p] = h /\ boot[h] = "spawned"
  BY <1>2 DEF BootReady, IInv, BootShape
<1>4. /\ stopAll'[c].pc = stopAll[c].pc
      /\ stopAll'[c].boots \subseteq stopAll[c].boots
      /\ stopAll'[c].covered = stopAll[c].covered \cup
           (IF h \in stopAll[c].boots THEN {p} ELSE {})
  BY <1>2, SettleCover DEF BootReady, IInv
<1>5. \A g \in Hash : boot'[g] = "spawned" =>
        g # h /\ boot[g] = "spawned" /\ bootProc'[g] = bootProc[g] /\ bootProc[g] # p
  BY <1>3 DEF BootReady, IInv, TypeOK, BootShape
<1>6. RunningProcs' \subseteq RunningProcs \cup {p}
  BY <1>2 DEF BootReady, RunningProcs, IInv, TypeOK
<1>7. nproc' = nproc
  BY DEF BootReady, procVars
<1>8. stopAll[c].pc # "boots" => h \notin stopAll[c].boots
  BY <1>1 DEF CoverOf
<1>9. p \notin stopAll[c].covered
  BY <1>1, <1>2, <1>3 DEF CoverOf
<1> QED
  BY <1>1, <1>3, <1>4, <1>5, <1>6, <1>7, <1>8, <1>9 DEF CoverOf

\* A new process is in nobody's cover.
LEMMA SpawnCovers ==
    ASSUME IInv, CoverShape, NEW h \in Hash, Spawn(h)
    PROVE  CoverShape'
<1>1. nproc \in Nat /\ nproc' = nproc + 1 /\ UNCHANGED <<running, stopAll>>
  BY ManagerAssumption DEF Spawn, IInv, TypeOK
<1>2. \A g \in Hash : boot'[g] = "spawned" =>
        \/ bootProc'[g] = nproc + 1
        \/ boot[g] = "spawned" /\ bootProc'[g] = bootProc[g]
  BY DEF Spawn, IInv, TypeOK
<1>3. RunningProcs' = RunningProcs
  BY <1>1 DEF RunningProcs
<1> QED
  BY <1>1, <1>2, <1>3 DEF CoverShape, CoverOf

\* The stop of everything that runs.
LEMMA StopCovers ==
    ASSUME IInv, CoverShape, NEW c \in Caller, StopAllRunning(c)
    PROVE  CoverShape'
<1> SUFFICES ASSUME NEW d \in Caller
             PROVE  CoverOf(d)'
  BY DEF CoverShape
<1>1. CoverOf(d) /\ CoverOf(c) /\ stopAll \in [Caller -> StopAllCall]
  BY DEF CoverShape, IInv, TypeOK
<1>2. RunningProcs' = {}
  BY DEF StopAllRunning, BeginStop, RunningProcs, None
<1>3. UNCHANGED <<boot, bootProc, nproc>>
  BY DEF StopAllRunning, bootVars, procVars
<1>4. CASE d = c
  <2>1. /\ stopAll'[c].boots = {} /\ stopAll'[c].covered = stopAll[c].covered
    BY <1>1 DEF StopAllRunning, StopAllCall
  <2> QED
    BY <1>1, <1>2, <1>3, <1>4, <2>1 DEF CoverOf
<1>5. CASE d # c
  <2>1. stopAll'[d] = stopAll[d]
    BY <1>1, <1>5 DEF StopAllRunning
  <2> QED
    BY <1>1, <1>2, <1>3, <2>1, CoverKept
<1> QED
  BY <1>4, <1>5

\* The covers hold under every step.
LEMMA CoverStep ==
    ASSUME IInv, CoverShape, [Next]_vars
    PROVE  CoverShape'
<1> USE DEF bootVars, procVars, portVars, reqVars
<1>1. TypeOK /\ stopAll \in [Caller -> StopAllCall]
  BY DEF IInv, TypeOK
<1>2. ASSUME nproc' = nproc, RunningProcs' \subseteq RunningProcs,
             \A h \in Hash : boot'[h] = "spawned" =>
               boot[h] = "spawned" /\ bootProc'[h] = bootProc[h],
             \A c \in Caller :
               /\ stopAll'[c].covered = stopAll[c].covered
               /\ stopAll'[c].boots \subseteq stopAll[c].boots
               /\ \/ stopAll'[c].pc = stopAll[c].pc
                  \/ stopAll[c].pc = "stops" /\ stopAll'[c].pc = "done"
      PROVE  CoverShape'
  BY <1>2, CoverKept DEF CoverShape
<1>3. UNCHANGED running => RunningProcs' = RunningProcs
  BY DEF RunningProcs
<1>4. CASE UNCHANGED vars
  BY <1>2, <1>3, <1>4 DEF vars
<1>5. CASE \/ \E h \in Hash : EnsureAccepted(h)
           \/ \E r \in Req : EndRequest(r) \/ \E h \in Hash : BeginRequest(r, h)
           \/ Drain \/ DrainNotified
  BY <1>2, <1>3, <1>5 DEF EnsureAccepted, EndRequest, BeginRequest, Drain, DrainNotified
<1>6. ASSUME NEW h \in Hash, EnsureAgent(h)
      PROVE  CoverShape'
  BY <1>1, <1>2, <1>3, <1>6 DEF EnsureAgent, TypeOK
<1>7. ASSUME NEW h \in Hash, NEW held, AbandonBoot(h, held), UNCHANGED <<running, nproc>>
      PROVE  CoverShape'
  <2>1. \A c \in Caller : /\ stopAll'[c].pc = stopAll[c].pc
                          /\ stopAll'[c].boots \subseteq stopAll[c].boots
                          /\ stopAll'[c].covered = stopAll[c].covered
    <3>1. SettleBoot(h, {})
      BY <1>7 DEF AbandonBoot
    <3>2. \A c \in Caller :
            /\ stopAll'[c].pc = stopAll[c].pc
            /\ stopAll'[c].boots \subseteq stopAll[c].boots
            /\ stopAll'[c].covered = stopAll[c].covered \cup
                 (IF h \in stopAll[c].boots THEN {} ELSE {})
      BY <1>1, <3>1, SettleCover
    <3> QED
      BY <3>2
  <2>2. \A g \in Hash : boot'[g] = "spawned" =>
          boot[g] = "spawned" /\ bootProc'[g] = bootProc[g]
    BY <1>1, <1>7 DEF AbandonBoot, TypeOK
  <2> QED
    BY <1>2, <1>3, <1>7, <2>1, <2>2
<1>8. ASSUME NEW h \in Hash, AllocateAndProbe(h, allocated), UNCHANGED <<running, nproc>>
      PROVE  CoverShape'
  <2>1. CASE Port \ allocated = {}
    BY <1>7, <1>8, <2>1 DEF AllocateAndProbe
  <2>2. CASE Port \ allocated # {}
    BY <1>1, <1>2, <1>3, <1>8, <2>2 DEF AllocateAndProbe, TypeOK
  <2> QED
    BY <2>1, <2>2
<1>9. ASSUME NEW h \in Hash, ArtifactReady(h) \/ ArtifactFails(h) \/ ProbeBurns(h)
                             \/ BootFails(h)
      PROVE  CoverShape'
  BY <1>7, <1>8, <1>9 DEF ArtifactReady, ArtifactFails, ProbeBurns, BootFails
<1>10. ASSUME NEW p \in Proc, ProcessExits(p)
       PROVE  CoverShape'
  <2>1. RunningProcs' \subseteq RunningProcs
    BY <1>1, <1>10 DEF ProcessExits, RunningProcs, TypeOK
  <2> QED
    BY <1>2, <1>10, <2>1 DEF ProcessExits
<1>11. ASSUME NEW p \in Proc, StopReturns(p)
       PROVE  CoverShape'
  <2>1. \A c \in Caller : stopAll'[c] = [stopAll[c] EXCEPT !.stops = @ \ {p}]
    BY <1>11 DEF StopReturns
  <2>2. \A c \in Caller : /\ stopAll'[c].pc = stopAll[c].pc
                          /\ stopAll'[c].boots = stopAll[c].boots
                          /\ stopAll'[c].covered = stopAll[c].covered
    BY <1>1, <2>1 DEF StopAllCall
  <2> QED
    BY <1>2, <1>3, <1>11, <2>2 DEF StopReturns
<1>12. ASSUME NEW h \in Hash, IdleSweep(h)
       PROVE  CoverShape'
  <2>1. RunningProcs' \subseteq RunningProcs
    BY <1>12 DEF IdleSweep, BeginStop, RunningProcs
  <2> QED
    BY <1>2, <1>12, <2>1 DEF IdleSweep
<1>13. ASSUME NEW c \in Caller, StopAllReturns(c)
       PROVE  CoverShape'
  <2>1. \A d \in Caller : /\ stopAll'[d].covered = stopAll[d].covered
                          /\ stopAll'[d].boots = stopAll[d].boots
                          /\ \/ stopAll'[d].pc = stopAll[d].pc
                             \/ stopAll[d].pc = "stops" /\ stopAll'[d].pc = "done"
    BY <1>1, <1>13 DEF StopAllReturns, StopAllCall
  <2> QED
    BY <1>2, <1>3, <1>13, <2>1 DEF StopAllReturns
<1>14. CASE Fenced \/ DrainStops
  BY <1>14, StartCovers DEF Fenced, DrainStops, Caller
<1>15. CASE Reregister
  <2>1. \A d \in Caller : stopAll'[d] = stopAll[d] \/ stopAll'[d] = IdleStopAll
    BY <1>1, <1>15 DEF Reregister
  <2>2. UNCHANGED <<running, boot, bootProc, nproc>>
    BY <1>15 DEF Reregister
  <2> QED
    BY <1>3, <2>1, <2>2 DEF CoverShape, CoverOf, IdleStopAll
<1> QED
  BY <1>4, <1>5, <1>6, <1>9, <1>10, <1>11, <1>12, <1>13, <1>14, <1>15, ReadyCovers,
     SpawnCovers, StopCovers DEF Next

\* StopAllCovers: when stopAll returns, no agent that ran or was booting at its
\* call is in service, for every pool and whatever boots, exits or is ensured
\* meanwhile.
THEOREM StopAllSound == Spec => []StopAllCovers
<1>1. Init => CoverShape
  BY DEF Init, CoverShape, CoverOf, IdleStopAll
<1>2. CoverShape => StopAllCovers
  BY DEF CoverShape, CoverOf, StopAllCovers
<1>3. IInv /\ CoverShape /\ [Next]_vars => CoverShape'
  BY CoverStep
<1> QED
  BY <1>1, <1>2, <1>3, Inductive, PTL DEF Spec

=============================================================================
