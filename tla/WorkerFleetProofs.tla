-------------------------- MODULE WorkerFleetProofs --------------------------
(***************************************************************************)
(* What WorkerFleet promises, for any number of workers, sessions and      *)
(* faults.  Of a worker the invariant says what its calls, the late one    *)
(* included, may still do to its row (Loop) and where the agents of its    *)
(* former life are (Fenced); of a session, that the sweeper's pass and the *)
(* dispatches hand its run to each other (Passing, Handed).                *)
(***************************************************************************)
EXTENDS WorkerFleet, TLAPS

\* Row r of a worker, its process p, its call c and its late call l.  A call
\* given up on keeps the loop quiet; a register is sent, and can arrive, only
\* while the process does not know that it is registered; agents are stopped
\* while the row is dead.
Loop(r, p, c, l) ==
    /\ l # NoCall => c = NoCall
    /\ c.kind = "register" \/ l.kind = "register" => ~p.reg
    /\ c.kind = "fence" => r.st = "dead" /\ ~p.reg

\* Agents of a former life run on a process that has yet to hear that it is
\* dead, that is stopping all of them, or that took itself for unregistered.
Fenced(r, p, c) ==
    /\ p.old \subseteq p.agents
    /\ p.drain = "left" \/ ~p.up => p.agents = {}
    /\ p.reg /\ p.old # {} /\ ~p.unaware => r.st = "dead"
    /\ ~p.reg /\ p.old # {} /\ ~p.unaware => c.kind = "fence" /\ p.old \subseteq c.hashes

WorkerOK(r, p, c, l) == Loop(r, p, c, l) /\ Fenced(r, p, c)

\* A pass has one row of a session; the row of a run that is no longer the
\* session's is of one that a dispatch has replaced.
Passing ==
    /\ \A t, u \in sweep.todo : t.s = u.s => t = u
    /\ \A t \in sweep.todo : t.gen # ses[t.s].gen => ~ses[t.s].dropped
    /\ sweep.pc \in {"idle", "scan", "rows"} => sweep.s = None
    /\ sweep.pc \in {"clear", "ensure", "point"} => sweep.s \in Session
    /\ sweep.pc \in {"ensure", "point"} =>
         sweep.w \in Worker /\ \E t \in sweep.todo : t.s = sweep.s

\* The pass answers only for the run whose tail it detached.
Handed ==
    \A s \in Session : ses[s].run \in {"queued", "running"} =>
        \/ req[s] # NoReq
        \/ ses[s].tail # None
        \/ ses[s].dropped
        \/ /\ sweep.s = s /\ sweep.pc \in {"ensure", "point"}
           /\ \E t \in sweep.todo : t.s = s /\ t.gen = ses[s].gen

IInv ==
    /\ TypeOK
    /\ \A w \in Worker : WorkerOK(row[w], wk[w], call[w], late[w])
    /\ Passing /\ Handed

-----------------------------------------------------------------------------

\* The fleet starts registered and idle.
LEMMA InitIInv == Init => IInv
<1> SUFFICES ASSUME Init PROVE IInv
  OBVIOUS
<1> USE FleetAssumption DEF Init
<1>1. TypeOK
  <2>1. [NewProcess EXCEPT !.reg = TRUE] \in Process
    BY DEF NewProcess, Process
  <2>2. NoCall \in CallType /\ NoReq \in Request /\ IdleSweep \in Pass
    BY DEF NoCall, CallType, Request, IdleSweep, Pass
  <2>3. row \in [Worker -> RowType]
    BY DEF RowType
  <2>4. ses \in [Session -> SessionRow]
    BY DEF SessionRow, RunStatus
  <2>5. wk \in [Worker -> Process]
    BY <2>1
  <2>6. call \in [Worker -> CallType] /\ late \in [Worker -> CallType] /\ req \in [Session -> Request]
    BY <2>2
  <2>7. resv \in [Worker -> SUBSET Hash] /\ sweep \in Pass /\ faults \in 0..MaxFaults
    BY <2>2
  <2> QED
    BY <2>3, <2>4, <2>5, <2>6, <2>7 DEF TypeOK
<1>2. \A w \in Worker : WorkerOK(row[w], wk[w], call[w], late[w])
  BY DEF WorkerOK, Loop, Fenced, NoCall, NewProcess
<1>3. Passing /\ Handed
  BY DEF Passing, Handed, IdleSweep
<1> QED
  BY <1>1, <1>2, <1>3 DEF IInv

\* A step that leaves sessions, dispatches and the pass alone hands nothing on.
LEMMA SessionFrame ==
    ASSUME Passing, Handed, UNCHANGED <<ses, req, sweep>>
    PROVE  Passing' /\ Handed'
BY DEF Passing, Handed

\* The handlers keep rows typed, end no death but by a register, and drain
\* for good.
LEMMA HandledRow ==
    ASSUME TypeOK, NEW w \in Worker, NEW c \in CallType
    PROVE  /\ Handled(w, c) \in RowType
           /\ c.kind # "register" /\ row[w].st = "dead" => Handled(w, c).st = "dead"
           /\ c.kind # "register" /\ row[w].st # "live" => Handled(w, c).st # "live"
<1>1. row[w] \in RowType
  BY DEF TypeOK
<1>2. CASE c.kind = "register"
  BY <1>2 DEF Handled, RowType, CallType
<1>3. CASE c.kind = "heartbeat" /\ row[w].st # "dead"
  <2>1. Handled(w, c) = [st |-> HeartbeatStatus(row[w].st, c), fresh |-> TRUE, hashes |-> c.hashes]
    BY <1>3 DEF Handled
  <2>2. HeartbeatStatus(row[w].st, c) \in {"draining", row[w].st}
    BY DEF HeartbeatStatus
  <2> QED
    BY <1>1, <1>3, <2>1, <2>2 DEF RowType, CallType
<1>4. CASE c.kind # "register" /\ ~(c.kind = "heartbeat" /\ row[w].st # "dead")
  <2>1. Handled(w, c) = row[w]
    BY <1>4 DEF Handled
  <2> QED
    BY <1>1, <1>4, <2>1
<1> QED
  BY <1>2, <1>3, <1>4

\* What a tick sends.
LEMMA BodyTyped ==
    ASSUME TypeOK, NEW w \in Worker
    PROVE  /\ Body(w) \in CallType /\ Body(w) # NoCall
           /\ Body(w).kind \in {"register", "heartbeat"}
           /\ Body(w).kind = "register" => ~wk[w].reg
           /\ Body(w).kind = "heartbeat" => wk[w].reg
<1>1. (wk[w].drain # "no") \in BOOLEAN /\ wk[w].agents \in SUBSET Hash
  BY DEF TypeOK, Process
<1> DEFINE d == wk[w].drain # "no"
           k == IF wk[w].reg THEN "heartbeat" ELSE "register"
<1>2. Body(w) = [kind |-> k, hashes |-> wk[w].agents, drain |-> d]
  BY DEF Body
<1> HIDE DEF d
<1>3. d \in BOOLEAN
  BY <1>1 DEF d
<1>4. k \in {"register", "heartbeat"} /\ (k = "register" => ~wk[w].reg) /\ (k = "heartbeat" => wk[w].reg)
  BY DEF TypeOK, Process
<1> HIDE DEF k
<1>5. Body(w) \in CallType /\ Body(w).kind = k
  BY <1>1, <1>2, <1>3, <1>4 DEF CallType
<1>6. NoCall.kind = "none"
  BY DEF NoCall
<1> QED
  BY <1>4, <1>5, <1>6

\* A step of one worker.
LEMMA WorkerStep ==
    ASSUME IInv, UNCHANGED <<resv, ses, req, sweep>>, faults' \in 0..MaxFaults,
           NEW w \in Worker,
           NEW r \in RowType, NEW p \in Process, NEW c \in CallType, NEW l \in CallType,
           row' = [row EXCEPT ![w] = r], wk' = [wk EXCEPT ![w] = p],
           call' = [call EXCEPT ![w] = c], late' = [late EXCEPT ![w] = l],
           WorkerOK(r, p, c, l)
    PROVE  IInv'
<1>1. TypeOK'
  BY DEF IInv, TypeOK
<1>2. \A v \in Worker : WorkerOK(row[v], wk[v], call[v], late[v])'
  BY DEF IInv, TypeOK
<1>3. Passing' /\ Handed'
  BY SessionFrame DEF IInv
<1> QED
  BY <1>1, <1>2, <1>3 DEF IInv

\* What a step leaves alone, it sets to what it was.
LEMMA Untouched ==
    ASSUME IInv, NEW w \in Worker
    PROVE  /\ row = [row EXCEPT ![w] = row[w]] /\ wk = [wk EXCEPT ![w] = wk[w]]
           /\ call = [call EXCEPT ![w] = call[w]] /\ late = [late EXCEPT ![w] = late[w]]
           /\ row[w] \in RowType /\ wk[w] \in Process /\ call[w] \in CallType /\ late[w] \in CallType
           /\ NoCall \in CallType /\ NoCall.kind = "none"
           /\ Loop(row[w], wk[w], call[w], late[w]) /\ Fenced(row[w], wk[w], call[w])
           /\ TypeOK /\ faults \in 0..MaxFaults
BY DEF IInv, WorkerOK, TypeOK, NoCall, CallType

\* A call is handled: a register makes the row live, and its sender has no
\* agents of a former life.
LEMMA SucceedsIInv ==
    ASSUME IInv, NEW w \in Worker, NEW c \in CallType, Succeeds(w, c),
           call' = [call EXCEPT ![w] = NoCall],
           c.kind \in {"register", "heartbeat"}, c.kind = "register" => ~wk[w].reg,
           call[w].kind # "fence", late[w] = NoCall,
           UNCHANGED <<late, resv, ses, req, sweep, faults>>
    PROVE  IInv'
<1>1. TypeOK /\ Loop(row[w], wk[w], call[w], late[w]) /\ Fenced(row[w], wk[w], call[w])
  BY Untouched
<1> DEFINE p == [wk[w] EXCEPT !.reg = TRUE]
<1>2. /\ p \in Process /\ p.old = wk[w].old /\ p.agents = wk[w].agents /\ p.drain = wk[w].drain
      /\ p.unaware = wk[w].unaware
      /\ p.up = wk[w].up /\ wk' = [wk EXCEPT ![w] = p]
  BY <1>1 DEF TypeOK, Process, Succeeds
<1>3. row' = [row EXCEPT ![w] = Handled(w, c)]
  BY DEF Succeeds
<1>4. /\ Handled(w, c) \in RowType
      /\ c.kind # "register" /\ row[w].st = "dead" => Handled(w, c).st = "dead"
  BY <1>1, HandledRow
<1>5. wk[w].old # {} /\ ~wk[w].unaware => row[w].st = "dead" /\ c.kind # "register"
  BY <1>1, Untouched DEF Fenced, Loop
<1> HIDE DEF p
<1>6. faults' \in 0..MaxFaults /\ late' = [late EXCEPT ![w] = NoCall]
  BY <1>1, Untouched DEF TypeOK
<1>7. p.old # {} => p.unaware
  BY <1>2, <1>5 DEF Succeeds, Gone
<1>8. WorkerOK(Handled(w, c), p, NoCall, NoCall)
  BY <1>1, <1>2, <1>7, Untouched DEF WorkerOK, Loop, Fenced
<1> QED
  BY <1>2, <1>3, <1>4, <1>6, <1>8, Untouched, WorkerStep

\* A heartbeat answered 404: the agents are being stopped, every one.
LEMMA RefusedIInv ==
    ASSUME IInv, NEW w \in Worker, NEW c \in CallType, Refused(w, c),
           late[w] = NoCall,
           UNCHANGED <<late, resv, ses, req, sweep, faults>>
    PROVE  IInv'
<1>1. TypeOK /\ Loop(row[w], wk[w], call[w], late[w]) /\ Fenced(row[w], wk[w], call[w])
  BY Untouched
<1> DEFINE p == [wk[w] EXCEPT !.reg = FALSE]
           f == [NoCall EXCEPT !.kind = "fence", !.hashes = Fencing(w)]
<1>2. /\ p \in Process /\ p.old = wk[w].old /\ p.agents = wk[w].agents /\ p.drain = wk[w].drain
      /\ p.unaware = wk[w].unaware
      /\ p.up = wk[w].up /\ ~p.reg /\ wk' = [wk EXCEPT ![w] = p]
  BY <1>1 DEF TypeOK, Process, Refused
<1>3. /\ f \in CallType /\ f.kind = "fence" /\ f.hashes = wk[w].agents
      /\ call' = [call EXCEPT ![w] = f]
  BY <1>1, Untouched DEF TypeOK, Process, Refused, Fencing, NoCall, CallType
<1>4. row[w].st = "dead" /\ row' = row
  BY DEF Refused, Gone
<1> HIDE DEF p, f
<1>5. faults' \in 0..MaxFaults /\ late' = [late EXCEPT ![w] = NoCall] /\ row' = [row EXCEPT ![w] = row[w]]
  BY <1>1, <1>4, Untouched DEF TypeOK
<1>6. WorkerOK(row[w], p, f, NoCall)
  BY <1>1, <1>2, <1>3, <1>4, Untouched DEF WorkerOK, Loop, Fenced
<1> QED
  BY <1>2, <1>3, <1>5, <1>6, Untouched, WorkerStep

\* The registration loop's tick, answered at once.
LEMMA TickIInv ==
    ASSUME IInv, NEW w \in Worker, Tick(w)
    PROVE  IInv'
<1>1. TypeOK /\ call[w] = NoCall /\ late[w] = NoCall /\ NoCall.kind = "none"
  BY Untouched DEF IInv, Tick, Ticks
<1>2. CASE Succeeds(w, Body(w)) /\ UNCHANGED call
  <2>1. call' = [call EXCEPT ![w] = NoCall]
    BY <1>1, <1>2, Untouched
  <2> QED
    BY <1>1, <1>2, <2>1, BodyTyped, SucceedsIInv DEF Tick
<1>3. CASE Refused(w, Body(w))
  BY <1>1, <1>3, BodyTyped, RefusedIInv DEF Tick
<1> QED
  BY <1>2, <1>3 DEF Tick

\* A tick whose answer takes a while.
LEMMA TickSendIInv ==
    ASSUME IInv, NEW w \in Worker, TickSend(w)
    PROVE  IInv'
<1>1. TypeOK /\ Loop(row[w], wk[w], call[w], late[w]) /\ Fenced(row[w], wk[w], call[w])
  BY Untouched
<1>2. call[w] = NoCall /\ late[w] = NoCall /\ NoCall.kind = "none" /\ call' = [call EXCEPT ![w] = Body(w)]
  BY <1>1, Untouched DEF TickSend, Ticks
<1>3. faults' \in 0..MaxFaults
  BY FleetAssumption DEF TickSend, IInv, TypeOK
<1>4. UNCHANGED <<row, wk, late, resv, ses, req, sweep>>
  BY DEF TickSend
<1>5. /\ row' = [row EXCEPT ![w] = row[w]] /\ wk' = [wk EXCEPT ![w] = wk[w]]
      /\ late' = [late EXCEPT ![w] = NoCall]
  BY <1>1, <1>2, <1>4, Untouched
<1>6. WorkerOK(row[w], wk[w], Body(w), NoCall)
  BY <1>1, <1>2, Untouched, BodyTyped DEF WorkerOK, Loop, Fenced
<1>7. row[w] \in RowType /\ wk[w] \in Process /\ Body(w) \in CallType /\ NoCall \in CallType
  BY <1>1, Untouched, BodyTyped
<1> QED
  BY <1>2, <1>3, <1>4, <1>5, <1>6, <1>7, WorkerStep

\* A call under way is answered.
LEMMA TickAnsweredIInv ==
    ASSUME IInv, NEW w \in Worker, TickAnswered(w)
    PROVE  IInv'
<1>1. /\ call[w].kind \in {"register", "heartbeat"} /\ call[w] \in CallType /\ NoCall.kind = "none"
      /\ Loop(row[w], wk[w], call[w], late[w])
  BY Untouched DEF TickAnswered, Calling
<1>2. late[w] = NoCall /\ (call[w].kind = "register" => ~wk[w].reg) /\ call[w].kind # "fence"
  BY <1>1 DEF Loop
<1>3. UNCHANGED <<late, resv, ses, req, sweep, faults>>
  BY DEF TickAnswered
<1>4. CASE Succeeds(w, call[w]) /\ call' = [call EXCEPT ![w] = NoCall]
  BY <1>1, <1>2, <1>3, <1>4, SucceedsIInv
<1>5. CASE Refused(w, call[w])
  BY <1>1, <1>2, <1>3, <1>5, RefusedIInv
<1> QED
  BY <1>4, <1>5 DEF TickAnswered

\* onFenced is done: nothing of the former life is left.
LEMMA FenceDoneIInv ==
    ASSUME IInv, NEW w \in Worker, FenceDone(w)
    PROVE  IInv'
<1> DEFINE p == [wk[w] EXCEPT !.agents = @ \ call[w].hashes, !.old = @ \ call[w].hashes]
<1>1. /\ row[w] \in RowType /\ wk[w] \in Process /\ call[w] \in CallType /\ late[w] \in CallType
      /\ NoCall \in CallType /\ NoCall.kind = "none"
      /\ Loop(row[w], wk[w], call[w], late[w]) /\ Fenced(row[w], wk[w], call[w])
  BY Untouched
<1>2. /\ call[w].kind = "fence" /\ call' = [call EXCEPT ![w] = NoCall]
      /\ UNCHANGED <<row, late, resv, ses, req, sweep, faults>>
  BY DEF FenceDone
<1>3. wk' = [wk EXCEPT ![w] = p] /\ p \in Process
  BY <1>1 DEF FenceDone, IInv, TypeOK, Process
<1>4. /\ p.agents = wk[w].agents \ call[w].hashes /\ p.old = wk[w].old \ call[w].hashes
      /\ p.reg = wk[w].reg /\ p.drain = wk[w].drain /\ p.up = wk[w].up /\ p.unaware = wk[w].unaware
  BY <1>1 DEF Process
<1> HIDE DEF p
<1>5. WorkerOK(row[w], p, NoCall, late[w])
  <2>1. ~p.reg /\ (p.old = {} \/ p.unaware) /\ late[w] = NoCall
    BY <1>1, <1>2, <1>4 DEF Loop, Fenced
  <2> QED
    BY <1>1, <1>4, <2>1 DEF WorkerOK, Loop, Fenced
<1>6. row' = [row EXCEPT ![w] = row[w]] /\ late' = [late EXCEPT ![w] = late[w]] /\ faults' \in 0..MaxFaults
  BY <1>2, Untouched
<1> QED
  BY <1>1, <1>2, <1>3, <1>5, <1>6, WorkerStep

\* A call whose answer never comes; it may be handled now or later.
LEMMA TickLostIInv ==
    ASSUME IInv, NEW w \in Worker, TickLost(w)
    PROVE  IInv'
<1>1. /\ row[w] \in RowType /\ wk[w] \in Process /\ call[w] \in CallType /\ late[w] \in CallType
      /\ NoCall \in CallType /\ NoCall.kind = "none"
      /\ Loop(row[w], wk[w], call[w], late[w]) /\ Fenced(row[w], wk[w], call[w])
  BY Untouched
<1>2. /\ call[w].kind \in {"register", "heartbeat"} /\ call' = [call EXCEPT ![w] = NoCall]
      /\ UNCHANGED <<wk, resv, ses, req, sweep, faults>>
  BY DEF TickLost, Calling
<1>3. wk' = [wk EXCEPT ![w] = wk[w]] /\ faults' \in 0..MaxFaults
  BY <1>2, Untouched
<1>4. late[w] = NoCall
  BY <1>1, <1>2 DEF Loop
<1>5. CASE row' = row
  <2>1. late' = [late EXCEPT ![w] = late[w]] \/ late' = [late EXCEPT ![w] = call[w]]
    BY Untouched DEF TickLost
  <2>2. row' = [row EXCEPT ![w] = row[w]]
    BY <1>5, Untouched
  <2>3. WorkerOK(row[w], wk[w], NoCall, late[w]) /\ WorkerOK(row[w], wk[w], NoCall, call[w])
    BY <1>1, <1>2, <1>4 DEF WorkerOK, Loop, Fenced
  <2> QED
    BY <1>1, <1>2, <1>3, <2>1, <2>2, <2>3, WorkerStep
<1>6. CASE row' # row
  <2>1. row' = [row EXCEPT ![w] = Handled(w, call[w])] /\ late' = late
    BY <1>6 DEF TickLost
  <2>2. /\ Handled(w, call[w]) \in RowType
        /\ call[w].kind # "register" /\ row[w].st = "dead" => Handled(w, call[w]).st = "dead"
    BY <1>1, HandledRow DEF IInv
  <2>3. WorkerOK(Handled(w, call[w]), wk[w], NoCall, late[w])
    BY <1>1, <1>2, <1>4, <2>2 DEF WorkerOK, Loop, Fenced
  <2>4. late' = [late EXCEPT ![w] = late[w]]
    BY <2>1, Untouched
  <2> QED
    BY <1>1, <1>2, <1>3, <2>1, <2>2, <2>3, <2>4, WorkerStep
<1> QED
  BY <1>5, <1>6

\* The late call arrives: its sender has sent nothing since.
LEMMA LateHandledIInv ==
    ASSUME IInv, NEW w \in Worker, LateHandled(w)
    PROVE  IInv'
<1>1. /\ row[w] \in RowType /\ wk[w] \in Process /\ call[w] \in CallType /\ late[w] \in CallType
      /\ NoCall \in CallType /\ NoCall.kind = "none"
      /\ Loop(row[w], wk[w], call[w], late[w]) /\ Fenced(row[w], wk[w], call[w])
  BY Untouched
<1>2. /\ call[w] = NoCall /\ late' = [late EXCEPT ![w] = NoCall]
      /\ row' = [row EXCEPT ![w] = Handled(w, late[w])]
      /\ UNCHANGED <<wk, call, resv, ses, req, sweep, faults>>
  BY <1>1 DEF LateHandled, Loop
<1>3. /\ wk' = [wk EXCEPT ![w] = wk[w]] /\ call' = [call EXCEPT ![w] = NoCall]
      /\ faults' \in 0..MaxFaults
  BY <1>2, Untouched
<1>4. /\ Handled(w, late[w]) \in RowType
      /\ late[w].kind # "register" /\ row[w].st = "dead" => Handled(w, late[w]).st = "dead"
  BY <1>1, HandledRow DEF IInv
<1>5. WorkerOK(Handled(w, late[w]), wk[w], NoCall, NoCall)
  BY <1>1, <1>2, <1>4 DEF WorkerOK, Loop, Fenced
<1> QED
  BY <1>1, <1>2, <1>3, <1>4, <1>5, WorkerStep

\* The drain's own heartbeat ends no death, at once or late.
LEMMA DrainBeginIInv ==
    ASSUME IInv, NEW w \in Worker, DrainBegin(w)
    PROVE  IInv'
<1> DEFINE p == [wk[w] EXCEPT !.drain = "told"]
           b == [kind |-> "heartbeat", hashes |-> wk[w].agents, drain |-> TRUE]
<1>1. /\ row[w] \in RowType /\ wk[w] \in Process /\ call[w] \in CallType /\ late[w] \in CallType
      /\ NoCall \in CallType /\ NoCall.kind = "none"
      /\ Loop(row[w], wk[w], call[w], late[w]) /\ Fenced(row[w], wk[w], call[w])
  BY Untouched
<1>2. /\ wk[w].up /\ wk[w].drain = "no" /\ wk' = [wk EXCEPT ![w] = p]
      /\ UNCHANGED <<call, resv, ses, req, sweep>>
  BY DEF DrainBegin
<1>3. faults' \in 0..MaxFaults
  BY FleetAssumption DEF DrainBegin, IInv, TypeOK
<1>4. /\ p \in Process /\ p.agents = wk[w].agents /\ p.old = wk[w].old /\ p.reg = wk[w].reg
      /\ p.drain = "told" /\ p.up = wk[w].up /\ p.unaware = wk[w].unaware
  BY <1>1 DEF Process
<1>5. b \in CallType /\ b.kind = "heartbeat"
  BY <1>1 DEF Process, CallType
<1>0. \/ row' = row /\ late' = late
      \/ row' = [row EXCEPT ![w] = Handled(w, b)] /\ late' = late
      \/ row' = row /\ call[w] = NoCall /\ late' = [late EXCEPT ![w] = b]
  BY DEF DrainBegin
<1> HIDE DEF p, b
<1>6. /\ call' = [call EXCEPT ![w] = call[w]] /\ wk' = [wk EXCEPT ![w] = p] /\ p \in Process
      /\ UNCHANGED <<resv, ses, req, sweep>>
  BY <1>2, <1>4, Untouched
<1>7. CASE row' = [row EXCEPT ![w] = Handled(w, b)] /\ late' = late
  <2>1. Handled(w, b) \in RowType /\ (row[w].st = "dead" => Handled(w, b).st = "dead")
    BY <1>1, <1>5, HandledRow DEF IInv
  <2>2. WorkerOK(Handled(w, b), p, call[w], late[w])
    BY <1>1, <1>2, <1>4, <2>1 DEF WorkerOK, Loop, Fenced
  <2>3. late' = [late EXCEPT ![w] = late[w]]
    BY <1>7, Untouched
  <2> QED
    BY <1>1, <1>3, <1>6, <1>7, <2>1, <2>2, <2>3, WorkerStep
<1>8. CASE row' = row /\ late' = late
  <2>1. row' = [row EXCEPT ![w] = row[w]] /\ late' = [late EXCEPT ![w] = late[w]]
    BY <1>8, Untouched
  <2>2. WorkerOK(row[w], p, call[w], late[w])
    BY <1>1, <1>2, <1>4 DEF WorkerOK, Loop, Fenced
  <2> QED
    BY <1>1, <1>3, <1>6, <2>1, <2>2, WorkerStep
<1>9. CASE row' = row /\ call[w] = NoCall /\ late' = [late EXCEPT ![w] = b]
  <2>1. row' = [row EXCEPT ![w] = row[w]]
    BY <1>9, Untouched
  <2>2. WorkerOK(row[w], p, call[w], b)
    BY <1>1, <1>2, <1>4, <1>5, <1>9 DEF WorkerOK, Loop, Fenced
  <2> QED
    BY <1>1, <1>3, <1>5, <1>6, <1>9, <2>1, <2>2, WorkerStep
<1> QED
  BY <1>0, <1>7, <1>8, <1>9

\* Agents H of w are stopped, and nothing else happens.
Stopped(w, H, d) ==
    /\ wk' = [wk EXCEPT ![w] = [wk[w] EXCEPT !.drain = d, !.agents = wk[w].agents \ H,
                                             !.old = wk[w].old \ H]]
    /\ UNCHANGED <<row, call, late, resv, ses, req, sweep, faults>>

\* stopAll at the end of the drain, and the reaper: fewer agents, fewer old ones.
LEMMA StopsIInv ==
    ASSUME IInv, NEW w \in Worker, NEW H \in SUBSET Hash, NEW d \in {"no", "told", "left"},
           d = "left" => wk[w].agents \ H = {}, Stopped(w, H, d)
    PROVE  IInv'
<1> DEFINE p == [wk[w] EXCEPT !.drain = d, !.agents = wk[w].agents \ H, !.old = wk[w].old \ H]
<1>1. /\ row[w] \in RowType /\ wk[w] \in Process /\ call[w] \in CallType /\ late[w] \in CallType
      /\ Loop(row[w], wk[w], call[w], late[w]) /\ Fenced(row[w], wk[w], call[w])
  BY Untouched
<1>2. /\ p \in Process /\ p.agents = wk[w].agents \ H /\ p.old = wk[w].old \ H
      /\ p.reg = wk[w].reg /\ p.drain = d /\ p.up = wk[w].up /\ p.unaware = wk[w].unaware /\ wk' = [wk EXCEPT ![w] = p]
  BY <1>1 DEF Process, Stopped
<1> HIDE DEF p
<1>3. WorkerOK(row[w], p, call[w], late[w])
  BY <1>1, <1>2 DEF WorkerOK, Loop, Fenced
<1>4. /\ row' = [row EXCEPT ![w] = row[w]] /\ call' = [call EXCEPT ![w] = call[w]]
      /\ late' = [late EXCEPT ![w] = late[w]] /\ faults' \in 0..MaxFaults
  BY Untouched DEF Stopped
<1>5. p \in Process /\ wk' = [wk EXCEPT ![w] = p] /\ UNCHANGED <<resv, ses, req, sweep>>
  BY <1>2 DEF Stopped
<1> QED
  BY <1>1, <1>3, <1>4, <1>5, WorkerStep

\* The drain's stopAll.
LEMMA DrainStopsIInv ==
    ASSUME IInv, NEW w \in Worker, DrainStops(w)
    PROVE  IInv'
<1>1. wk[w] \in Process
  BY Untouched
<1>2. wk' = [wk EXCEPT ![w] = [wk[w] EXCEPT !.drain = "left", !.agents = wk[w].agents \ Hash,
                                            !.old = wk[w].old \ Hash]]
  BY <1>1 DEF DrainStops, Process
<1>3. wk[w].agents \ Hash = {} /\ UNCHANGED <<row, call, late, resv, ses, req, sweep, faults>>
  BY <1>1 DEF DrainStops, Process
<1> QED
  BY <1>1, <1>2, <1>3, StopsIInv DEF Stopped

\* The idle reaper.
LEMMA ReapIInv ==
    ASSUME IInv, NEW w \in Worker, NEW h \in Hash, Reap(w, h)
    PROVE  IInv'
<1>1. wk[w] \in Process /\ wk[w].drain = "no"
  BY Untouched DEF Reap
<1>2. wk' = [wk EXCEPT ![w] = [wk[w] EXCEPT !.drain = "no", !.agents = wk[w].agents \ {h},
                                            !.old = wk[w].old \ {h}]]
  BY <1>1 DEF Reap, Process
<1>3. UNCHANGED <<row, call, late, resv, ses, req, sweep, faults>> /\ {h} \in SUBSET Hash
  BY DEF Reap
<1> QED
  BY <1>1, <1>2, <1>3, StopsIInv DEF Stopped

\* The process goes, draining or not; what it had under way may still arrive.
LEMMA GoesIInv ==
    ASSUME IInv, NEW w \in Worker, NEW r \in RowType, NEW p \in Process,
           p.agents = {}, p.old = {}, ~p.reg,
           row' = [row EXCEPT ![w] = r], wk' = [wk EXCEPT ![w] = p],
           late' = [late EXCEPT ![w] = Straggler(w)], call' = [call EXCEPT ![w] = NoCall],
           faults' \in 0..MaxFaults, UNCHANGED <<resv, ses, req, sweep>>
    PROVE  IInv'
<1>1. /\ call[w] \in CallType /\ late[w] \in CallType /\ NoCall \in CallType /\ NoCall.kind = "none"
  BY Untouched
<1>2. Straggler(w) \in CallType
  BY <1>1 DEF Straggler
<1>3. WorkerOK(r, p, NoCall, Straggler(w))
  BY <1>1 DEF WorkerOK, Loop, Fenced
<1> QED
  BY <1>1, <1>2, <1>3, WorkerStep

\* A drained process deregisters and exits; it has no agent left.
LEMMA DeregisterIInv ==
    ASSUME IInv, NEW w \in Worker, Deregister(w)
    PROVE  IInv'
<1> DEFINE r == [row[w] EXCEPT !.st = "dead"]
           p == [wk[w] EXCEPT !.up = FALSE, !.reg = FALSE]
<1>1. row[w] \in RowType /\ wk[w] \in Process /\ Fenced(row[w], wk[w], call[w])
  BY Untouched
<1>2. r \in RowType /\ p \in Process /\ p.agents = wk[w].agents /\ p.old = wk[w].old /\ ~p.reg
  BY <1>1 DEF RowType, Process
<1>3. wk[w].agents = {} /\ wk[w].old = {}
  BY <1>1 DEF Deregister, Fenced
<1>4. /\ row' = [row EXCEPT ![w] = r] /\ wk' = [wk EXCEPT ![w] = p]
      /\ late' = [late EXCEPT ![w] = Straggler(w)] /\ call' = [call EXCEPT ![w] = NoCall]
      /\ UNCHANGED <<resv, ses, req, sweep>>
  BY DEF Deregister, IInv, TypeOK
<1>5. faults' \in 0..MaxFaults
  BY DEF Deregister, IInv, TypeOK
<1> HIDE DEF r, p
<1> QED
  BY <1>2, <1>3, <1>4, <1>5, GoesIInv

\* The process dies.
LEMMA CrashIInv ==
    ASSUME IInv, NEW w \in Worker, Crash(w)
    PROVE  IInv'
<1> DEFINE p == [NewProcess EXCEPT !.up = FALSE]
<1>1. p \in Process /\ p.agents = {} /\ p.old = {} /\ ~p.reg
  BY DEF NewProcess, Process
<1>2. row[w] \in RowType /\ row' = [row EXCEPT ![w] = row[w]]
  BY Untouched DEF Crash
<1>3. faults' \in 0..MaxFaults
  BY FleetAssumption DEF Crash, IInv, TypeOK
<1>4. /\ wk' = [wk EXCEPT ![w] = p]
      /\ late' = [late EXCEPT ![w] = Straggler(w)] /\ call' = [call EXCEPT ![w] = NoCall]
      /\ UNCHANGED <<resv, ses, req, sweep>>
  BY DEF Crash
<1> HIDE DEF p
<1> QED
  BY <1>1, <1>2, <1>3, <1>4, GoesIInv

\* A new process knows nothing.
LEMMA BootIInv ==
    ASSUME IInv, NEW w \in Worker, Boot(w)
    PROVE  IInv'
<1>1. /\ row[w] \in RowType /\ wk[w] \in Process /\ call[w] \in CallType /\ late[w] \in CallType
      /\ Loop(row[w], wk[w], call[w], late[w]) /\ Fenced(row[w], wk[w], call[w])
      /\ row' = [row EXCEPT ![w] = row[w]] /\ call' = [call EXCEPT ![w] = call[w]]
      /\ late' = [late EXCEPT ![w] = late[w]] /\ faults' \in 0..MaxFaults
  BY Untouched DEF Boot
<1>2. NewProcess \in Process /\ NewProcess.agents = {} /\ NewProcess.old = {} /\ ~NewProcess.reg
  BY DEF NewProcess, Process
<1>3. NewProcess.drain = "no" /\ NewProcess.up
  BY DEF NewProcess
<1>4. WorkerOK(row[w], NewProcess, call[w], late[w])
  BY <1>1, <1>2, <1>3 DEF WorkerOK, Loop, Fenced
<1>5. wk' = [wk EXCEPT ![w] = NewProcess] /\ UNCHANGED <<resv, ses, req, sweep>>
  BY DEF Boot
<1> QED
  BY <1>1, <1>2, <1>4, <1>5, WorkerStep

\* The heartbeat grows too old.
LEMMA LapseIInv ==
    ASSUME IInv, NEW w \in Worker, Lapse(w)
    PROVE  IInv'
<1> DEFINE r == [row[w] EXCEPT !.fresh = FALSE]
<1>1. /\ row[w] \in RowType /\ wk[w] \in Process /\ call[w] \in CallType /\ late[w] \in CallType
      /\ Loop(row[w], wk[w], call[w], late[w]) /\ Fenced(row[w], wk[w], call[w])
      /\ wk' = [wk EXCEPT ![w] = wk[w]] /\ call' = [call EXCEPT ![w] = call[w]]
      /\ late' = [late EXCEPT ![w] = late[w]]
  BY Untouched DEF Lapse
<1>2. r \in RowType /\ r.st = row[w].st
  BY <1>1 DEF RowType
<1>3. faults' \in 0..MaxFaults
  BY FleetAssumption DEF Lapse, IInv, TypeOK
<1>4. row' = [row EXCEPT ![w] = r] /\ UNCHANGED <<resv, ses, req, sweep>>
  BY DEF Lapse, IInv, TypeOK
<1> HIDE DEF r
<1>5. WorkerOK(r, wk[w], call[w], late[w])
  BY <1>1, <1>2 DEF WorkerOK, Loop, Fenced
<1> QED
  BY <1>1, <1>2, <1>3, <1>4, <1>5, WorkerStep

-----------------------------------------------------------------------------

\* Placement picks a worker, and what it reserves are hashes.
LEMMA Placement ==
    ASSUME TypeOK, NEW h \in Hash, NEW a
    PROVE  /\ pickWorker(h, a) \subseteq Worker
           /\ \A w \in Worker : Reserved(h, a, w) \in [Worker -> SUBSET Hash]
<1>1. pickWorker(h, a) \subseteq Worker
  BY DEF pickWorker, Sticky, WarmWorkers, ColdWorkers, LiveWorkers
<1>2. ASSUME NEW w \in Worker PROVE Reserved(h, a, w) \in [Worker -> SUBSET Hash]
  BY DEF Reserved, reserved, TypeOK, RowType
<1> QED
  BY <1>1, <1>2

\* Every worker is as it was.
LEMMA WorkersFrame ==
    ASSUME IInv, UNCHANGED <<row, wk, call, late>>
    PROVE  /\ wk' \in [Worker -> Process]
           /\ \A w \in Worker : WorkerOK(row[w], wk[w], call[w], late[w])'
BY DEF IInv, TypeOK

\* A process that takes an ensure is up and not draining; its new agent is not
\* of a former life.
LEMMA EnsureKeepsWorkers ==
    ASSUME IInv, NEW w \in Worker, NEW h \in Hash, Ensures(w, h),
           wk' = [wk EXCEPT ![w].agents = @ \cup {h}], UNCHANGED <<row, call, late>>
    PROVE  /\ wk' \in [Worker -> Process]
           /\ \A v \in Worker : WorkerOK(row[v], wk[v], call[v], late[v])'
<1> DEFINE p == [wk[w] EXCEPT !.agents = @ \cup {h}]
<1>1. wk[w] \in Process /\ wk' = [wk EXCEPT ![w] = p]
  BY DEF IInv, TypeOK
<1>2. /\ p \in Process /\ p.agents = wk[w].agents \cup {h} /\ p.old = wk[w].old /\ p.reg = wk[w].reg
      /\ p.unaware = wk[w].unaware
      /\ p.drain = wk[w].drain /\ p.up = wk[w].up
  BY <1>1 DEF Process
<1> HIDE DEF p
<1>3. WorkerOK(row[w], p, call[w], late[w])
  BY <1>2 DEF Ensures, IInv, WorkerOK, Loop, Fenced
<1> QED
  BY <1>1, <1>2, <1>3 DEF IInv, TypeOK

\* A step of one session: a run that is queued or running afterwards has a
\* dispatch or a tail, and only the pass marks a run as dropped.
LEMMA SessionStep ==
    ASSUME IInv, UNCHANGED <<row, call, late, sweep, faults>>, resv' \in [Worker -> SUBSET Hash],
           wk' \in [Worker -> Process],
           \A w \in Worker : WorkerOK(row[w], wk[w], call[w], late[w])',
           NEW s \in Session, NEW x \in SessionRow, NEW q \in Request,
           ses' = [ses EXCEPT ![s] = x], req' = [req EXCEPT ![s] = q],
           x.run \in {"queued", "running"} => q # NoReq \/ x.tail # None,
           x.dropped => x.gen = ses[s].gen /\ ses[s].dropped
    PROVE  IInv'
<1>1. TypeOK'
  BY DEF IInv, TypeOK
<1>2. /\ ses'[s] = x /\ req'[s] = q
      /\ \A z \in Session : z # s => ses'[z] = ses[z] /\ req'[z] = req[z]
  BY DEF IInv, TypeOK
<1>3. Passing'
  <2>1. \A t \in sweep.todo : t.s \in Session
    BY DEF IInv, TypeOK, Pass, Scanned
  <2> QED
    BY <1>2, <2>1 DEF IInv, Passing
<1>4. Handed'
  BY <1>2 DEF IInv, Handed
<1> QED
  BY <1>1, <1>3, <1>4 DEF IInv

\* What a session's step leaves alone, it sets to what it was.
LEMMA SessionUntouched ==
    ASSUME IInv, NEW s \in Session
    PROVE  /\ ses = [ses EXCEPT ![s] = ses[s]] /\ req = [req EXCEPT ![s] = req[s]]
           /\ ses[s] \in SessionRow /\ req[s] \in Request /\ NoReq \in Request
           /\ resv \in [Worker -> SUBSET Hash] /\ HashOf[s] \in Hash /\ TypeOK
BY FleetAssumption DEF IInv, TypeOK, Request

\* A new run is queued with its dispatch.
LEMMA DispatchIInv ==
    ASSUME IInv, NEW s \in Session, Dispatch(s)
    PROVE  IInv'
<1>1. PICK w \in pickWorker(HashOf[s], ses[s].aff) :
         /\ resv' = Reserved(HashOf[s], ses[s].aff, w)
         /\ req' = [req EXCEPT ![s] = [w |-> w, st |-> "ensure"]]
         /\ ses' = [ses EXCEPT ![s].run = "queued", ![s].gen = @ + 1,
                               ![s].dropped = FALSE,
                               ![s].aff = IF ses[s].eve THEN @ ELSE w]
  BY DEF Dispatch
<1> DEFINE a == IF ses[s].eve THEN ses[s].aff ELSE w
           x == [ses[s] EXCEPT !.run = "queued", !.gen = ses[s].gen + 1, !.dropped = FALSE, !.aff = a]
           q == [w |-> w, st |-> "ensure"]
<1>2. w \in Worker /\ ses[s] \in SessionRow /\ resv' \in [Worker -> SUBSET Hash]
  BY <1>1, Placement, SessionUntouched
<1>3. ses' = [ses EXCEPT ![s] = x]
  BY <1>1, <1>2 DEF SessionRow, IInv, TypeOK
<1>4. ses[s].gen + 1 \in 0..MaxRuns /\ a \in Worker \cup {None}
  BY <1>2, FleetAssumption DEF Dispatch, SessionRow
<1>5. x \in SessionRow /\ x.run = "queued" /\ ~x.dropped
  BY <1>2, <1>4 DEF SessionRow, RunStatus, RunLive
<1>6. q \in Request /\ q # NoReq
  BY <1>2 DEF Request, NoReq
<1>7. UNCHANGED <<row, wk, call, late, sweep, faults>>
  BY DEF Dispatch
<1> HIDE DEF x, q
<1>8. req' = [req EXCEPT ![s] = q]
  BY <1>1 DEF q
<1> QED
  BY <1>2, <1>3, <1>5, <1>6, <1>7, <1>8, WorkersFrame, SessionStep

\* So is a parked run that is answered.
LEMMA AnswerInputIInv ==
    ASSUME IInv, NEW s \in Session, AnswerInput(s)
    PROVE  IInv'
<1>1. PICK w \in pickWorker(HashOf[s], ses[s].aff) :
         /\ resv' = Reserved(HashOf[s], ses[s].aff, w)
         /\ req' = [req EXCEPT ![s] = [w |-> w, st |-> "ensure"]]
  BY DEF AnswerInput
<1> DEFINE x == [ses[s] EXCEPT !.run = "queued", !.dropped = FALSE]
           q == [w |-> w, st |-> "ensure"]
<1>2. w \in Worker /\ ses[s] \in SessionRow /\ resv' \in [Worker -> SUBSET Hash]
  BY <1>1, Placement, SessionUntouched
<1>3. ses' = [ses EXCEPT ![s] = x]
  BY <1>2 DEF AnswerInput, IInv, TypeOK
<1>5. x \in SessionRow /\ x.run = "queued" /\ ~x.dropped
  BY <1>2 DEF SessionRow, RunStatus, RunLive
<1>6. q \in Request /\ q # NoReq
  BY <1>2 DEF Request, NoReq
<1>7. UNCHANGED <<row, wk, call, late, sweep, faults>>
  BY DEF AnswerInput
<1> HIDE DEF x, q
<1>8. req' = [req EXCEPT ![s] = q]
  BY <1>1 DEF q
<1> QED
  BY <1>2, <1>3, <1>5, <1>6, <1>7, <1>8, WorkersFrame, SessionStep

\* A settled run is nobody's to hold.
LEMMA Settled ==
    ASSUME NEW r \in RunStatus, NEW st \in {"failed", "canceled", "succeeded"}
    PROVE  settle(r, st) \in RunStatus /\ settle(r, st) \notin {"queued", "running"}
BY DEF settle, RunStatus, RunLive

\* A dispatch that fails settles its run.
LEMMA DispatchFailsIInv ==
    ASSUME IInv, NEW s \in Session, DispatchFails(s),
           UNCHANGED <<row, wk, call, late, resv, sweep, faults>>
    PROVE  IInv'
<1> DEFINE x == [ses[s] EXCEPT !.run = settle(ses[s].run, "failed")]
<1>1. ses[s] \in SessionRow /\ resv' \in [Worker -> SUBSET Hash] /\ NoReq \in Request
  BY SessionUntouched
<1>2. settle(ses[s].run, "failed") \in RunStatus /\ settle(ses[s].run, "failed") \notin {"queued", "running"}
  BY <1>1, Settled DEF SessionRow
<1>3. /\ x \in SessionRow /\ x.run \notin {"queued", "running"}
      /\ x.dropped = ses[s].dropped /\ x.gen = ses[s].gen
  BY <1>1, <1>2 DEF SessionRow
<1>4. ses' = [ses EXCEPT ![s] = x] /\ req' = [req EXCEPT ![s] = NoReq]
  BY DEF DispatchFails, IInv, TypeOK
<1> HIDE DEF x
<1> QED
  BY <1>1, <1>3, <1>4, WorkersFrame, SessionStep

\* The ensure of a dispatch.
LEMMA ReqEnsureIInv ==
    ASSUME IInv, NEW s \in Session, ReqEnsure(s)
    PROVE  IInv'
<1>1. /\ ses = [ses EXCEPT ![s] = ses[s]] /\ ses[s] \in SessionRow /\ req[s] \in Request
      /\ HashOf[s] \in Hash /\ resv' \in [Worker -> SUBSET Hash] /\ NoReq.st = "none"
      /\ req[s].st = "ensure" /\ UNCHANGED <<row, call, late, resv, sweep, faults>>
  BY SessionUntouched DEF ReqEnsure, NoReq
<1>2. req[s].w \in Worker /\ req[s] # NoReq
  BY <1>1 DEF Request
<1>3. CASE /\ Ensures(req[s].w, HashOf[s])
           /\ wk' = [wk EXCEPT ![req[s].w].agents = @ \cup {HashOf[s]}]
           /\ req' = [req EXCEPT ![s].st = "send"]
           /\ UNCHANGED ses
  <2> DEFINE q == [req[s] EXCEPT !.st = "send"]
  <2>1. q \in Request /\ q.st = "send"
    BY <1>1, <1>2 DEF Request
  <2>2. req' = [req EXCEPT ![s] = q]
    BY <1>3 DEF IInv, TypeOK
  <2> HIDE DEF q
  <2>3. q # NoReq
    BY <1>1, <2>1
  <2>4. /\ wk' \in [Worker -> Process]
        /\ \A v \in Worker : WorkerOK(row[v], wk[v], call[v], late[v])'
    BY <1>1, <1>2, <1>3, EnsureKeepsWorkers
  <2>5. ses' = [ses EXCEPT ![s] = ses[s]]
    BY <1>1, <1>3
  <2> QED
    BY <1>1, <2>1, <2>2, <2>3, <2>4, <2>5, SessionStep
<1>4. CASE DispatchFails(s) /\ UNCHANGED wk
  BY <1>1, <1>4, DispatchFailsIInv
<1> QED
  BY <1>3, <1>4 DEF ReqEnsure

\* The send of a dispatch.
LEMMA ReqSendIInv ==
    ASSUME IInv, NEW s \in Session, ReqSend(s)
    PROVE  IInv'
<1>1. /\ ses = [ses EXCEPT ![s] = ses[s]] /\ ses[s] \in SessionRow /\ req[s] \in Request
      /\ resv' \in [Worker -> SUBSET Hash] /\ NoReq.st = "none"
      /\ req[s].st = "send" /\ UNCHANGED <<row, wk, call, late, resv, sweep, faults>>
  BY SessionUntouched DEF ReqSend, NoReq
<1>2. CASE req' = [req EXCEPT ![s].st = "persist"] /\ UNCHANGED ses
  <2> DEFINE q == [req[s] EXCEPT !.st = "persist"]
  <2>1. q \in Request /\ q.st = "persist"
    BY <1>1 DEF Request
  <2>2. req' = [req EXCEPT ![s] = q]
    BY <1>2 DEF IInv, TypeOK
  <2> HIDE DEF q
  <2>3. q # NoReq /\ ses' = [ses EXCEPT ![s] = ses[s]]
    BY <1>1, <1>2, <2>1
  <2> QED
    BY <1>1, <2>1, <2>2, <2>3, WorkersFrame, SessionStep
<1>3. CASE DispatchFails(s)
  BY <1>1, <1>3, DispatchFailsIInv
<1> QED
  BY <1>2, <1>3 DEF ReqSend

\* A dispatch is done: a run that is live now has its tail.
LEMMA ReqPersistIInv ==
    ASSUME IInv, NEW s \in Session, ReqPersist(s)
    PROVE  IInv'
<1> DEFINE run == IF ses[s].run \in RunLive THEN "running" ELSE ses[s].run
           tail == IF ses[s].run \in RunLive /\ ses[s].tail = None THEN req[s].w ELSE ses[s].tail
           x == [ses[s] EXCEPT !.eve = TRUE, !.aff = req[s].w, !.run = run, !.tail = tail]
<1>1. /\ ses[s] \in SessionRow /\ req[s] \in Request /\ NoReq.st = "none" /\ NoReq \in Request
      /\ resv' \in [Worker -> SUBSET Hash]
      /\ req[s].st = "persist" /\ UNCHANGED <<row, wk, call, late, resv, sweep, faults>>
  BY SessionUntouched DEF ReqPersist, NoReq
<1>2. req[s].w \in Worker
  BY <1>1 DEF Request
<1>3. /\ run \in RunStatus /\ tail \in Worker \cup {None}
      /\ run \in {"queued", "running"} => tail # None
  BY <1>1, <1>2, FleetAssumption DEF SessionRow, RunStatus, RunLive, None
<1>4. ses' = [ses EXCEPT ![s] = x] /\ req' = [req EXCEPT ![s] = NoReq]
  BY DEF ReqPersist, IInv, TypeOK
<1> HIDE DEF run, tail
<1>5. /\ x \in SessionRow /\ x.run = run /\ x.tail = tail
      /\ x.dropped = ses[s].dropped /\ x.gen = ses[s].gen
  BY <1>1, <1>2, <1>3 DEF SessionRow
<1> HIDE DEF x
<1>6. x.run \in {"queued", "running"} => x.tail # None
  BY <1>3, <1>5
<1> QED
  BY <1>1, <1>4, <1>5, <1>6, WorkersFrame, SessionStep

\* The run of s is now st, its tail is gone, and nothing else happens.
Ended(s, st) ==
    /\ ses' = [ses EXCEPT ![s].run = st, ![s].tail = None]
    /\ UNCHANGED <<row, wk, call, late, resv, req, sweep, faults>>

\* A run that is settled or parked needs no tail.
LEMMA RunEnds ==
    ASSUME IInv, NEW s \in Session, NEW st \in RunStatus, st \notin {"queued", "running"},
           Ended(s, st)
    PROVE  IInv'
<1> DEFINE x == [ses[s] EXCEPT !.run = st, !.tail = None]
<1>1. /\ ses[s] \in SessionRow /\ req[s] \in Request /\ req' = [req EXCEPT ![s] = req[s]]
      /\ resv' \in [Worker -> SUBSET Hash]
  BY SessionUntouched DEF Ended
<1>2. /\ x \in SessionRow /\ x.run \notin {"queued", "running"}
      /\ x.dropped = ses[s].dropped /\ x.gen = ses[s].gen
  BY <1>1 DEF SessionRow
<1>3. ses' = [ses EXCEPT ![s] = x] /\ UNCHANGED <<row, wk, call, late, sweep, faults>>
  BY DEF Ended, IInv, TypeOK
<1> HIDE DEF x
<1>4. /\ wk' \in [Worker -> Process]
      /\ \A w \in Worker : WorkerOK(row[w], wk[w], call[w], late[w])'
  BY <1>3, WorkersFrame
<1> QED
  BY <1>1, <1>2, <1>3, <1>4, SessionStep

\* The turn's boundary, a lost stream, a Stop.
LEMMA EndsIInv ==
    ASSUME IInv, NEW s \in Session, TurnEnds(s) \/ TailLost(s) \/ Stop(s)
    PROVE  IInv'
<1>1. ses[s].run \in RunStatus
  BY SessionUntouched DEF SessionRow
<1>2. CASE TurnEnds(s)
  <2>1. PICK st \in {"succeeded", "waiting"} : ses' = [ses EXCEPT ![s].run = st, ![s].tail = None]
    BY <1>2 DEF TurnEnds
  <2> QED
    BY <1>2, <2>1, RunEnds DEF TurnEnds, Ended, RunStatus, RunLive
<1>3. CASE TailLost(s)
  <2>1. ses' = [ses EXCEPT ![s].run = settle(ses[s].run, "failed"), ![s].tail = None]
    BY <1>3 DEF TailLost
  <2> QED
    BY <1>1, <1>3, <2>1, Settled, RunEnds DEF TailLost, Ended
<1>4. CASE Stop(s)
  <2>1. "canceled" \in RunStatus /\ "canceled" \notin {"queued", "running"}
    BY DEF RunStatus
  <2>2. Ended(s, "canceled")
    BY <1>4 DEF Stop, Ended
  <2> QED
    BY <2>1, <2>2, RunEnds
<1> QED
  BY <1>2, <1>3, <1>4

\* A reservation's TTL runs out.
LEMMA ReservationLapsesIInv ==
    ASSUME IInv, NEW w \in Worker, NEW h \in Hash, ReservationLapses(w, h)
    PROVE  IInv'
<1>1. resv' \in [Worker -> SUBSET Hash]
  BY DEF ReservationLapses, IInv, TypeOK
<1>2. UNCHANGED <<row, wk, call, late, ses, req, sweep, faults>>
  BY DEF ReservationLapses
<1>3. TypeOK'
  BY <1>1, <1>2 DEF IInv, TypeOK
<1> QED
  BY <1>2, <1>3, WorkersFrame, SessionFrame DEF IInv

-----------------------------------------------------------------------------

\* A step of the pass on the row of one session.
LEMMA PassStep ==
    ASSUME IInv, UNCHANGED <<row, call, late, req, faults>>, resv' \in [Worker -> SUBSET Hash],
           wk' \in [Worker -> Process],
           \A w \in Worker : WorkerOK(row[w], wk[w], call[w], late[w])',
           NEW s \in Session, NEW x \in SessionRow, NEW p \in Pass,
           ses' = [ses EXCEPT ![s] = x], sweep' = p,
           sweep.pc \in {"ensure", "point"} => sweep.s = s,
           p.todo \subseteq sweep.todo,
           p.pc \in {"idle", "scan", "rows"} => p.s = None,
           p.pc \in {"clear", "ensure", "point"} => p.s \in Session,
           p.pc \in {"ensure", "point"} => p.w \in Worker /\ \E t \in p.todo : t.s = p.s,
           x.gen = ses[s].gen,
           x.dropped => ses[s].dropped \/ \A t \in p.todo : t.s # s,
           x.run \in {"queued", "running"} =>
             \/ req[s] # NoReq \/ x.tail # None \/ x.dropped
             \/ /\ p.s = s /\ p.pc \in {"ensure", "point"}
                /\ \E t \in p.todo : t.s = s /\ t.gen = x.gen
    PROVE  IInv'
<1>1. TypeOK'
  BY DEF IInv, TypeOK
<1>2. ses'[s] = x /\ \A z \in Session : z # s => ses'[z] = ses[z]
  BY DEF IInv, TypeOK
<1>3. Passing'
  <2>1. \A t \in sweep.todo : t.s \in Session
    BY DEF IInv, TypeOK, Pass, Scanned
  <2> QED
    BY <1>2, <2>1 DEF IInv, Passing
<1>4. Handed'
  BY <1>2 DEF IInv, Handed
<1> QED
  BY <1>1, <1>3, <1>4 DEF IInv

\* What the pass has found.
LEMMA ScannedRow ==
    ASSUME IInv, NEW t \in sweep.todo
    PROVE  /\ t \in Scanned /\ t.s \in Session /\ ses[t.s] \in SessionRow
           /\ ses = [ses EXCEPT ![t.s] = ses[t.s]]
           /\ sweep \in Pass /\ resv \in [Worker -> SUBSET Hash] /\ HashOf[t.s] \in Hash
BY FleetAssumption DEF IInv, TypeOK, Pass, Scanned

\* A parked run's affinity is cleared.
LEMMA SweepParkedIInv ==
    ASSUME IInv, NEW t \in sweep.todo, SweepParked(t)
    PROVE  IInv'
<1> DEFINE x == [ses[t.s] EXCEPT !.aff = None]
           p == [sweep EXCEPT !.todo = sweep.todo \ {t}]
<1>1. /\ t.s \in Session /\ ses[t.s] \in SessionRow /\ sweep \in Pass
      /\ resv' \in [Worker -> SUBSET Hash]
  BY ScannedRow DEF SweepParked
<1>2. /\ x \in SessionRow /\ x.run = ses[t.s].run /\ x.tail = ses[t.s].tail
      /\ x.dropped = ses[t.s].dropped /\ x.gen = ses[t.s].gen
  BY <1>1 DEF SessionRow
<1>3. sweep.pc = "rows" /\ sweep.s = None
  BY DEF SweepParked, IInv, Passing
<1>4. /\ p \in Pass /\ p.todo \subseteq sweep.todo /\ p.pc = "rows" /\ p.s = None
  BY <1>1, <1>3 DEF Pass
<1>5. /\ ses' = [ses EXCEPT ![t.s] = x] /\ sweep' = p
      /\ UNCHANGED <<row, wk, call, late, req, faults>>
  BY DEF SweepParked, IInv, TypeOK
<1> HIDE DEF x, p
<1>6. ses[t.s].run \in {"queued", "running"} =>
         req[t.s] # NoReq \/ ses[t.s].tail # None \/ ses[t.s].dropped
  BY <1>1, <1>3 DEF IInv, Handed
<1> QED
  BY <1>1, <1>2, <1>3, <1>4, <1>5, <1>6, WorkersFrame, PassStep

\* A run without an eve session fails; one that has replaced it is left alone.
LEMMA SweepEvelessIInv ==
    ASSUME IInv, NEW t \in sweep.todo, SweepEveless(t)
    PROVE  IInv'
<1> DEFINE run == IF ses[t.s].gen = t.gen THEN settle(ses[t.s].run, "failed") ELSE ses[t.s].run
           x == [ses[t.s] EXCEPT !.run = run]
           p == [sweep EXCEPT !.pc = "clear", !.todo = sweep.todo \ {t}, !.s = t.s]
<1>1. /\ t.s \in Session /\ ses[t.s] \in SessionRow /\ sweep \in Pass
      /\ resv' \in [Worker -> SUBSET Hash]
  BY ScannedRow DEF SweepEveless
<1>2. sweep.pc = "rows" /\ sweep.s = None
  BY DEF SweepEveless, IInv, Passing
<1>3. ses[t.s].run \in {"queued", "running"} =>
         req[t.s] # NoReq \/ ses[t.s].tail # None \/ ses[t.s].dropped
  BY <1>1, <1>2 DEF IInv, Handed
<1>4. /\ run \in RunStatus
      /\ run \in {"queued", "running"} =>
           req[t.s] # NoReq \/ ses[t.s].tail # None \/ ses[t.s].dropped
  BY <1>1, <1>3, Settled DEF SessionRow
<1>5. /\ ses' = [ses EXCEPT ![t.s] = x] /\ sweep' = p
      /\ UNCHANGED <<row, wk, call, late, req, faults>>
  BY DEF SweepEveless, IInv, TypeOK
<1> HIDE DEF run
<1>6. /\ x \in SessionRow /\ x.run = run /\ x.tail = ses[t.s].tail
      /\ x.dropped = ses[t.s].dropped /\ x.gen = ses[t.s].gen
  BY <1>1, <1>4 DEF SessionRow
<1>7. /\ p \in Pass /\ p.todo \subseteq sweep.todo /\ p.pc = "clear" /\ p.s = t.s
  BY <1>1, <1>2 DEF Pass
<1> HIDE DEF x, p
<1> QED
  BY <1>1, <1>2, <1>4, <1>5, <1>6, <1>7, WorkersFrame, PassStep

\* The affinity of its session is cleared next.
LEMMA SweepClearIInv ==
    ASSUME IInv, SweepClear
    PROVE  IInv'
<1> DEFINE s == sweep.s
           x == [ses[s] EXCEPT !.aff = None]
           p == [sweep EXCEPT !.pc = "rows", !.s = None]
<1>1. sweep.pc = "clear" /\ s \in Session
  BY DEF SweepClear, IInv, Passing
<1>2. ses[s] \in SessionRow /\ sweep \in Pass /\ resv' \in [Worker -> SUBSET Hash]
  BY <1>1 DEF SweepClear, IInv, TypeOK
<1>3. /\ x \in SessionRow /\ x.run = ses[s].run /\ x.tail = ses[s].tail
      /\ x.dropped = ses[s].dropped /\ x.gen = ses[s].gen
  BY <1>2 DEF SessionRow
<1>4. /\ p \in Pass /\ p.todo \subseteq sweep.todo /\ p.pc = "rows" /\ p.s = None
  BY <1>2 DEF Pass
<1>5. /\ ses' = [ses EXCEPT ![s] = x] /\ sweep' = p
      /\ UNCHANGED <<row, wk, call, late, req, faults>>
  BY DEF SweepClear, IInv, TypeOK
<1>6. ses[s].run \in {"queued", "running"} =>
         req[s] # NoReq \/ ses[s].tail # None \/ ses[s].dropped
  BY <1>1 DEF IInv, Handed
<1> HIDE DEF x, p, s
<1> QED
  BY <1>1, <1>2, <1>3, <1>4, <1>5, <1>6, WorkersFrame, PassStep

\* A stranded turn is deferred, or the pass takes it over from its stale tail.
LEMMA SweepPickIInv ==
    ASSUME IInv, NEW t \in sweep.todo, SweepPick(t)
    PROVE  IInv'
<1>1. /\ t.s \in Session /\ ses[t.s] \in SessionRow /\ sweep \in Pass /\ HashOf[t.s] \in Hash
      /\ ses = [ses EXCEPT ![t.s] = ses[t.s]] /\ resv \in [Worker -> SUBSET Hash] /\ TypeOK
  BY ScannedRow DEF IInv
<1>2. /\ sweep.pc = "rows" /\ sweep.s = None /\ UNCHANGED <<row, wk, call, late, req, faults>>
  BY DEF SweepPick, IInv, Passing
<1>3. ses[t.s].run \in {"queued", "running"} =>
         req[t.s] # NoReq \/ ses[t.s].tail # None \/ ses[t.s].dropped
  BY <1>1, <1>2 DEF IInv, Handed
<1>4. /\ wk' \in [Worker -> Process]
      /\ \A w \in Worker : WorkerOK(row[w], wk[w], call[w], late[w])'
  BY <1>2, WorkersFrame
<1>5. CASE sweep' = [sweep EXCEPT !.todo = @ \ {t}] /\ UNCHANGED <<resv, ses>>
  <2> DEFINE p == [sweep EXCEPT !.todo = sweep.todo \ {t}]
  <2>1. p \in Pass /\ p.todo \subseteq sweep.todo /\ p.pc = "rows" /\ p.s = None
    BY <1>1, <1>2 DEF Pass
  <2>2. sweep' = p /\ ses' = [ses EXCEPT ![t.s] = ses[t.s]] /\ resv' \in [Worker -> SUBSET Hash]
    BY <1>1, <1>5
  <2> HIDE DEF p
  <2> QED
    BY <1>1, <1>2, <1>3, <1>4, <2>1, <2>2, PassStep
<1>6. ASSUME NEW w \in pickWorker(HashOf[t.s], None),
             resv' = Reserved(HashOf[t.s], None, w),
             ses' = [ses EXCEPT ![t.s].tail = IF ses[t.s].gen = t.gen THEN None ELSE @],
             sweep' = [sweep EXCEPT !.pc = "ensure", !.s = t.s, !.w = w]
      PROVE  IInv'
  <2> DEFINE tail == IF ses[t.s].gen = t.gen THEN None ELSE ses[t.s].tail
             x == [ses[t.s] EXCEPT !.tail = tail]
             p == [sweep EXCEPT !.pc = "ensure", !.s = t.s, !.w = w]
  <2>1. w \in Worker /\ resv' \in [Worker -> SUBSET Hash]
    BY <1>1, <1>6, Placement
  <2>2. p \in Pass /\ p.todo = sweep.todo /\ p.pc = "ensure" /\ p.s = t.s /\ p.w = w
    BY <1>1, <2>1 DEF Pass
  <2>3. /\ tail \in Worker \cup {None}
        /\ tail = ses[t.s].tail \/ ses[t.s].gen = t.gen
    BY <1>1 DEF SessionRow
  <2>4. ses' = [ses EXCEPT ![t.s] = x] /\ sweep' = p
    BY <1>6 DEF IInv, TypeOK
  <2> HIDE DEF tail
  <2>5. /\ x \in SessionRow /\ x.run = ses[t.s].run /\ x.tail = tail
        /\ x.dropped = ses[t.s].dropped /\ x.gen = ses[t.s].gen
    BY <1>1, <2>3 DEF SessionRow
  <2> HIDE DEF x, p
  <2>6. \E u \in p.todo : u.s = p.s
    BY <2>2
  <2>7. x.run \in {"queued", "running"} =>
          \/ req[t.s] # NoReq \/ x.tail # None \/ x.dropped
          \/ \E u \in p.todo : u.s = t.s /\ u.gen = x.gen
    BY <1>3, <2>2, <2>3, <2>5
  <2>8. p.pc = "ensure" /\ p.s = t.s /\ p.w \in Worker /\ p \in Pass /\ p.todo \subseteq sweep.todo
    BY <2>1, <2>2
  <2>9. x \in SessionRow /\ x.gen = ses[t.s].gen /\ x.dropped = ses[t.s].dropped
    BY <2>5
  <2> QED
    BY <1>1, <1>2, <1>4, <2>1, <2>4, <2>6, <2>7, <2>8, <2>9, PassStep
<1> QED
  BY <1>5, <1>6 DEF SweepPick

\* The pass has one row of the session it is handling.
LEMMA CurrentRow ==
    ASSUME IInv, sweep.pc \in {"ensure", "point"}
    PROVE  /\ Current \in sweep.todo /\ Current.s = sweep.s
           /\ \A t \in sweep.todo : t.s = sweep.s => t = Current
           /\ sweep.s \in Session /\ sweep.w \in Worker /\ sweep \in Pass
           /\ ses[sweep.s] \in SessionRow /\ HashOf[sweep.s] \in Hash
           /\ ses = [ses EXCEPT ![sweep.s] = ses[sweep.s]] /\ resv \in [Worker -> SUBSET Hash]
<1>1. /\ \A t, u \in sweep.todo : t.s = u.s => t = u
      /\ \E t \in sweep.todo : t.s = sweep.s
      /\ sweep.s \in Session /\ sweep.w \in Worker
  BY DEF IInv, Passing
<1>2. Current \in sweep.todo /\ Current.s = sweep.s
  BY <1>1 DEF Current
<1> QED
  BY <1>1, <1>2, FleetAssumption DEF IInv, TypeOK

\* The failover's ensure: the session keeps its hands, or is marked dropped.
LEMMA SweepEnsureIInv ==
    ASSUME IInv, SweepEnsure
    PROVE  IInv'
<1> DEFINE s == sweep.s
           c == Current
<1>1. sweep.pc = "ensure" /\ UNCHANGED <<row, call, late, resv, req, faults>>
  BY DEF SweepEnsure
<1>2. /\ c \in sweep.todo /\ c.s = s
      /\ \A t \in sweep.todo : t.s = s => t = c
      /\ s \in Session /\ sweep.w \in Worker /\ sweep \in Pass
      /\ ses[s] \in SessionRow /\ HashOf[s] \in Hash
      /\ ses = [ses EXCEPT ![s] = ses[s]] /\ resv' \in [Worker -> SUBSET Hash]
  BY <1>1, CurrentRow
<1>3. CASE /\ Ensures(sweep.w, HashOf[s])
           /\ wk' = [wk EXCEPT ![sweep.w].agents = @ \cup {HashOf[s]}]
           /\ sweep' = [sweep EXCEPT !.pc = "point"]
           /\ UNCHANGED ses
  <2> DEFINE p == [sweep EXCEPT !.pc = "point"]
  <2>1. p \in Pass /\ p.todo = sweep.todo /\ p.pc = "point" /\ p.s = s /\ p.w = sweep.w
    BY <1>2 DEF Pass
  <2>2. sweep' = p /\ ses' = [ses EXCEPT ![s] = ses[s]]
    BY <1>2, <1>3
  <2>3. /\ wk' \in [Worker -> Process]
        /\ \A w \in Worker : WorkerOK(row[w], wk[w], call[w], late[w])'
    BY <1>1, <1>2, <1>3, EnsureKeepsWorkers
  <2>4. ses[s].run \in {"queued", "running"} =>
          \/ req[s] # NoReq \/ ses[s].tail # None \/ ses[s].dropped
          \/ \E t \in sweep.todo : t.s = s /\ t.gen = ses[s].gen
    BY <1>2 DEF IInv, Handed
  <2> HIDE DEF p, s, c
  <2>5. p.s = s /\ p.pc \in {"ensure", "point"} /\ sweep.s = s
    BY <2>1 DEF s
  <2>6. p.w \in Worker /\ \E t \in p.todo : t.s = p.s
    BY <1>2, <2>1, <2>5
  <2>7. ses[s].run \in {"queued", "running"} =>
          \/ req[s] # NoReq \/ ses[s].tail # None \/ ses[s].dropped
          \/ \E t \in p.todo : t.s = s /\ t.gen = ses[s].gen
    BY <2>1, <2>4
  <2> QED
    BY <1>1, <1>2, <2>1, <2>2, <2>3, <2>5, <2>6, <2>7, PassStep
<1>4. CASE /\ sweep' = [sweep EXCEPT !.pc = "rows", !.todo = @ \ {Current}, !.s = None, !.w = None]
           /\ ses' = [ses EXCEPT ![sweep.s].dropped = TRUE]
           /\ UNCHANGED wk
  <2> DEFINE p == [sweep EXCEPT !.pc = "rows", !.todo = sweep.todo \ {c}, !.s = None, !.w = None]
             x == [ses[s] EXCEPT !.dropped = TRUE]
  <2>1. p \in Pass /\ p.todo = sweep.todo \ {c} /\ p.pc = "rows" /\ p.s = None
    BY <1>2 DEF Pass
  <2>2. sweep' = p /\ ses' = [ses EXCEPT ![s] = x]
    BY <1>2, <1>4
  <2>3. x \in SessionRow /\ x.dropped /\ x.gen = ses[s].gen
    BY <1>2 DEF SessionRow
  <2>4. \A t \in p.todo : t.s # s
    BY <1>2, <2>1
  <2>5. /\ wk' \in [Worker -> Process]
        /\ \A w \in Worker : WorkerOK(row[w], wk[w], call[w], late[w])'
    BY <1>1, <1>4, WorkersFrame
  <2> HIDE DEF p, x, c
  <2> QED
    BY <1>1, <1>2, <2>1, <2>2, <2>3, <2>4, <2>5, PassStep
<1> QED
  BY <1>3, <1>4 DEF SweepEnsure

\* The session is re-pointed: the run of the scan has a tail again, and a run
\* that has replaced it has its own dispatch or tail.
LEMMA SweepPointIInv ==
    ASSUME IInv, SweepPoint
    PROVE  IInv'
<1> DEFINE s == sweep.s
           c == Current
           tail == IF Retail(c) /\ ses[s].tail = None THEN sweep.w ELSE ses[s].tail
           x == [ses[s] EXCEPT !.aff = sweep.w, !.dropped = FALSE, !.tail = tail]
           p == [sweep EXCEPT !.pc = "rows", !.todo = sweep.todo \ {c}, !.s = None, !.w = None]
<1>1. sweep.pc = "point" /\ UNCHANGED <<row, wk, call, late, resv, req, faults>>
  BY DEF SweepPoint
<1>2. /\ c \in sweep.todo /\ c.s = s
      /\ \A t \in sweep.todo : t.s = s => t = c
      /\ s \in Session /\ sweep.w \in Worker /\ sweep \in Pass
      /\ ses[s] \in SessionRow /\ resv' \in [Worker -> SUBSET Hash]
  BY <1>1, CurrentRow
<1>3. ses' = [ses EXCEPT ![s] = x] /\ sweep' = p
  BY DEF SweepPoint, IInv, TypeOK
<1>4. p \in Pass /\ p.todo = sweep.todo \ {c} /\ p.pc = "rows" /\ p.s = None
  BY <1>2 DEF Pass
<1>5. ses[s].run \in {"queued", "running"} => req[s] # NoReq \/ tail # None
  <2>1. sweep.w # None
    BY <1>2, FleetAssumption DEF None
  <2>2. SUFFICES ASSUME ses[s].run \in {"queued", "running"}, req[s] = NoReq, ses[s].tail = None
                 PROVE  Retail(c)
    BY <2>1
  <2>3. \/ ses[s].dropped
        \/ \E t \in sweep.todo : t.s = s /\ t.gen = ses[s].gen
    BY <1>2, <2>2 DEF IInv, Handed
  <2>4. c.gen # ses[s].gen => ~ses[s].dropped
    BY <1>2 DEF IInv, Passing
  <2>5. c.gen = ses[s].gen
    BY <1>2, <2>3, <2>4
  <2> QED
    BY <1>2, <2>2, <2>5 DEF Retail, RunLive
<1>6. tail \in Worker \cup {None}
  BY <1>2 DEF SessionRow
<1> HIDE DEF tail
<1>7. /\ x \in SessionRow /\ x.run = ses[s].run /\ x.tail = tail /\ ~x.dropped
      /\ x.gen = ses[s].gen
  BY <1>2, <1>6 DEF SessionRow
<1> HIDE DEF x, p, c
<1>8. /\ wk' \in [Worker -> Process]
      /\ \A w \in Worker : WorkerOK(row[w], wk[w], call[w], late[w])'
  BY <1>1, WorkersFrame
<1> QED
  BY <1>1, <1>2, <1>3, <1>4, <1>5, <1>7, <1>8, PassStep

\* Rows are marked dead: every agent is of a former life from now on, and a
\* process with agents that took itself for unregistered is marked so.
LEMMA SweepMarkIInv ==
    ASSUME IInv, SweepMark
    PROVE  IInv'
<1>1. /\ row' = [w \in Worker |-> IF Expired(w) THEN [row[w] EXCEPT !.st = "dead"] ELSE row[w]]
      /\ wk' = [w \in Worker |-> IF Expired(w)
            THEN [wk[w] EXCEPT !.old = wk[w].agents,
                               !.unaware = ~wk[w].reg /\ wk[w].agents # {}] ELSE wk[w]]
      /\ sweep.pc = "idle" /\ sweep' = [sweep EXCEPT !.pc = "scan"]
      /\ UNCHANGED <<call, late, resv, ses, req, faults>>
  BY DEF SweepMark
<1>2. ASSUME NEW w \in Worker
      PROVE  row'[w] \in RowType /\ wk'[w] \in Process /\ WorkerOK(row[w], wk[w], call[w], late[w])'
  <2>1. /\ row[w] \in RowType /\ wk[w] \in Process
        /\ Loop(row[w], wk[w], call[w], late[w]) /\ Fenced(row[w], wk[w], call[w])
    BY Untouched
  <2>2. call'[w] = call[w] /\ late'[w] = late[w]
    BY <1>1
  <2>3. CASE ~Expired(w)
    <3>1. row'[w] = row[w] /\ wk'[w] = wk[w]
      BY <1>1, <2>3
    <3> QED
      BY <2>1, <2>2, <3>1 DEF WorkerOK
  <2>4. CASE Expired(w)
    <3> DEFINE r == [row[w] EXCEPT !.st = "dead"]
               d == ~wk[w].reg /\ wk[w].agents # {}
               p == [wk[w] EXCEPT !.old = wk[w].agents, !.unaware = d]
    <3>1. row'[w] = r /\ wk'[w] = p
      BY <1>1, <2>4
    <3>2. r \in RowType /\ r.st = "dead"
      BY <2>1 DEF RowType
    <3> HIDE DEF d
    <3>3. /\ p \in Process /\ p.old = wk[w].agents /\ p.agents = wk[w].agents /\ p.reg = wk[w].reg
          /\ p.drain = wk[w].drain /\ p.up = wk[w].up /\ p.unaware = d
      <4>1. d \in BOOLEAN
        BY DEF d
      <4> QED
        BY <2>1, <4>1 DEF Process
    <3>5. d <=> ~wk[w].reg /\ wk[w].agents # {}
      BY DEF d
    <3> HIDE DEF r, p
    <3>4. WorkerOK(r, p, call[w], late[w])
      BY <2>1, <2>4, <3>2, <3>3, <3>5 DEF WorkerOK, Loop, Fenced, Expired
    <3> QED
      BY <2>2, <3>1, <3>2, <3>3, <3>4 DEF WorkerOK
  <2> QED
    BY <2>3, <2>4
<1>3. sweep' \in Pass /\ sweep'.pc = "scan" /\ sweep'.todo = sweep.todo /\ sweep'.s = sweep.s
  BY <1>1 DEF IInv, TypeOK, Pass
<1>4. row' \in [Worker -> RowType] /\ wk' \in [Worker -> Process]
  BY <1>1, <1>2
<1>5. TypeOK'
  BY <1>1, <1>3, <1>4 DEF IInv, TypeOK
<1>6. Passing' /\ Handed'
  BY <1>1, <1>3 DEF IInv, Passing, Handed
<1> QED
  BY <1>2, <1>5, <1>6 DEF IInv

\* The scan: one row of each stranded session, as it is now.
LEMMA SweepScanIInv ==
    ASSUME IInv, SweepScan
    PROVE  IInv'
<1> DEFINE Found(s) == [s |-> s, run |-> ses[s].run, gen |-> ses[s].gen, eve |-> ses[s].eve]
           todo == {Found(s) : s \in {t \in Session : Stranded(t)}}
<1>1. /\ sweep.pc = "scan" /\ sweep' = [sweep EXCEPT !.pc = "rows", !.todo = todo]
      /\ UNCHANGED <<row, wk, call, late, resv, ses, req, faults>>
  BY DEF SweepScan
<1>2. todo \in SUBSET Scanned /\ \A t \in todo : t = Found(t.s)
  BY DEF IInv, TypeOK, SessionRow, Scanned
<1>3. \A t \in todo : t.gen = ses[t.s].gen
  BY <1>2
<1>4. \A t, u \in todo : t.s = u.s => t = u
  BY <1>2
<1> HIDE DEF todo, Found
<1>5. sweep' \in Pass /\ sweep'.pc = "rows" /\ sweep'.todo = todo /\ sweep'.s = None
  BY <1>1, <1>2 DEF IInv, TypeOK, Pass, Passing
<1>6. TypeOK'
  BY <1>1, <1>5 DEF IInv, TypeOK
<1>7. Passing'
  BY <1>1, <1>3, <1>4, <1>5 DEF Passing
<1>8. Handed'
  BY <1>1, <1>5 DEF IInv, Handed
<1> QED
  BY <1>1, <1>6, <1>7, <1>8, WorkersFrame DEF IInv

\* The pass is over.
LEMMA SweepEndsIInv ==
    ASSUME IInv, SweepEnds
    PROVE  IInv'
<1>1. /\ sweep.pc = "rows" /\ sweep' = IdleSweep
      /\ UNCHANGED <<row, wk, call, late, resv, ses, req, faults>>
  BY DEF SweepEnds
<1>2. IdleSweep \in Pass /\ IdleSweep.pc = "idle" /\ IdleSweep.todo = {} /\ IdleSweep.s = None
  BY DEF IdleSweep, Pass
<1>3. TypeOK'
  BY <1>1, <1>2 DEF IInv, TypeOK
<1>4. Passing' /\ Handed'
  BY <1>1, <1>2 DEF IInv, Passing, Handed
<1> QED
  BY <1>1, <1>3, <1>4, WorkersFrame DEF IInv

\* Every step keeps the invariant.
LEMMA NextIInv ==
    ASSUME IInv, [Next]_vars
    PROVE  IInv'
<1>1. CASE UNCHANGED vars
  <2>1. UNCHANGED <<row, wk, call, late, resv, ses, req, sweep, faults>>
    BY <1>1 DEF vars
  <2>2. TypeOK'
    BY <2>1 DEF IInv, TypeOK
  <2> QED
    BY <2>1, <2>2, WorkersFrame, SessionFrame DEF IInv
<1>2. ASSUME NEW w \in Worker,
             \/ Tick(w) \/ TickSend(w) \/ TickAnswered(w) \/ FenceDone(w)
             \/ TickLost(w) \/ LateHandled(w)
      PROVE  IInv'
  BY <1>2, TickIInv, TickSendIInv, TickAnsweredIInv, FenceDoneIInv, TickLostIInv, LateHandledIInv
<1>3. ASSUME NEW w \in Worker,
             \/ DrainBegin(w) \/ DrainStops(w) \/ Deregister(w)
             \/ Crash(w) \/ Boot(w) \/ Lapse(w)
      PROVE  IInv'
  BY <1>3, DrainBeginIInv, DrainStopsIInv, DeregisterIInv, CrashIInv, BootIInv, LapseIInv
<1>4. ASSUME NEW w \in Worker, NEW h \in Hash, Reap(w, h) \/ ReservationLapses(w, h)
      PROVE  IInv'
  BY <1>4, ReapIInv, ReservationLapsesIInv
<1>5. ASSUME NEW s \in Session,
             \/ Dispatch(s) \/ AnswerInput(s) \/ ReqEnsure(s) \/ ReqSend(s) \/ ReqPersist(s)
             \/ TurnEnds(s) \/ TailLost(s) \/ Stop(s)
      PROVE  IInv'
  BY <1>5, DispatchIInv, AnswerInputIInv, ReqEnsureIInv, ReqSendIInv, ReqPersistIInv, EndsIInv
<1>6. ASSUME NEW t \in sweep.todo, SweepParked(t) \/ SweepEveless(t) \/ SweepPick(t)
      PROVE  IInv'
  BY <1>6, SweepParkedIInv, SweepEvelessIInv, SweepPickIInv
<1>7. CASE SweepMark \/ SweepScan \/ SweepClear \/ SweepEnsure \/ SweepPoint \/ SweepEnds
  BY <1>7, SweepMarkIInv, SweepScanIInv, SweepClearIInv, SweepEnsureIInv, SweepPointIInv,
     SweepEndsIInv
<1> QED
  BY <1>1, <1>2, <1>3, <1>4, <1>5, <1>6, <1>7 DEF Next

-----------------------------------------------------------------------------

\* The inductive invariant: what a worker's calls may still do, and who holds a
\* session's run, after any number of steps.
THEOREM InvariantHolds == Spec => []IInv
<1>1. Init => IInv
  BY InitIInv
<1>2. IInv /\ [Next]_vars => IInv'
  BY NextIInv
<1> QED
  BY <1>1, <1>2, PTL DEF Spec

\* Every row, process, call and pass keeps its shape, and faults stay within
\* their bound.
THEOREM TypeCorrect == Spec => []TypeOK
<1>1. IInv => TypeOK
  BY DEF IInv
<1> QED
  BY <1>1, InvariantHolds, PTL

\* A live row has no agent of a former life behind it, unless the process that
\* has it took itself for unregistered when its row died (registration.ts
\* onFenced, workers.ts register and heartbeat), for any fleet and any faults.
THEOREM FencingHolds == Spec => []FencedBeforeLive
<1>1. IInv => FencedBeforeLive
  BY DEF IInv, WorkerOK, Loop, Fenced, FencedBeforeLive
<1> QED
  BY <1>1, InvariantHolds, PTL

\* Only a failover whose ensure failed leaves a queued or running run to
\* nobody (worker-sweeper.ts, dispatch.ts), for any number of sessions.
THEOREM FailoverForgetsNobody == Spec => []NobodyForgotten
<1>1. IInv => NobodyForgotten
  BY DEF IInv, Handed, NobodyForgotten, InHand
<1> QED
  BY <1>1, InvariantHolds, PTL

\* The status of a row is set by the call handled in the step, if one is.
LEMMA HandledSticks ==
    ASSUME IInv, NEW v \in Worker, NEW c \in CallType, c.kind = "register" => ~wk[v].reg,
           row' = [row EXCEPT ![v] = Handled(v, c)], NEW w \in Worker,
           row[w].st = "draining", row'[w].st = "live"
    PROVE  ~wk[w].reg
<1>1. w = v /\ row'[w] = Handled(v, c)
  BY DEF IInv, TypeOK
<1> QED
  BY <1>1, HandledRow DEF IInv

\* A step puts a draining row back to live only for a process that has not
\* registered yet.
LEMMA DrainStep ==
    ASSUME IInv, [Next]_vars, NEW w \in Worker,
           row[w].st = "draining", row'[w].st = "live"
    PROVE  ~wk[w].reg
<1>1. row' # row
  OBVIOUS
<1>2. \A v \in Worker : /\ call[v] \in CallType /\ late[v] \in CallType /\ Body(v) \in CallType
                        /\ call[v].kind = "register" => ~wk[v].reg
                        /\ late[v].kind = "register" => ~wk[v].reg
                        /\ Body(v).kind = "register" => ~wk[v].reg
  BY Untouched, BodyTyped DEF Loop
<1>3. ASSUME NEW v \in Worker, NEW c \in CallType, c.kind = "register" => ~wk[v].reg,
             row' = [row EXCEPT ![v] = Handled(v, c)]
      PROVE  ~wk[w].reg
  BY <1>3, HandledSticks
<1>4. ASSUME NEW v \in Worker, Tick(v) \/ TickAnswered(v) \/ TickLost(v) \/ LateHandled(v)
      PROVE  ~wk[w].reg
  BY <1>1, <1>2, <1>3, <1>4 DEF Tick, TickAnswered, TickLost, LateHandled, Succeeds, Refused
<1>5. ASSUME NEW v \in Worker, DrainBegin(v)
      PROVE  ~wk[w].reg
  <2> DEFINE b == [kind |-> "heartbeat", hashes |-> wk[v].agents, drain |-> TRUE]
  <2>1. wk[v] \in Process
    BY Untouched
  <2>2. b \in CallType /\ b.kind # "register"
    BY <2>1 DEF Process, CallType
  <2>3. row' = [row EXCEPT ![v] = Handled(v, b)]
    BY <1>1, <1>5 DEF DrainBegin
  <2> QED
    BY <1>3, <2>2, <2>3
<1>6. ASSUME NEW v \in Worker, Deregister(v) \/ Lapse(v)
      PROVE  FALSE
  <2>1. row \in [Worker -> RowType]
    BY DEF IInv, TypeOK
  <2>2. CASE row' = [row EXCEPT ![v].st = "dead"]
    <3>1. row'[w].st \in {"dead", row[w].st}
      BY <2>1, <2>2 DEF RowType
    <3> QED
      BY <3>1
  <2>3. CASE row' = [row EXCEPT ![v].fresh = FALSE]
    <3>1. row'[w].st = row[w].st
      BY <2>1, <2>3 DEF RowType
    <3> QED
      BY <3>1
  <2> QED
    BY <1>6, <2>2, <2>3 DEF Deregister, Lapse
<1>7. CASE SweepMark
  BY <1>7 DEF SweepMark, IInv, TypeOK, RowType
<1>8. ~ UNCHANGED vars
  BY <1>1 DEF vars
<1>9. ASSUME NEW v \in Worker,
             \/ TickSend(v) \/ FenceDone(v) \/ DrainStops(v) \/ Crash(v) \/ Boot(v)
             \/ \E h \in Hash : Reap(v, h) \/ ReservationLapses(v, h)
      PROVE  FALSE
  BY <1>1, <1>9 DEF TickSend, FenceDone, DrainStops, Crash, Boot, Reap, ReservationLapses
<1>10. ASSUME NEW s \in Session,
              \/ Dispatch(s) \/ AnswerInput(s) \/ ReqEnsure(s) \/ ReqSend(s) \/ ReqPersist(s)
              \/ TurnEnds(s) \/ TailLost(s) \/ Stop(s)
       PROVE  FALSE
  BY <1>1, <1>10 DEF Dispatch, AnswerInput, ReqEnsure, ReqSend, ReqPersist, TurnEnds, TailLost, Stop
<1>11. ASSUME NEW t \in sweep.todo, SweepParked(t) \/ SweepEveless(t) \/ SweepPick(t)
       PROVE  FALSE
  BY <1>1, <1>11 DEF SweepParked, SweepEveless, SweepPick
<1>12. CASE SweepScan \/ SweepClear \/ SweepEnsure \/ SweepPoint \/ SweepEnds
  BY <1>1, <1>12 DEF SweepScan, SweepClear, SweepEnsure, SweepPoint, SweepEnds
<1> QED
  BY <1>4, <1>5, <1>6, <1>7, <1>8, <1>9, <1>10, <1>11, <1>12 DEF Next

\* A registered process that drains keeps its row draining (registration.ts
\* beginDrain, workers.ts heartbeat), whatever calls are late or lost.
THEOREM DrainIsForGood == Spec => DrainSticks
<1>1. IInv /\ [Next]_vars =>
        [\A w \in Worker : row[w].st = "draining" /\ row'[w].st = "live"
                           => wk[w].drain = "no" \/ ~wk[w].up \/ ~wk[w].reg]_vars
  BY DrainStep
<1> QED
  BY <1>1, InvariantHolds, PTL DEF Spec, DrainSticks

=============================================================================
