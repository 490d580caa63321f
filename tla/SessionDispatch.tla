--------------------------- MODULE SessionDispatch ---------------------------
(***************************************************************************)
(* The per-session dispatch of the control plane: how a chat message, an   *)
(* agent step or a HITL answer becomes one turn of an eve session, while   *)
(* Stops, run tails, boot reconciliation, the periodic remote-cancel       *)
(* sweeper and control-plane restarts interleave with it                   *)
(* (runtime/dispatch.ts, runtime/routes.ts, runtime/reconcile.ts,          *)
(* runtime/session-lock.ts, runs/store.ts, runs/tailer.ts).                *)
(*                                                                         *)
(* One action is what the code does between two awaits that another actor  *)
(* could use; a session's dispatch lock is a Postgres advisory lock, so it *)
(* dies with the process.  eve, the agent runtime, is external: it accepts *)
(* turns per session, serializes them, and writes a durable event log.     *)
(***************************************************************************)
EXTENDS Integers, Sequences, FiniteSets

CONSTANTS
    NumSessions, \* bound: session rows
    MaxRuns,     \* bound: run rows; a run's number is its created_at order
    Disp,        \* concurrent dispatching requests
    Kind,        \* the dispatch paths enabled (subset of AllKinds)
    Outcome,     \* how eve may end a turn (subset of AllOutcomes)
    MaxCrashes,  \* bound: control-plane restarts
    MaxLog,      \* bound: events of one eve session
    EarlyTraffic, \* environment: requests arrive while sweep 1 still runs
    SlowStop     \* environment: a Stop's one CAS takes longer than the
                 \* whole preamble of a tail started after its lookup

Session == 1 .. NumSessions
Run     == 1 .. MaxRuns
None    == 0

AllKinds    == {"chat", "agentNew", "message", "agentCont", "resume", "reset"}
Fresh       == {"chat", "agentNew"}        \* they mint the session row
Abortable   == {"agentNew", "agentCont"}   \* they carry the step's abort signal
AllOutcomes == {"done", "parked", "turn.failed", "cancelled",
                "session.completed", "session.failed"}

ASSUME DispatchAssumption ==
    /\ NumSessions \in Nat /\ MaxRuns \in Nat
    /\ MaxCrashes \in Nat /\ MaxLog \in Nat
    /\ Kind \subseteq AllKinds /\ Outcome \subseteq AllOutcomes
    /\ None \notin Disp
    /\ EarlyTraffic \in BOOLEAN /\ SlowStop \in BOOLEAN

VARIABLES
    sess,    \* agent_sessions rows
    run,     \* runs rows
    lock,    \* [Session -> Disp \cup {None}]: the advisory dispatch lock
    disp,    \* [Disp -> record]: the dispatching requests of this process
    tail,    \* [Run -> record]: this process's tails, by run
    stops,   \* SUBSET Run: Stop handlers that found no tail and have yet to
             \* settle the row
    recon,   \* boot reconciliation: its phase and its stale snapshots
    eve,     \* [Session -> record]: the eve session(s) behind a row
    limbo,   \* SUBSET Run: sends whose client gave up before eve answered
    crashes  \* restarts so far

vars == <<sess, run, lock, disp, tail, stops, recon, eve, limbo, crashes>>
database == <<sess, run>>

LiveStatus == {"queued", "running", "waiting"}
Terminal   == {"succeeded", "failed", "canceled"}
Dead       == {"closed", "error"}

NoSession == [st |-> "none", id |-> FALSE, key |-> FALSE]
NoRun     == [st |-> "none", sess |-> None, armed |-> FALSE, turn |-> FALSE,
              owed |-> FALSE, unresolved |-> FALSE, hitl |-> FALSE]
Idle      == [pc |-> "idle", kind |-> "none", sess |-> None, run |-> None,
              id |-> FALSE, key |-> FALSE]
NoTail    == [st |-> "none", saw |-> FALSE, hitl |-> FALSE, out |-> "none"]
NoEve     == [creates |-> 0, dead |-> FALSE, queue |-> <<>>, open |-> None,
              log |-> <<>>, cur |-> 0]

DispPc == {"idle", "reread", "admit", "ensure", "arm", "send", "inflight",
           "persist", "recheck", "tail", "fail", "gone", "failrun",
           "failsess", "quiet", "resetting"}
TailPc == {"none", "pre", "follow", "ended", "mark", "stopping", "observe"}
Event  == [type : {"start", "end"}, run : Run, out : Outcome \cup {"none"}]

TypeOK ==
    /\ sess \in [Session -> [st : {"none", "active", "waiting"} \cup Dead,
                             id : BOOLEAN, key : BOOLEAN]]
    /\ run \in [Run -> [st : {"none"} \cup LiveStatus \cup Terminal,
                        sess : Session \cup {None}, armed : BOOLEAN,
                        turn : BOOLEAN, owed : BOOLEAN,
                        unresolved : BOOLEAN, hitl : BOOLEAN]]
    /\ lock \in [Session -> Disp \cup {None}]
    /\ disp \in [Disp -> [pc : DispPc, kind : AllKinds \cup {"none"},
                          sess : Session \cup {None}, run : Run \cup {None},
                          id : BOOLEAN, key : BOOLEAN]]
    /\ tail \in [Run -> [st : TailPc, saw : BOOLEAN, hitl : BOOLEAN,
                         out : AllOutcomes \cup {"none", "active", "waiting"}
                               \cup Dead]]
    /\ stops \subseteq Run
    /\ recon \in [pc : {"boot", "runs", "done"},
                  rows : SUBSET [run : Run, armed : BOOLEAN, id : BOOLEAN],
                  eveless : SUBSET Session]
    /\ eve \in [Session -> [creates : Nat, dead : BOOLEAN, queue : Seq(Run),
                            open : Run \cup {None}, log : Seq(Event),
                            cur : Nat]]
    /\ limbo \subseteq Run
    /\ crashes \in 0 .. MaxCrashes

Init ==
    /\ sess = [s \in Session |-> NoSession]
    /\ run = [r \in Run |-> NoRun]
    /\ lock = [s \in Session |-> None]
    /\ disp = [d \in Disp |-> Idle]
    /\ tail = [r \in Run |-> NoTail]
    /\ stops = {}
    /\ recon = [pc |-> "boot", rows |-> {}, eveless |-> {}]
    /\ eve = [s \in Session |-> NoEve]
    /\ limbo = {}
    /\ crashes = 0

-----------------------------------------------------------------------------
(* Rows, and the store's statements as functions of the tables. *)

RunsOf(s) == {r \in Run : run[r].st # "none" /\ run[r].sess = s}
LiveRuns(s) == {r \in RunsOf(s) : run[r].st \in LiveStatus}
Newest(s) == CHOOSE r \in RunsOf(s) : \A q \in RunsOf(s) : q <= r
FreeRuns == {r \in Run : run[r].st = "none"}
OwedRuns(s) == {r \in RunsOf(s) : run[r].owed}

\* RunStore.markRun: a terminal status is sticky.
markRun(rs, r, st) ==
    IF rs[r].st \in LiveStatus THEN [rs EXCEPT ![r].st = st] ELSE rs

\* settleRunCanceledPendingRemote, and the tail's finalizing CAS: the status
\* and the obligation commit together.
settleOwing(rs, r, st) ==
    IF rs[r].st \in LiveStatus
    THEN [rs EXCEPT ![r].st = st, ![r].owed = TRUE]
    ELSE rs

\* RunStore.clearRemoteCancelPending for every run of R.
clearRemoteCancelPending(rs, R) ==
    [r \in Run |-> IF r \in R
                   THEN [rs[r] EXCEPT !.owed = FALSE, !.unresolved = FALSE]
                   ELSE rs[r]]

\* RunStore.markSession: a blind write; a terminal status frees the key.
markSession(ss, s, st) ==
    [ss EXCEPT ![s].st = st, ![s].key = @ /\ st \notin Dead]

\* casSessionLive, with the eve id the send used.
casSessionLive(ss, s) ==
    IF ss[s].st \in Dead THEN ss
    ELSE [ss EXCEPT ![s].st = "active", ![s].id = TRUE]

\* Mutant of Busy: a parked run does not count.
BusyIgnoresParked(s, x) ==
    \E r \in RunsOf(s) \ {x} :
        \/ run[r].st \in LiveStatus \ {"waiting"}
        \/ run[r].st = "canceled" /\ run[r].armed /\ ~sess[s].id

\* countDispatchingRuns > 0, leaving out the run x.
Busy(s, x) ==
    \E r \in RunsOf(s) \ {x} :
        \/ run[r].st \in LiveStatus
        \/ run[r].st = "canceled" /\ run[r].armed /\ ~sess[s].id

\* Mutant of Abandoned: only a canceled dispatch is taken for abandoned.
AbandonedCanceledOnly(s) ==
    /\ sess[s].st \notin Dead \cup {"none"}
    /\ ~sess[s].id
    /\ RunsOf(s) # {}
    /\ run[Newest(s)].armed /\ run[Newest(s)].st = "canceled"
    /\ LiveRuns(s) = {}

\* isAbandonedEvelessSession and closeEvelessSessionIfStillAbandoned's WHERE.
Abandoned(s) ==
    /\ sess[s].st \notin Dead \cup {"none"}
    /\ ~sess[s].id
    /\ RunsOf(s) # {}
    /\ run[Newest(s)].armed /\ run[Newest(s)].st \in Terminal
    /\ LiveRuns(s) = {}

\* Mutant of Superseded: a successor counts before eve started its turn.
SupersededByQueued(r) ==
    \E q \in RunsOf(run[r].sess) : q > r

\* classifySessionSuccessor = "proven".
Superseded(r) ==
    \E q \in RunsOf(run[r].sess) : q > r /\ run[q].turn

\* The tails of a session, by what they do to its stream.
Tails(s, P) == {r \in RunsOf(s) : tail[r].st \in P}
Reading  == {"pre", "follow", "stopping", "observe"}  \* not closed
Draining == {"ended", "mark"}           \* closed, still holding the stream

\* RunTailerManager.start: an observer hands the stream over.
startTail(ts, s, r) ==
    IF ts[r].st # "none" THEN ts
    ELSE [q \in Run |->
            IF q = r THEN [NoTail EXCEPT !.st = "pre"]
            ELSE IF q \in RunsOf(s) /\ ts[q].st = "observe" THEN NoTail
            ELSE ts[q]]

\* RunTailerManager.observe: a live reader of the session carries the
\* obligation, otherwise an observation tail opens if the row owes anything.
startObservation(ts, rs, s, r) ==
    IF Tails(s, Reading) # {} \/ ts[r].st # "none" \/ ~rs[r].owed THEN ts
    ELSE [ts EXCEPT ![r] = [NoTail EXCEPT !.st = "observe"]]

\* The request is over; its lock is released in the finally.
Finish(d) ==
    /\ disp' = [disp EXCEPT ![d] = Idle]
    /\ lock' = [lock EXCEPT ![disp[d].sess] = None]

Goto(d, pc) ==
    /\ disp' = [disp EXCEPT ![d].pc = pc]
    /\ UNCHANGED lock

-----------------------------------------------------------------------------
(* A dispatching request, from the lock to the tail. *)

rest == <<tail, stops, recon, eve, limbo, crashes>>

\* healAbandonedThreadHolder: close the thread's holder if its lock is free
\* and it is abandoned.
HealHolder ==
    sess' = [s \in Session |->
        IF sess[s].key /\ lock[s] = None /\ Abandoned(s)
        THEN markSession(sess, s, "closed")[s] ELSE sess[s]]

\* A new session pre-mints its id and takes its lock before the row exists.
LockFresh(d, s, kind, key) ==
    /\ disp[d].pc = "idle" /\ kind \in Kind \cap Fresh
    /\ key => kind = "agentNew"
    /\ sess[s].st = "none" /\ lock[s] = None /\ FreeRuns # {}
    /\ lock' = [lock EXCEPT ![s] = d]
    /\ disp' = [disp EXCEPT ![d] = [pc |-> "admit", kind |-> kind, sess |-> s,
                                    run |-> None, id |-> FALSE, key |-> key]]
    /\ IF key THEN HealHolder ELSE UNCHANGED sess
    /\ UNCHANGED <<run, rest>>

\* A continuation takes its session's lock; the session it was handed is a
\* snapshot and may be closed by now.
LockSession(d, s, kind) ==
    /\ disp[d].pc = "idle" /\ kind \in Kind \cap {"message", "agentCont"}
    /\ sess[s].st # "none" /\ lock[s] = None /\ FreeRuns # {}
    /\ lock' = [lock EXCEPT ![s] = d]
    /\ disp' = [disp EXCEPT ![d] = [Idle EXCEPT !.pc = "reread", !.kind = kind,
                                                !.sess = s]]
    /\ UNCHANGED <<database, rest>>

\* resumeRunInput: the route loaded a parked run and its session; neither is
\* read again under the lock, only the flip's CAS.
LockResume(d, r) ==
    LET s == run[r].sess IN
    /\ disp[d].pc = "idle" /\ "resume" \in Kind
    /\ run[r].st = "waiting" /\ sess[s].id /\ sess[s].st \notin Dead
    /\ lock[s] = None
    /\ lock' = [lock EXCEPT ![s] = d]
    /\ disp' = [disp EXCEPT ![d] = [Idle EXCEPT !.pc = "admit", !.sess = s,
                                       !.kind = "resume", !.run = r,
                                       !.id = TRUE]]
    /\ UNCHANGED <<database, rest>>

\* requireLiveSessionUnderLock: dead, or abandoned and healed, ends it.
Reread(d) ==
    LET s == disp[d].sess IN
    /\ disp[d].pc = "reread"
    /\ \/ /\ sess[s].st \in Dead
          /\ UNCHANGED sess
          /\ Finish(d)
       \/ /\ Abandoned(s)
          /\ sess' = markSession(sess, s, "closed")
          /\ Finish(d)
       \/ /\ sess[s].st \notin Dead /\ ~Abandoned(s)
          /\ disp' = [disp EXCEPT ![d].pc = "admit", ![d].id = sess[s].id]
          /\ UNCHANGED <<sess, lock>>
    /\ UNCHANGED <<run, rest>>

\* The admission transaction inserts the queued run.
InsertRun(d, r) ==
    /\ r \in FreeRuns /\ \A q \in FreeRuns : r <= q
    /\ run' = [run EXCEPT ![r] = [NoRun EXCEPT !.st = "queued",
                                               !.sess = disp[d].sess]]
    /\ disp' = [disp EXCEPT ![d].pc = "ensure", ![d].run = r]
    /\ UNCHANGED lock

\* Mutant of Evictable: a holder whose create may be under way is evicted.
EvictableArmed(h) ==
    \/ sess[h].st \in Dead
    \/ ~sess[h].id /\ ~Busy(h, None)

\* A claim holder that is dead, or eveless with a newest run never armed.
Evictable(h) ==
    \/ sess[h].st \in Dead
    \/ /\ ~sess[h].id
       /\ ~Busy(h, None)
       /\ RunsOf(h) # {} => ~run[Newest(h)].armed

\* Admission of a fresh session: the thread claim, the session, the run.
AdmitFresh(d) ==
    LET s == disp[d].sess
        holders == {h \in Session : disp[d].key /\ sess[h].key} IN
    /\ disp[d].pc = "admit" /\ disp[d].kind \in Fresh
    /\ \/ /\ \A h \in holders : Evictable(h)
          /\ sess' = [h \in Session |->
                IF h = s THEN [st |-> "active", id |-> FALSE, key |-> disp[d].key]
                ELSE [sess[h] EXCEPT !.key = @ /\ h \notin holders]]
          /\ \E r \in Run : InsertRun(d, r)
       \/ /\ FreeRuns = {} \/ \E h \in holders : ~Evictable(h)
          /\ UNCHANGED <<sess, run>>
          /\ Finish(d)
    /\ UNCHANGED rest

\* Admission of a follow-up: busy answers session_busy.
AdmitMessage(d) ==
    /\ disp[d].pc = "admit" /\ disp[d].kind \in {"message", "agentCont"}
    /\ \/ /\ ~Busy(disp[d].sess, None)
          /\ \E r \in Run : InsertRun(d, r)
       \/ /\ Busy(disp[d].sess, None) \/ FreeRuns = {}
          /\ UNCHANGED run
          /\ Finish(d)
    /\ UNCHANGED <<sess, rest>>

\* The HITL answer's CAS flips the parked run back to queued; the marker and
\* the turn id stay those of the previous send until the next arm.
AdmitResume(d) ==
    LET r == disp[d].run IN
    /\ disp[d].pc = "admit" /\ disp[d].kind = "resume"
    /\ IF run[r].st = "waiting" /\ ~Busy(disp[d].sess, r)
       THEN /\ run' = [run EXCEPT ![r].st = "queued"]
            /\ Goto(d, "ensure")
       ELSE /\ UNCHANGED run
            /\ Finish(d)
    /\ UNCHANGED <<sess, rest>>

\* ensureAgentOnWorker (and the allowlist check) succeed or fail.
Ensure(d) ==
    /\ disp[d].pc = "ensure"
    /\ \/ Goto(d, "arm")
       \/ Goto(d, IF disp[d].kind \in Fresh THEN "failrun" ELSE "fail")
    /\ UNCHANGED <<database, rest>>

\* The step's abort signal is seen before the ensure or after the arm:
\* abandonCanceledBeforeEve.
Abort(d) ==
    /\ disp[d].pc \in {"ensure", "send"} /\ disp[d].kind \in Abortable
    /\ run' = markRun(run, disp[d].run, "canceled")
    /\ sess' = IF disp[d].kind \in Fresh
               THEN markSession(sess, disp[d].sess, "closed") ELSE sess
    /\ Finish(d)
    /\ UNCHANGED rest

\* armDispatchAttempt: the marker, the correlator and the reset acceptance
\* proof in one CAS; a run already settled abandons the dispatch.
Arm(d) ==
    LET r == disp[d].run IN
    /\ disp[d].pc = "arm"
    /\ IF run[r].st \in LiveStatus
       THEN /\ run' = [run EXCEPT ![r].st = "queued", ![r].armed = TRUE,
                                  ![r].turn = FALSE,
                                  ![r].hitl = disp[d].kind = "resume"]
            /\ Goto(d, "send")
            /\ UNCHANGED sess
       ELSE /\ sess' = IF disp[d].kind \in Fresh
                       THEN markSession(sess, disp[d].sess, "closed") ELSE sess
            /\ UNCHANGED run
            /\ Finish(d)
    /\ UNCHANGED rest

\* The create or continue call fails: refused, unreachable, or timed out
\* with the answer (or even the request) still on its way.
SendFails(d) ==
    /\ disp[d].pc \in {"send", "inflight"}
    /\ limbo' = IF disp[d].pc = "send" THEN limbo \cup {disp[d].run} ELSE limbo
    /\ Goto(d, IF disp[d].kind = "chat" THEN "failrun" ELSE "fail")
    /\ UNCHANGED <<database, tail, stops, recon, eve, crashes>>

\* eve's 202 arrives.
SendReturns(d) ==
    /\ disp[d].pc = "inflight"
    /\ Goto(d, "persist")
    /\ UNCHANGED <<database, rest>>

\* Persist-then-recheck: the eve id lands before the run is read again.
Persist(d) ==
    /\ disp[d].pc = "persist"
    /\ sess' = casSessionLive(sess, disp[d].sess)
    /\ Goto(d, "recheck")
    /\ UNCHANGED <<run, rest>>

\* recheckCanceledDuringEve, and the abandon that follows it.
Recheck(d) ==
    LET r == disp[d].run
        s == disp[d].sess IN
    /\ disp[d].pc = "recheck"
    /\ \/ /\ run[r].st \in LiveStatus
          /\ Goto(d, "tail")
          /\ UNCHANGED <<database, tail>>
       \/ /\ run[r].st \in Terminal /\ Superseded(r)
          /\ run' = clearRemoteCancelPending(run, {r})
          /\ Finish(d)
          /\ UNCHANGED <<sess, tail>>
       \/ /\ run[r].st \in Terminal /\ ~Superseded(r)
          /\ run' = [run EXCEPT ![r].owed = @ \/ run[r].st = "canceled"]
          /\ tail' = startObservation(tail, run', s, r)
          /\ sess' = IF disp[d].kind \in Fresh
                     THEN markSession(sess, s, "closed") ELSE sess
          /\ Finish(d)
    /\ UNCHANGED <<stops, recon, eve, limbo, crashes>>

StartTail(d) ==
    /\ disp[d].pc = "tail"
    /\ tail' = startTail(tail, disp[d].sess, disp[d].run)
    /\ Finish(d)
    /\ UNCHANGED <<database, stops, recon, eve, limbo, crashes>>

\* failEveDispatch, eve answered 409: nothing runs on a dead session id.
FailGone(d) ==
    LET s == disp[d].sess IN
    /\ disp[d].pc = "gone"
    /\ sess' = markSession(sess, s, "closed")
    /\ run' = clearRemoteCancelPending(run, OwedRuns(s))
    /\ Goto(d, "failrun")
    /\ UNCHANGED rest

\* failEveDispatch, any other error: an armed and still eveless session is
\* closed, because the create may have been accepted.
FailEve(d) ==
    LET s == disp[d].sess IN
    /\ disp[d].pc = "fail"
    /\ sess' = IF run[disp[d].run].armed /\ ~sess[s].id
               THEN markSession(sess, s, "closed") ELSE sess
    /\ Goto(d, "failrun")
    /\ UNCHANGED <<run, rest>>

\* failDispatch: the run fails, then a session born in this dispatch errs.
FailRun(d) ==
    /\ disp[d].pc = "failrun"
    /\ run' = markRun(run, disp[d].run, "failed")
    /\ IF disp[d].kind \in Fresh THEN Goto(d, "failsess") ELSE Finish(d)
    /\ UNCHANGED <<sess, rest>>

FailSession(d) ==
    /\ disp[d].pc = "failsess"
    /\ sess' = markSession(sess, disp[d].sess, "error")
    /\ Finish(d)
    /\ UNCHANGED <<run, rest>>

\* resetSession under withQuietSessionControl: refused unless nothing is
\* dispatching and nobody holds the stream.
LockReset(d, s) ==
    /\ disp[d].pc = "idle" /\ "reset" \in Kind
    /\ lock[s] = None
    /\ sess[s].id /\ sess[s].st \notin Dead
    /\ ~Busy(s, None)
    /\ Tails(s, Reading \cup Draining) = {}
    /\ lock' = [lock EXCEPT ![s] = d]
    /\ disp' = [disp EXCEPT ![d] = [Idle EXCEPT !.pc = "quiet", !.sess = s,
                                                !.kind = "reset"]]
    /\ UNCHANGED <<database, rest>>

\* eve retired the session: the row closes, its obligations are met, and an
\* eveless replacement row takes its place.
ResetClose(d) ==
    LET s == disp[d].sess IN
    /\ disp[d].pc = "resetting"
    /\ LET closed == markSession(sess, s, "closed")
           unused == {t \in Session : sess[t].st = "none" /\ lock[t] = None} IN
       IF unused = {} THEN sess' = closed
       ELSE \E t \in unused : sess' = [closed EXCEPT ![t].st = "active"]
    /\ run' = clearRemoteCancelPending(run, OwedRuns(s))
    /\ Finish(d)
    /\ UNCHANGED rest

-----------------------------------------------------------------------------
(* eve (external). *)

others == <<database, lock, tail, stops, recon, crashes>>

Accept(s, r, create) ==
    eve' = [eve EXCEPT ![s].queue = Append(@, r),
                       ![s].creates = @ + (IF create THEN 1 ELSE 0)]

\* The send reaches eve in time: accepted, or refused for good when the
\* session is terminal.  Sends of one session reach eve in order.
EveAnswers(d) ==
    LET s == disp[d].sess IN
    /\ disp[d].pc = "send"
    /\ \A r \in limbo : run[r].sess # s
    /\ \/ /\ disp[d].id => ~eve[s].dead
          /\ Accept(s, disp[d].run, ~disp[d].id)
          /\ disp' = [disp EXCEPT ![d].pc = "inflight"]
       \/ /\ disp[d].id /\ eve[s].dead
          /\ disp' = [disp EXCEPT ![d].pc = "gone"]
          /\ UNCHANGED eve
    /\ UNCHANGED <<others, limbo>>

\* A send whose client has given up, or died, still arrives - or never does.
EveAcceptsLate(r) ==
    LET s == run[r].sess IN
    /\ r \in limbo
    /\ \A q \in limbo : run[q].sess = s => r <= q
    /\ limbo' = limbo \ {r}
    /\ \/ ~eve[s].dead /\ Accept(s, r, ~sess[s].id)
       \/ UNCHANGED eve
    /\ UNCHANGED <<others, disp>>

\* eve serializes the turns of a session.
EveStarts(s) ==
    /\ eve[s].open = None /\ eve[s].queue # <<>>
    /\ Len(eve[s].log) < MaxLog
    /\ eve' = [eve EXCEPT ![s].open = Head(eve[s].queue),
                          ![s].queue = Tail(@),
                          ![s].log = Append(@, [type |-> "start", out |-> "none",
                                                run |-> Head(eve[s].queue)])]
    /\ UNCHANGED <<others, disp, limbo>>

\* A turn ends; "cancelled" only after the turn-qualified cancel a tail
\* issues for an owed run whose turn id it knows.  A terminal session drops
\* what was queued.
EveEnds(s, out) ==
    /\ eve[s].open # None /\ out \in Outcome
    /\ out = "cancelled" => run[eve[s].open].owed /\ run[eve[s].open].turn
    /\ LET dies == out \in {"session.completed", "session.failed"} IN
       eve' = [eve EXCEPT ![s].open = None, ![s].dead = dies,
                          ![s].queue = IF dies THEN <<>> ELSE @,
                          ![s].log = Append(@, [type |-> "end", out |-> out,
                                                run |-> eve[s].open])]
    /\ UNCHANGED <<others, disp, limbo>>

\* resetEveSession retires the id.
EveResets(d) ==
    LET s == disp[d].sess IN
    /\ disp[d].pc = "quiet"
    /\ eve' = [eve EXCEPT ![s].dead = TRUE, ![s].queue = <<>>, ![s].open = None]
    /\ disp' = [disp EXCEPT ![d].pc = "resetting"]
    /\ UNCHANGED <<others, limbo>>

-----------------------------------------------------------------------------
(* Run tails (runs/tailer.ts), seen from the rows they write. *)

noTails == <<stops, recon, limbo, crashes, lock, disp>>

SetTail(r, st) == tail' = [tail EXCEPT ![r].st = st]
EndTail(r) == tail' = [tail EXCEPT ![r] = NoTail]

\* The preamble, once every prior tail has released the stream: read the
\* row's turn state, then adopt the run - or find it settled and stand down.
TailAdopt(r) ==
    LET s == run[r].sess IN
    /\ tail[r].st = "pre"
    /\ r \in stops => SlowStop
    /\ Tails(s, (Reading \cup Draining) \ {"pre"}) = {}
    /\ run' = markRun(run, r, "running")
    /\ IF run[r].st \in LiveStatus
       THEN tail' = [tail EXCEPT ![r] = [st |-> "follow", saw |-> run[r].turn,
                                         hitl |-> run[r].hitl, out |-> "none"]]
       ELSE EndTail(r)
    /\ UNCHANGED <<sess, eve, noTails>>

\* Who a turn's opening belongs to: the tail's own run by its correlator, an
\* open obligation, or a live unattributed run that sent a message.
IsOwn(r, x) == x = r /\ tail[r].st = "follow" /\ tail[r].hitl = run[x].hitl
IsSuccessor(r, x) ==
    /\ x # r /\ run[x].st \in LiveStatus
    /\ run[x].armed /\ ~run[x].turn /\ ~run[x].hitl

\* The obligations a reader follows: in follow mode, never its own run's.
Followed(r) == OwedRuns(run[r].sess) \ (IF tail[r].st = "follow" THEN {r} ELSE {})

\* An observer closes when nothing is owed any more.
AfterRead(r, rs) ==
    tail' = IF tail[r].st = "observe"
               /\ \A q \in OwedRuns(run[r].sess) : ~rs[q].owed
            THEN [tail EXCEPT ![r] = NoTail]
            ELSE tail

\* Mutant of ReadStart: a newer run's turn supersedes no obligation.
ReadStartKeepsObserving(r, x) ==
    LET obligation == x \in Followed(r)
        ours == ~obligation /\ (IsOwn(r, x) \/ IsSuccessor(r, x))
        over == {q \in Followed(r) \ {x} : run[q].turn}
        rs == [clearRemoteCancelPending(run, over) EXCEPT
                  ![x].turn = @ \/ obligation \/ ours] IN
    /\ run' = rs
    /\ IF IsOwn(r, x)
       THEN tail' = [tail EXCEPT ![r].saw = TRUE]
       ELSE AfterRead(r, rs)

\* turn.started: attribute the turn, then drop the obligations it proves over.
ReadStart(r, x) ==
    LET obligation == x \in Followed(r)
        ours == ~obligation /\ (IsOwn(r, x) \/ IsSuccessor(r, x))
        over == {q \in Followed(r) \ {x} : run[q].turn \/ ours}
        rs == [clearRemoteCancelPending(run, over) EXCEPT
                  ![x].turn = @ \/ obligation \/ ours] IN
    /\ run' = rs
    /\ IF IsOwn(r, x)
       THEN tail' = [tail EXCEPT ![r].saw = TRUE]
       ELSE AfterRead(r, rs)

\* A turn or session boundary: confirm the obligations it ends; the run's own
\* boundary closes a following tail, which then finishes the row.
ReadEnd(r, x, out) ==
    LET dies == out \in {"session.completed", "session.failed"}
        rs == clearRemoteCancelPending(run,
                  {q \in Followed(r) : run[q].turn \/ dies}) IN
    /\ run' = rs
    /\ IF tail[r].st = "follow" /\ (tail[r].saw \/ out = "session.failed")
       THEN tail' = [tail EXCEPT ![r].st = "ended", ![r].out = out]
       ELSE AfterRead(r, rs)

\* One event of the stream is handled and persisted, which moves the cursor.
\* An observer for which nothing is owed any more only waits to close.
TailReads(r) ==
    LET s == run[r].sess
        e == eve[s].log[eve[s].cur + 1] IN
    /\ tail[r].st \in {"follow", "observe"}
    /\ tail[r].st = "observe" => OwedRuns(s) # {}
    /\ Tails(s, Draining) = {}
    /\ eve[s].cur < Len(eve[s].log)
    /\ eve' = [eve EXCEPT ![s].cur = @ + 1]
    /\ \/ e.type = "start" /\ ReadStart(r, e.run)
       \/ e.type = "end" /\ ReadEnd(r, e.run, e.out)
    /\ UNCHANGED <<sess, noTails>>

\* classifyTerminal.
RunStatusAt(out) ==
    CASE out \in {"turn.failed", "session.failed"} -> "failed"
      [] out = "parked"    -> "waiting"
      [] out = "cancelled" -> "canceled"
      [] OTHER             -> "succeeded"
SessionStatusAt(out) ==
    CASE out = "session.failed"    -> "error"
      [] out = "session.completed" -> "closed"
      [] out = "parked"            -> "waiting"
      [] OTHER                     -> "active"

\* finishRun's CAS on the run row ...
TailFinish(r) ==
    /\ tail[r].st = "ended"
    /\ run' = markRun(run, r, RunStatusAt(tail[r].out))
    /\ IF run[r].st \in LiveStatus
       THEN tail' = [tail EXCEPT ![r].st = "mark",
                                 ![r].out = SessionStatusAt(tail[r].out)]
       ELSE EndTail(r)
    /\ UNCHANGED <<sess, eve, noTails>>

\* ... and then its blind write of the session row.
TailMarksSession(r) ==
    /\ tail[r].st \in {"mark", "stopping"}
    /\ sess' = markSession(sess, run[r].sess, tail[r].out)
    /\ IF tail[r].st = "stopping" /\ run[r].owed
       THEN tail' = [tail EXCEPT ![r] = [NoTail EXCEPT !.st = "observe"]]
       ELSE EndTail(r)
    /\ UNCHANGED <<run, eve, noTails>>

\* The wall-clock cap: the run fails, owing eve's confirmation.
TailCap(r) ==
    /\ tail[r].st \in {"pre", "follow"}
    /\ run' = settleOwing(run, r, "failed")
    /\ IF run[r].st \in LiveStatus THEN SetTail(r, "observe") ELSE EndTail(r)
    /\ UNCHANGED <<sess, eve, noTails>>

\* Reconnect attempts exhausted.
TailLost(r) ==
    /\ tail[r].st \in {"follow", "observe"}
    /\ run' = IF tail[r].st = "follow" THEN markRun(run, r, "failed") ELSE run
    /\ EndTail(r)
    /\ UNCHANGED <<sess, eve, noTails>>

\* The observation window elapses: the residual is declared on the row.
ObserveExpires(r) ==
    /\ tail[r].st = "observe"
    /\ run' = [run EXCEPT ![r].unresolved = @ \/ run[r].owed]
    /\ EndTail(r)
    /\ UNCHANGED <<sess, eve, noTails>>

-----------------------------------------------------------------------------
(* Stop (cancelAgentRun) and the guarded settlement of its obligation. *)

\* A tail of this process carries the run: qualified cancel, then the
\* finalizing CAS.  A session eve calls terminal owes nothing.
StopLive(r) ==
    LET s == run[r].sess
        owes == ~(tail[r].saw /\ eve[s].dead) IN
    /\ tail[r].st \in {"pre", "follow"}
    /\ run' = IF owes THEN settleOwing(run, r, "canceled")
              ELSE markRun(run, r, "canceled")
    /\ IF run[r].st \in LiveStatus
       THEN tail' = [tail EXCEPT ![r].out = "active",
                                 ![r].st = IF owes THEN "stopping" ELSE "mark"]
       ELSE EndTail(r)
    /\ UNCHANGED <<sess, eve, noTails>>

\* No tail is found, or one that has closed and left the row live ...
StopBegins(r) ==
    /\ run[r].st \in LiveStatus /\ tail[r].st \in Draining \cup {"none"}
    /\ r \notin stops
    /\ stops' = stops \cup {r}
    /\ UNCHANGED <<database, lock, disp, tail, recon, eve, limbo, crashes>>

\* ... so the row is settled with its obligation, whatever started meanwhile.
StopSettles(r) ==
    /\ r \in stops
    /\ stops' = stops \ {r}
    /\ run' = settleOwing(run, r, "canceled")
    /\ UNCHANGED <<sess, lock, disp, tail, recon, eve, limbo, crashes>>

\* hasPersistedTurnBoundary: the last persisted event of the run's turns.
OwnBoundaryPersisted(r) ==
    LET s == run[r].sess
        mine == {i \in 1 .. eve[s].cur : eve[s].log[i].run = r} IN
    /\ run[r].turn
    /\ \E i \in mine :
        /\ eve[s].log[i].type = "end"
        /\ eve[s].log[i].out \notin {"turn.failed", "session.failed"}
        /\ \A j \in mine : j <= i

\* Mutant of Met: a closed session that never got an eve id still owes.
MetUnlessClosed(r) ==
    LET s == run[r].sess IN
    \/ Superseded(r)
    \/ ~run[r].armed
    \/ sess[s].id /\ OwnBoundaryPersisted(r)

\* settleRemoteCancelGuarded, under the lock: the cases that meet the
\* obligation.
Met(r) ==
    LET s == run[r].sess IN
    \/ Superseded(r)
    \/ ~run[r].armed
    \/ ~sess[s].id /\ sess[s].st \in Dead
    \/ sess[s].id /\ OwnBoundaryPersisted(r)

\* Mutant of Owes: the settlement runs beside whoever holds the lock.
OwesUnlocked(r) ==
    run[r].owed /\ ~run[r].unresolved

\* An obligation the sweeper finds, with its session's lock free.
Owes(r) ==
    /\ run[r].owed /\ ~run[r].unresolved
    /\ lock[run[r].sess] = None

SettleMet(r) ==
    /\ Owes(r) /\ Met(r)
    /\ run' = clearRemoteCancelPending(run, {r})
    /\ IF tail[r].st = "observe" THEN EndTail(r) ELSE UNCHANGED tail
    /\ UNCHANGED <<sess, eve, noTails>>

\* Owed and observable: past the window it is declared unresolved,
SettleUnresolved(r) ==
    /\ Owes(r) /\ ~Met(r) /\ sess[run[r].sess].id
    /\ run' = [run EXCEPT ![r].unresolved = TRUE]
    /\ UNCHANGED <<sess, tail, eve, noTails>>

\* within it a reader is found or opened.
SettleObserves(r) ==
    /\ Owes(r) /\ ~Met(r) /\ sess[run[r].sess].id
    /\ tail' = startObservation(tail, run, run[r].sess, r)
    /\ tail' # tail
    /\ UNCHANGED <<database, eve, noTails>>

-----------------------------------------------------------------------------
(* Restart and boot reconciliation, which runs beside live traffic. *)

\* The process dies, or is shut down: stopAll() settles some of the
\* following tails failed and owing first.
Restart(settled) ==
    /\ crashes < MaxCrashes
    /\ crashes' = crashes + 1
    /\ run' = [r \in Run |-> IF r \in settled
                             THEN settleOwing(run, r, "failed")[r] ELSE run[r]]
    /\ lock' = [s \in Session |-> None]
    /\ disp' = [d \in Disp |-> Idle]
    /\ tail' = [r \in Run |-> NoTail]
    /\ stops' = {}
    /\ recon' = [pc |-> "boot", rows |-> {}, eveless |-> {}]
    /\ limbo' = limbo \cup {disp[d].run : d \in {c \in Disp : disp[c].pc = "send"}}
    /\ UNCHANGED <<sess, eve>>

\* Mutant of ReconSelects: only the queued runs are swept.
ReconSelectsQueued ==
    /\ recon.pc = "boot"
    /\ recon' = [recon EXCEPT !.pc = "runs", !.rows =
           {[run |-> r, armed |-> run[r].armed, id |-> sess[run[r].sess].id] :
              r \in {q \in Run : run[q].st = "queued"}}]
    /\ UNCHANGED <<database, lock, disp, tail, stops, eve, limbo, crashes>>

\* Sweep 1 selects the queued and running runs with their sessions.
ReconSelects ==
    /\ recon.pc = "boot"
    /\ recon' = [recon EXCEPT !.pc = "runs", !.rows =
           {[run |-> r, armed |-> run[r].armed, id |-> sess[run[r].sess].id] :
              r \in {q \in Run : run[q].st \in {"queued", "running"}}}]
    /\ UNCHANGED <<database, lock, disp, tail, stops, eve, limbo, crashes>>

\* Each row of that snapshot: skipped if a tail exists by now, tailed if it
\* was armed on a session with an eve id and its worker is live, else failed.
ReconRow(row) ==
    /\ recon.pc = "runs" /\ row \in recon.rows
    /\ recon' = [recon EXCEPT !.rows = @ \ {row}]
    /\ \/ /\ tail[row.run].st # "none"
          /\ UNCHANGED <<run, tail>>
       \/ /\ tail[row.run].st = "none" /\ row.armed /\ row.id
          /\ tail' = startTail(tail, run[row.run].sess, row.run)
          /\ UNCHANGED run
       \/ /\ tail[row.run].st = "none"
          /\ run' = markRun(run, row.run, "failed")
          /\ UNCHANGED tail
    /\ UNCHANGED <<sess, lock, disp, stops, eve, limbo, crashes>>

\* Sweep 2 selects the eveless sessions ...
ReconSelectsEveless ==
    /\ recon.pc = "runs" /\ recon.rows = {}
    /\ recon' = [recon EXCEPT !.pc = "done", !.eveless =
           {s \in Session : ~sess[s].id /\ sess[s].st \notin Dead \cup {"none"}}]
    /\ UNCHANGED <<database, lock, disp, tail, stops, eve, limbo, crashes>>

\* Mutant of ReconEveless: the close does not take the session's lock.
ReconEvelessUnlocked(s) ==
    /\ s \in recon.eveless
    /\ recon' = [recon EXCEPT !.eveless = @ \ {s}]
    /\ sess' = IF Abandoned(s) THEN markSession(sess, s, "closed") ELSE sess
    /\ UNCHANGED <<run, lock, disp, tail, stops, eve, limbo, crashes>>

\* ... and closes the abandoned ones whose lock it can take.
ReconEveless(s) ==
    /\ s \in recon.eveless
    /\ recon' = [recon EXCEPT !.eveless = @ \ {s}]
    /\ sess' = IF lock[s] = None /\ Abandoned(s)
               THEN markSession(sess, s, "closed") ELSE sess
    /\ UNCHANGED <<run, lock, disp, tail, stops, eve, limbo, crashes>>

-----------------------------------------------------------------------------
\* The server listens before reconciliation is fired, so a request may come
\* at any time; without EarlyTraffic none happens to come during sweep 1.
Begin(d) ==
    /\ EarlyTraffic \/ recon.pc = "done"
    /\ \/ \E s \in Session, kind \in Kind, key \in BOOLEAN :
             LockFresh(d, s, kind, key)
       \/ \E s \in Session, kind \in Kind : LockSession(d, s, kind)
       \/ \E r \in Run : LockResume(d, r)
       \/ \E s \in Session : LockReset(d, s)

\* The steps a request takes by itself, and those eve takes for it.
DispatchStep(d) ==
    \/ Reread(d) \/ AdmitFresh(d) \/ AdmitMessage(d) \/ AdmitResume(d)
    \/ Ensure(d) \/ Arm(d) \/ SendReturns(d) \/ Persist(d) \/ Recheck(d)
    \/ StartTail(d) \/ FailGone(d) \/ FailEve(d) \/ FailRun(d)
    \/ FailSession(d) \/ ResetClose(d)
    \/ EveAnswers(d) \/ EveResets(d) \/ SendFails(d)

TailStep(r) ==
    TailAdopt(r) \/ TailReads(r) \/ TailFinish(r) \/ TailMarksSession(r)

Reconcile ==
    \/ ReconSelects \/ ReconSelectsEveless
    \/ \E row \in recon.rows : ReconRow(row)
    \/ \E s \in Session : ReconEveless(s)

Next ==
    \/ \E d \in Disp : Begin(d) \/ DispatchStep(d) \/ Abort(d)
    \/ \E s \in Session : EveStarts(s)
    \/ \E s \in Session, out \in Outcome : EveEnds(s, out)
    \/ \E r \in Run : EveAcceptsLate(r)
    \/ \E r \in Run : TailStep(r)
    \/ \E r \in Run : TailCap(r)
    \/ \E r \in Run : TailLost(r)
    \/ \E r \in Run : ObserveExpires(r)
    \/ \E r \in Run : StopLive(r)
    \/ \E r \in Run : StopBegins(r)
    \/ \E r \in Run : StopSettles(r)
    \/ \E r \in Run : SettleMet(r)
    \/ \E r \in Run : SettleUnresolved(r)
    \/ \E r \in Run : SettleObserves(r)
    \/ \E S \in SUBSET {r \in Run : tail[r].st = "follow"} : Restart(S)
    \/ Reconcile

Spec == Init /\ [][Next]_vars

\* Requests, tails, reconciliation and a Stop's handler run to their end and
\* the bounded waits (request timeouts, the wall-clock cap, the observation
\* window) elapse; the sweeper retries an obligation whose lock was held.
Fairness ==
    /\ \A d \in Disp : WF_vars(DispatchStep(d))
    /\ \A r \in Run : WF_vars(TailStep(r)) /\ WF_vars(TailCap(r))
    /\ \A r \in Run : WF_vars(ObserveExpires(r)) /\ WF_vars(StopSettles(r))
    /\ \A r \in Run : SF_vars(SettleMet(r)) /\ SF_vars(SettleUnresolved(r))
    /\ WF_vars(Reconcile)

FairSpec == Spec /\ Fairness

-----------------------------------------------------------------------------
(* Properties. *)

\* routes.ts failEveDispatch, dispatch.ts: however sends time out, processes
\* die and Stops land, a session row opens at most one eve session: the next
\* message never creates a second one beside a turn that may be running.
OneEveSessionPerRow == \A s \in Session : eve[s].creates <= 1

\* routes.ts countDispatchingRuns: one live run per session, under every
\* interleaving of admissions, HITL answers, Stops and recovery.
OneLiveRun == \A s \in Session : Cardinality(LiveRuns(s)) <= 1

\* reconcile.ts: "a control-plane crash leaves runs stuck in queued/running
\* forever" no more: whatever times out, is stopped or crashes, a run that was
\* admitted is finished or parked.
RunsSettle ==
    \A r \in Run : run[r].st \in {"queued", "running"}
                    ~> run[r].st \notin {"queued", "running"}

\* routes.ts settleRemoteCancelGuarded: an obligation is met, or declared
\* unresolved on the row; it is never left pending.
ObligationsSettle ==
    \A r \in Run : run[r].owed ~> ~run[r].owed \/ run[r].unresolved

\* A turn eve accepted for r and has not ended.
TurnOpen(r) ==
    LET e == eve[run[r].sess] IN
    run[r].st # "none" /\ (e.open = r \/ \E i \in 1 .. Len(e.queue) : e.queue[i] = r)

\* routes.ts settleRemoteCancelGuarded: "cleared ONLY on eve's OWN evidence".
\* While eve still owes or runs the turn of a run the user stopped, on a
\* session whose id is known, the row carries the obligation.
StoppedTurnIsOwed ==
    \A r \in Run :
        run[r].st = "canceled" /\ TurnOpen(r) /\ sess[run[r].sess].id
            => run[r].owed

\* The send of a run may still reach eve.
SendUnderWay(r) ==
    r \in limbo \/ \E d \in Disp : disp[d].run = r /\ disp[d].pc = "send"

\* dispatch.ts claim transaction: a Slack thread is taken over from a live
\* session only when nothing was sent for that session and nothing will be.
EvictionSparesDispatch ==
    [][\A s \in Session :
         sess[s].key /\ ~sess'[s].key /\ sess'[s].st \notin Dead =>
            /\ eve[s].creates = 0 /\ LiveRuns(s) = {}
            /\ \A r \in RunsOf(s) : ~SendUnderWay(r)]_vars

\* routes.ts withQuietSessionControl: from the quiet check to the close, a reset
\* has no run dispatched beneath it and no reader opened on the stream.
ResetStaysQuiet ==
    \A d \in Disp : disp[d].pc \in {"quiet", "resetting"} =>
        /\ LiveRuns(disp[d].sess) = {}
        /\ Tails(disp[d].sess, Reading \cup Draining) = {}

\* dispatch.ts casSessionLive: "under the lock it cannot happen": when eve has
\* accepted a turn, no tail, sweep or other dispatch has closed its session.
PersistLands ==
    \A d \in Disp : disp[d].pc = "persist" => sess[disp[d].sess].st \notin Dead

\* An event of r's turn that no reader has handled yet.
Unread(r) ==
    LET e == eve[run[r].sess] IN
    \E i \in e.cur + 1 .. Len(e.log) : e.log[i].run = r

\* tailer.ts run: a tail that knows its turn will meet the turn's end: it is
\* open at eve, or written and not yet read by anybody.  A crash is the
\* exception: the boundary is persisted before the row is finished, and a tail
\* restarted in between starts behind it.
TailMeetsItsEnd ==
    crashes = 0 => \A r \in Run :
        tail[r].st = "follow" /\ tail[r].saw => TurnOpen(r) \/ Unread(r)
=============================================================================
