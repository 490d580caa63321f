----------------------- MODULE SessionDispatchProofs -----------------------
(***************************************************************************)
(* What SessionDispatch promises, for any number of sessions, runs,        *)
(* requests and restarts.  The actions are first sorted into a few kinds   *)
(* of steps, each stated by what it does to one row of each table; the     *)
(* invariant then comes in layers, each proved from the kinds of steps.    *)
(***************************************************************************)
EXTENDS SessionDispatch, FiniteSetTheorems, TLAPS

SessRec == [st : {"none", "active", "waiting"} \cup Dead,
            id : BOOLEAN, key : BOOLEAN]
RunRec  == [st : {"none"} \cup LiveStatus \cup Terminal,
            sess : Session \cup {None}, armed : BOOLEAN, turn : BOOLEAN,
            owed : BOOLEAN, unresolved : BOOLEAN, hitl : BOOLEAN]
DispRec == [pc : DispPc, kind : AllKinds \cup {"none"},
            sess : Session \cup {None}, run : Run \cup {None},
            id : BOOLEAN, key : BOOLEAN]
TailRec == [st : TailPc, saw : BOOLEAN, hitl : BOOLEAN,
            out : AllOutcomes \cup {"none", "active", "waiting"} \cup Dead]
EveRec  == [creates : Nat, dead : BOOLEAN, queue : Seq(Run),
            open : Run \cup {None}, log : Seq(Event), cur : Nat]
RowRec  == [run : Run, armed : BOOLEAN, id : BOOLEAN]

-----------------------------------------------------------------------------
(* The store's statements, row by row.                                     *)

\* A run row that is written twice differs from the old one in the fields
\* named.
LEMMA MarkRun ==
  ASSUME NEW rs \in [Run -> RunRec], NEW r \in Run,
         NEW st \in LiveStatus \cup Terminal
  PROVE  /\ markRun(rs, r, st) \in [Run -> RunRec]
         /\ \A q \in Run :
              /\ markRun(rs, r, st)[q].sess = rs[q].sess
              /\ markRun(rs, r, st)[q].armed = rs[q].armed
              /\ markRun(rs, r, st)[q].turn = rs[q].turn
              /\ markRun(rs, r, st)[q].owed = rs[q].owed
              /\ markRun(rs, r, st)[q].st =
                   IF q = r /\ rs[r].st \in LiveStatus THEN st ELSE rs[q].st
BY DEF markRun, RunRec

LEMMA SettleOwing ==
  ASSUME NEW rs \in [Run -> RunRec], NEW r \in Run,
         NEW st \in LiveStatus \cup Terminal
  PROVE  /\ settleOwing(rs, r, st) \in [Run -> RunRec]
         /\ \A q \in Run :
              /\ settleOwing(rs, r, st)[q].sess = rs[q].sess
              /\ settleOwing(rs, r, st)[q].armed = rs[q].armed
              /\ settleOwing(rs, r, st)[q].turn = rs[q].turn
              /\ (settleOwing(rs, r, st)[q].owed
                    <=> rs[q].owed \/ (q = r /\ rs[r].st \in LiveStatus))
              /\ settleOwing(rs, r, st)[q].st =
                   IF q = r /\ rs[r].st \in LiveStatus THEN st ELSE rs[q].st
<1>1. CASE rs[r].st \in LiveStatus
  <2> DEFINE row == [rs[r] EXCEPT !.st = st, !.owed = TRUE]
  <2>1. settleOwing(rs, r, st) = [rs EXCEPT ![r] = row]
    BY <1>1 DEF settleOwing
  <2>2. /\ row \in RunRec
        /\ row.st = st /\ row.owed = TRUE
        /\ row.sess = rs[r].sess /\ row.armed = rs[r].armed
        /\ row.turn = rs[r].turn
    BY DEF RunRec
  <2> HIDE DEF row
  <2>3. \A q \in Run : settleOwing(rs, r, st)[q] = IF q = r THEN row ELSE rs[q]
    BY <2>1
  <2>4. settleOwing(rs, r, st) \in [Run -> RunRec]
    BY <2>1, <2>2
  <2> QED
    BY <1>1, <2>2, <2>3, <2>4
<1>2. CASE rs[r].st \notin LiveStatus
  BY <1>2 DEF settleOwing, RunRec
<1> QED
  BY <1>1, <1>2

LEMMA ClearPending ==
  ASSUME NEW rs \in [Run -> RunRec], NEW R
  PROVE  /\ clearRemoteCancelPending(rs, R) \in [Run -> RunRec]
         /\ \A q \in Run :
              /\ clearRemoteCancelPending(rs, R)[q].sess = rs[q].sess
              /\ clearRemoteCancelPending(rs, R)[q].armed = rs[q].armed
              /\ clearRemoteCancelPending(rs, R)[q].turn = rs[q].turn
              /\ clearRemoteCancelPending(rs, R)[q].owed => rs[q].owed
              /\ clearRemoteCancelPending(rs, R)[q].st = rs[q].st
BY DEF clearRemoteCancelPending, RunRec

LEMMA MarkSession ==
  ASSUME NEW ss \in [Session -> SessRec], NEW s \in Session,
         NEW st \in {"active", "waiting"} \cup Dead
  PROVE  /\ markSession(ss, s, st) \in [Session -> SessRec]
         /\ \A x \in Session \ {s} : markSession(ss, s, st)[x] = ss[x]
         /\ markSession(ss, s, st)[s].st = st
         /\ markSession(ss, s, st)[s].id = ss[s].id
         /\ (markSession(ss, s, st)[s].key <=> ss[s].key /\ st \notin Dead)
BY DEF markSession, SessRec

LEMMA StartTailRow ==
  ASSUME NEW ts \in [Run -> TailRec], NEW s \in Session, NEW r \in Run
  PROVE  /\ startTail(ts, s, r) \in [Run -> TailRec]
         /\ \A q \in Run :
              \/ startTail(ts, s, r)[q] = ts[q]
              \/ startTail(ts, s, r)[q] = NoTail
              \/ /\ q = r /\ ts[r].st = "none"
                 /\ startTail(ts, s, r)[r].st = "pre"
BY DEF startTail, TailRec, NoTail, TailPc

LEMMA StartObservationRow ==
  ASSUME NEW ts \in [Run -> TailRec], NEW rs \in [Run -> RunRec],
         NEW s \in Session, NEW r \in Run
  PROVE  /\ startObservation(ts, rs, s, r) \in [Run -> TailRec]
         /\ \A q \in Run :
              \/ startObservation(ts, rs, s, r)[q] = ts[q]
              \/ /\ q = r /\ ts[r].st = "none" /\ rs[r].owed
                 /\ startObservation(ts, rs, s, r)[r].st = "observe"
BY DEF startObservation, TailRec, NoTail, TailPc

-----------------------------------------------------------------------------
(* The shape of the rows: what every value a variable takes looks like.    *)

\* The steps at which a request owns a run of its session.
OwnPc == {"ensure", "arm", "send", "inflight", "persist", "recheck", "tail",
          "fail", "gone", "failrun", "failsess"}
Owner(d) == disp[d].pc \in OwnPc

\* A run row belongs to a session row; a number not given out yet has nothing,
\* and numbers are given out in order.
RunShape == \A r \in Run :
    /\ run[r].st # "none" =>
         run[r].sess \in Session /\ sess[run[r].sess].st # "none"
    /\ run[r].st = "none" => /\ ~run[r].armed /\ ~run[r].owed
                             /\ tail[r].st = "none" /\ r \notin limbo
    /\ run[r].st # "none" => \A q \in Run : q < r => run[q].st # "none"

SessShape == \A s \in Session :
    sess[s].st = "none" => ~sess[s].id /\ ~sess[s].key

\* What a tail has still to write is known from its step.
TailShape == \A r \in Run :
    /\ tail[r].st = "mark" => tail[r].out \in {"active", "waiting"} \cup Dead
    /\ tail[r].st = "stopping" => tail[r].out = "active"

\* A request at work holds its session's lock, and the run it names is one of
\* that session's.
RequestOf(d) == disp[d].pc # "idle" =>
    /\ disp[d].sess \in Session /\ lock[disp[d].sess] = d
    /\ disp[d].kind # "none"
    /\ disp[d].pc = "reread" => disp[d].kind \in {"message", "agentCont"}
    /\ disp[d].pc \in {"quiet", "resetting"} <=> disp[d].kind = "reset"
    /\ (disp[d].pc = "admit" /\ disp[d].kind \in Fresh)
         <=> sess[disp[d].sess].st = "none"
    /\ Owner(d) \/ (disp[d].pc = "admit" /\ disp[d].kind = "resume") =>
         /\ disp[d].run \in Run /\ run[disp[d].run].st # "none"
         /\ run[disp[d].run].sess = disp[d].sess
RequestShape == \A d \in Disp : RequestOf(d)

\* The first sweep works on runs that exist.
RowsShape == \A row \in recon.rows : run[row.run].st # "none"

Shape == /\ TypeOK /\ RunShape /\ SessShape /\ TailShape /\ RequestShape
         /\ RowsShape

-----------------------------------------------------------------------------
(* The kinds of steps.                                                     *)

\* Run rows keep their session and their marker; a settled run stays settled.
RunsKept == \A r \in Run :
    /\ run'[r].sess = run[r].sess
    /\ run'[r].armed <=> run[r].armed
    /\ run[r].st \notin LiveStatus => run'[r].st = run[r].st
    /\ run[r].st \in LiveStatus => run'[r].st \in LiveStatus \cup Terminal
    /\ run'[r].owed => run[r].owed \/ run'[r].st \in Terminal

\* No run is parked.
NoneParks == \A r \in Run : run'[r].st = "waiting" => run[r].st = "waiting"

\* The session x is closed, or ends in error.
Closing(x) == /\ sess[x].st # "none"
              /\ sess'[x].id <=> sess[x].id
              /\ sess'[x].st \in Dead /\ ~sess'[x].key

Others(d) == \A e \in Disp \ {d} : disp'[e] = disp[e]

SendPc == {"send", "inflight", "persist", "fail", "failrun", "failsess"}

\* A request ends.  If it had armed its run, that run is settled or the
\* session is dead.
Quit(d) ==
    /\ disp[d].pc # "idle"
    /\ Others(d) /\ disp'[d] = Idle
    /\ lock' = [lock EXCEPT ![disp[d].sess] = None]
    /\ RunsKept /\ NoneParks
    /\ \A x \in Session :
         sess'[x] = sess[x] \/ (x = disp[d].sess /\ Closing(x))
    /\ disp[d].pc \in SendPc =>
         \/ run'[disp[d].run].st \in Terminal
         \/ sess'[disp[d].sess].st \in Dead
    /\ UNCHANGED <<tail, recon, eve, limbo>>

Moves == {<<"ensure", "arm">>, <<"ensure", "fail">>, <<"ensure", "failrun">>,
          <<"send", "gone">>, <<"send", "fail">>, <<"send", "failrun">>,
          <<"inflight", "persist">>, <<"inflight", "fail">>,
          <<"inflight", "failrun">>, <<"recheck", "tail">>,
          <<"gone", "failrun">>, <<"fail", "failrun">>,
          <<"failrun", "failsess">>}

\* A request goes on to the step p.
Moved(d, p) ==
    /\ Others(d)
    /\ disp'[d].pc = p /\ disp'[d].kind = disp[d].kind
    /\ disp'[d].sess = disp[d].sess

Pass(d, p) ==
    /\ <<disp[d].pc, p>> \in Moves
    /\ Moved(d, p)
    /\ disp'[d].run = disp[d].run /\ (disp'[d].id <=> disp[d].id)
    /\ RunsKept /\ NoneParks
    /\ \A x \in Session :
         \/ sess'[x] = sess[x]
         \/ disp[d].pc \in {"gone", "fail"} /\ x = disp[d].sess /\ Closing(x)
    /\ p = "gone" => disp[d].id /\ eve[disp[d].sess].dead
    /\ \/ limbo' = limbo
       \/ disp[d].pc = "send" /\ limbo' = limbo \cup {disp[d].run}
    /\ UNCHANGED <<lock, tail, recon, eve>>

\* A request takes the lock of the session s.
Takes(d, s, p) ==
    /\ disp[d].pc = "idle" /\ lock[s] = None
    /\ EarlyTraffic \/ recon.pc = "done"
    /\ lock' = [lock EXCEPT ![s] = d]
    /\ Others(d) /\ disp'[d].pc = p /\ disp'[d].sess = s
    /\ \A x \in Session :
         \/ sess'[x] = sess[x]
         \/ x # s /\ lock[x] = None /\ Closing(x)
    /\ UNCHANGED <<run, tail, recon, eve, limbo>>

TakesFresh(d, s) ==
    /\ Takes(d, s, "admit")
    /\ disp'[d].kind \in Fresh /\ ~disp'[d].id
    /\ sess[s].st = "none"

TakesSession(d, s) ==
    /\ Takes(d, s, "reread")
    /\ disp'[d].kind \in {"message", "agentCont"}
    /\ sess[s].st # "none"

TakesParked(d, r) ==
    /\ Takes(d, run[r].sess, "admit")
    /\ disp'[d].kind = "resume" /\ disp'[d].id /\ disp'[d].run = r
    /\ run[r].st = "waiting"
    /\ sess[run[r].sess].id /\ sess[run[r].sess].st \notin Dead

TakesQuiet(d, s) ==
    /\ Takes(d, s, "quiet")
    /\ disp'[d].kind = "reset"
    /\ sess[s].id
    /\ \A r \in Run : run[r].st # "none" /\ run[r].sess = s =>
         run[r].st \notin LiveStatus /\ tail[r].st = "none"

\* The session is found alive and not abandoned.
Enters(d) ==
    /\ disp[d].pc = "reread" /\ Moved(d, "admit")
    /\ disp'[d].id <=> sess[disp[d].sess].id
    /\ sess[disp[d].sess].st \notin Dead /\ ~Abandoned(disp[d].sess)
    /\ UNCHANGED <<sess, run, lock, tail, recon, eve, limbo>>

\* A run is admitted: no other run of the session is live.
Admits(d, r) ==
    /\ disp[d].pc = "admit" /\ disp[d].kind \notin {"resume", "reset"}
    /\ Moved(d, "ensure")
    /\ disp'[d].run = r /\ (disp'[d].id <=> disp[d].id)
    /\ run[r].st = "none" /\ \A q \in Run : run[q].st = "none" => r <= q
    /\ \A q \in Run \ {r} : run'[q] = run[q]
    /\ run'[r] = [NoRun EXCEPT !.st = "queued", !.sess = disp[d].sess]
    /\ \A q \in Run : run[q].st # "none" /\ run[q].sess = disp[d].sess =>
         run[q].st \notin LiveStatus
    /\ \A x \in Session : /\ sess'[x].id <=> sess[x].id
                          /\ x # disp[d].sess => sess'[x].st = sess[x].st
                          /\ sess'[x].key => sess'[x].st # "none"
    /\ \A x \in Session : sess[x].key /\ ~sess'[x].key => Evictable(x)
    /\ IF disp[d].kind \in Fresh THEN sess'[disp[d].sess].st = "active"
       ELSE sess'[disp[d].sess].st = sess[disp[d].sess].st
    /\ UNCHANGED <<lock, tail, recon, eve, limbo>>

\* The answer flips its parked run.
Flips(d) ==
    /\ disp[d].pc = "admit" /\ disp[d].kind = "resume"
    /\ Moved(d, "ensure")
    /\ disp'[d].run = disp[d].run /\ (disp'[d].id <=> disp[d].id)
    /\ run[disp[d].run].st = "waiting" /\ run'[disp[d].run].st = "queued"
    /\ RunsKept /\ NoneParks
    /\ UNCHANGED <<sess, lock, tail, recon, eve, limbo>>

\* The marker is written on a live run.
Arms(d) ==
    /\ disp[d].pc = "arm" /\ Moved(d, "send")
    /\ disp'[d].run = disp[d].run /\ (disp'[d].id <=> disp[d].id)
    /\ run[disp[d].run].st \in LiveStatus
    /\ \A q \in Run \ {disp[d].run} : run'[q] = run[q]
    /\ run'[disp[d].run].st = "queued" /\ run'[disp[d].run].armed
    /\ run'[disp[d].run].sess = run[disp[d].run].sess
    /\ run'[disp[d].run].owed <=> run[disp[d].run].owed
    /\ ~run'[disp[d].run].turn
    /\ UNCHANGED <<sess, lock, tail, recon, eve, limbo>>

\* eve accepts the send.
Accepted(d) ==
    /\ disp[d].pc = "send" /\ Moved(d, "inflight")
    /\ disp'[d].run = disp[d].run /\ (disp'[d].id <=> disp[d].id)
    /\ disp[d].id => ~eve[disp[d].sess].dead
    /\ \A r \in limbo : run[r].sess # disp[d].sess
    /\ Accept(disp[d].sess, disp[d].run, ~disp[d].id)
    /\ UNCHANGED <<sess, run, lock, tail, recon, limbo>>

\* The eve id is written.
Persists(d) ==
    /\ disp[d].pc = "persist" /\ Moved(d, "recheck")
    /\ disp'[d].run = disp[d].run
    /\ sess' = casSessionLive(sess, disp[d].sess)
    /\ UNCHANGED <<run, lock, tail, recon, eve, limbo>>

\* The run was settled meanwhile: the dispatch is given up, and an observation
\* tail may open for it.
Abandons(d) ==
    /\ disp[d].pc = "recheck"
    /\ Others(d) /\ disp'[d] = Idle
    /\ lock' = [lock EXCEPT ![disp[d].sess] = None]
    /\ RunsKept /\ NoneParks
    /\ \A x \in Session :
         sess'[x] = sess[x] \/ (x = disp[d].sess /\ Closing(x))
    /\ \A q \in Run :
         \/ tail'[q] = tail[q]
         \/ /\ q = disp[d].run /\ tail[q].st = "none"
            /\ tail'[q].st = "observe" /\ run'[q].st \in Terminal
    /\ UNCHANGED <<recon, eve, limbo>>

\* The tail of a run starts, and observers of its session go.
TailsStart(r) == \A q \in Run :
    \/ tail'[q] = tail[q]
    \/ tail'[q] = NoTail
    \/ q = r /\ tail[q].st = "none" /\ tail'[q].st = "pre"

Follows(d) ==
    /\ disp[d].pc = "tail"
    /\ Others(d) /\ disp'[d] = Idle
    /\ lock' = [lock EXCEPT ![disp[d].sess] = None]
    /\ TailsStart(disp[d].run)
    /\ UNCHANGED <<sess, run, recon, eve, limbo>>

\* A reset closes its session and may open a replacement row.
Replaces(d) ==
    /\ disp[d].pc = "resetting"
    /\ Others(d) /\ disp'[d] = Idle
    /\ lock' = [lock EXCEPT ![disp[d].sess] = None]
    /\ RunsKept /\ NoneParks
    /\ \A x \in Session :
         \/ sess'[x] = sess[x]
         \/ x = disp[d].sess /\ Closing(x)
         \/ /\ x # disp[d].sess /\ sess[x].st = "none" /\ lock[x] = None
            /\ sess'[x] = [sess[x] EXCEPT !.st = "active"]
    /\ UNCHANGED <<tail, recon, eve, limbo>>

\* eve retires the id.
Retires(d) ==
    /\ disp[d].pc = "quiet" /\ Moved(d, "resetting")
    /\ eve' = [eve EXCEPT ![disp[d].sess].dead = TRUE,
                          ![disp[d].sess].queue = <<>>,
                          ![disp[d].sess].open = None]
    /\ UNCHANGED <<sess, run, lock, tail, recon, limbo>>

\* A write to run rows alone, or none.
Settles ==
    /\ RunsKept /\ NoneParks
    /\ UNCHANGED <<sess, lock, disp, tail, recon, eve, limbo>>

\* What a tail may become.
TailTurn(r) ==
    \/ tail'[r].st = "none"
    \/ tail'[r].st = tail[r].st /\ tail'[r].out = tail[r].out
    \/ /\ tail[r].st = "pre" /\ tail'[r].st = "follow"
       /\ run'[r].st # "waiting"
    \/ /\ tail[r].st = "follow" /\ tail'[r].st = "ended"
       /\ \E i \in 1 .. Len(eve[run[r].sess].log) :
            /\ eve[run[r].sess].log[i].type = "end"
            /\ eve[run[r].sess].log[i].out = tail'[r].out
    \/ /\ tail[r].st = "ended" /\ tail'[r].st = "mark"
       /\ run[r].st \in LiveStatus
       /\ tail'[r].out = SessionStatusAt(tail[r].out)
    \/ /\ tail[r].st \in {"pre", "follow"} /\ tail'[r].st \in {"mark", "stopping"}
       /\ tail'[r].out = "active" /\ run'[r].st \in Terminal
    \/ /\ tail[r].st \in {"pre", "follow"} /\ tail'[r].st = "observe"
       /\ run'[r].st \in Terminal
    \/ tail[r].st = "stopping" /\ tail'[r].st = "observe"
    \/ /\ tail[r].st = "none" /\ tail'[r].st = "observe"
       /\ run[r].owed /\ lock[run[r].sess] = None /\ sess[run[r].sess].id

\* A step of the tail of r.
TailMove(r) ==
    /\ RunsKept
    /\ \A q \in Run : run'[q].st = "waiting" =>
         \/ run[q].st = "waiting"
         \/ q = r /\ tail[r].st = "ended" /\ tail'[r].st = "mark"
    /\ \A q \in Run \ {r} : tail'[q] = tail[q]
    /\ tail[r].st # "none" \/ (tail'[r].st = "observe" /\ run[r].owed)
         \/ tail'[r] = tail[r]
    /\ TailTurn(r)
    /\ \A x \in Session :
         \/ sess'[x] = sess[x]
         \/ /\ x = run[r].sess /\ tail[r].st \in {"mark", "stopping"}
            /\ tail'[r].st \in {"none", "observe"}
            /\ sess'[x].id <=> sess[x].id
            /\ sess'[x].st = tail[r].out
            /\ sess'[x].key <=> sess[x].key /\ tail[r].out \notin Dead
    /\ \A x \in Session :
         /\ eve'[x].creates = eve[x].creates /\ (eve'[x].dead <=> eve[x].dead)
         /\ eve'[x].queue = eve[x].queue /\ eve'[x].open = eve[x].open
         /\ eve'[x].log = eve[x].log
         /\ eve[x].log = <<>> => eve'[x] = eve[x]
         /\ \/ eve'[x].cur = eve[x].cur
            \/ eve[x].cur < Len(eve[x].log) /\ eve'[x].cur = eve[x].cur + 1
    /\ UNCHANGED <<lock, disp, recon, limbo>>

\* A row of the first sweep is dealt with.
Sweeps(row) ==
    /\ recon.pc = "runs" /\ row \in recon.rows
    /\ recon'.pc = recon.pc /\ recon'.rows = recon.rows \ {row}
    /\ \/ tail[row.run].st # "none" /\ UNCHANGED <<run, tail>>
       \/ /\ tail[row.run].st = "none" /\ row.armed /\ row.id
          /\ TailsStart(row.run) /\ UNCHANGED run
       \/ /\ tail[row.run].st = "none" /\ UNCHANGED tail
          /\ RunsKept /\ NoneParks /\ run'[row.run].st \notin LiveStatus
    /\ UNCHANGED <<sess, lock, disp, eve, limbo>>

\* A session of the second sweep is dealt with.
Heals(s) ==
    /\ recon'.pc = recon.pc /\ recon'.rows = recon.rows
    /\ \A x \in Session :
         sess'[x] = sess[x] \/ (lock[x] = None /\ Closing(x))
    /\ UNCHANGED <<run, lock, disp, tail, eve, limbo>>

\* The process is gone, with its requests, its tails and its locks.
Reboots ==
    /\ RunsKept /\ NoneParks
    /\ \A d \in Disp : disp'[d] = Idle
    /\ \A r \in Run : tail'[r] = NoTail
    /\ lock' = [s \in Session |-> None]
    /\ recon' = [pc |-> "boot", rows |-> {}, eveless |-> {}]
    /\ \A r \in limbo' :
         r \in limbo \/ \E d \in Disp : disp[d].pc = "send" /\ disp[d].run = r
    /\ UNCHANGED <<sess, eve>>

-----------------------------------------------------------------------------
(* Type correctness.                                                       *)

ReconRec == [pc : {"boot", "runs", "done"}, rows : SUBSET RowRec,
             eveless : SUBSET Session]

\* The type invariant with its record sets named.
LEMMA TypesNamed ==
  /\ TypeOK <=>
      /\ sess \in [Session -> SessRec] /\ run \in [Run -> RunRec]
      /\ lock \in [Session -> Disp \cup {None}]
      /\ disp \in [Disp -> DispRec] /\ tail \in [Run -> TailRec]
      /\ stops \subseteq Run /\ recon \in ReconRec
      /\ eve \in [Session -> EveRec] /\ limbo \subseteq Run
      /\ crashes \in 0 .. MaxCrashes
  /\ TypeOK' <=>
      /\ sess' \in [Session -> SessRec] /\ run' \in [Run -> RunRec]
      /\ lock' \in [Session -> Disp \cup {None}]
      /\ disp' \in [Disp -> DispRec] /\ tail' \in [Run -> TailRec]
      /\ stops' \subseteq Run /\ recon' \in ReconRec
      /\ eve' \in [Session -> EveRec] /\ limbo' \subseteq Run
      /\ crashes' \in 0 .. MaxCrashes
BY DEF TypeOK, SessRec, RunRec, DispRec, TailRec, ReconRec, RowRec, EveRec

\* Sessions and runs are numbers; no request is None.
LEMMA Numbers ==
  /\ \A s \in Session : s \in Nat /\ s # None
  /\ \A r \in Run : r \in Nat /\ r # None
  /\ None \notin Disp
BY DispatchAssumption DEF Session, Run, None

\* What a step that ends a request writes.
LEMMA FinishTypes ==
  ASSUME Shape, NEW d \in Disp, Finish(d)
  PROVE  /\ disp' \in [Disp -> DispRec] /\ lock' \in [Session -> Disp \cup {None}]
         /\ Others(d) /\ disp'[d] = Idle
         /\ lock' = [lock EXCEPT ![disp[d].sess] = None]
BY TypesNamed DEF Shape, Finish, Others, DispRec, Idle, DispPc

\* What a step that moves a request on writes.
LEMMA GotoTypes ==
  ASSUME Shape, NEW d \in Disp, NEW p \in DispPc, Goto(d, p)
  PROVE  /\ disp' \in [Disp -> DispRec] /\ UNCHANGED lock
         /\ Moved(d, p)
         /\ disp'[d].run = disp[d].run /\ (disp'[d].id <=> disp[d].id)
BY TypesNamed DEF Shape, Goto, Others, Moved, DispRec

\* Nothing is written to the runs, or only what RunsKept allows.
LEMMA RunsSame ==
  ASSUME Shape, UNCHANGED run
  PROVE  RunsKept /\ NoneParks
BY TypesNamed DEF Shape, RunsKept, NoneParks, RunRec

LEMMA RunsMarked ==
  ASSUME Shape, NEW r \in Run, NEW st \in Terminal, run' = markRun(run, r, st)
  PROVE  /\ run' \in [Run -> RunRec] /\ RunsKept /\ NoneParks
         /\ run[r].st # "none" => run'[r].st \in Terminal
<1>1. run \in [Run -> RunRec]
  BY TypesNamed DEF Shape
<1>2. /\ run' \in [Run -> RunRec]
      /\ \A q \in Run :
              /\ run'[q].sess = run[q].sess
              /\ run'[q].armed = run[q].armed
              /\ run'[q].owed = run[q].owed
              /\ run'[q].st = IF q = r /\ run[r].st \in LiveStatus THEN st ELSE run[q].st
  BY <1>1, MarkRun
<1> QED
  BY <1>1, <1>2 DEF RunsKept, NoneParks, RunRec, LiveStatus, Terminal

LEMMA RunsSettled ==
  ASSUME Shape, NEW r \in Run, NEW st \in Terminal, run' = settleOwing(run, r, st)
  PROVE  /\ run' \in [Run -> RunRec] /\ RunsKept /\ NoneParks
         /\ run[r].st # "none" => run'[r].st \in Terminal
<1>1. run \in [Run -> RunRec]
  BY TypesNamed DEF Shape
<1>2. /\ run' \in [Run -> RunRec]
      /\ \A q \in Run :
              /\ run'[q].sess = run[q].sess
              /\ run'[q].armed = run[q].armed
              /\ run'[q].owed <=> run[q].owed \/ (q = r /\ run[r].st \in LiveStatus)
              /\ run'[q].st = IF q = r /\ run[r].st \in LiveStatus THEN st ELSE run[q].st
  BY <1>1, SettleOwing
<1> QED
  BY <1>1, <1>2 DEF RunsKept, NoneParks, RunRec, LiveStatus, Terminal

LEMMA RunsCleared ==
  ASSUME Shape, NEW R, run' = clearRemoteCancelPending(run, R)
  PROVE  run' \in [Run -> RunRec] /\ RunsKept /\ NoneParks
<1>1. run \in [Run -> RunRec]
  BY TypesNamed DEF Shape
<1>2. /\ run' \in [Run -> RunRec]
      /\ \A q \in Run :
              /\ run'[q].sess = run[q].sess
              /\ run'[q].armed = run[q].armed
              /\ run'[q].owed => run[q].owed
              /\ run'[q].st = run[q].st
  BY <1>1, ClearPending
<1> QED
  BY <1>1, <1>2 DEF RunsKept, NoneParks, RunRec, LiveStatus, Terminal

\* The session s is closed, if the step says so.
LEMMA SessionClosed ==
  ASSUME Shape, NEW s \in Session, sess[s].st # "none", NEW st \in Dead,
         sess' = markSession(sess, s, st)
  PROVE  /\ sess' \in [Session -> SessRec] /\ Closing(s)
         /\ \A x \in Session : sess'[x] = sess[x] \/ (x = s /\ Closing(x))
<1>1. sess \in [Session -> SessRec]
  BY TypesNamed DEF Shape
<1>2. /\ markSession(sess, s, st) \in [Session -> SessRec]
      /\ \A x \in Session \ {s} : markSession(sess, s, st)[x] = sess[x]
      /\ markSession(sess, s, st)[s].st = st
      /\ markSession(sess, s, st)[s].id = sess[s].id
      /\ (markSession(sess, s, st)[s].key <=> sess[s].key /\ st \notin Dead)
  BY <1>1, MarkSession, Zenon
<1> QED
  BY <1>2 DEF Closing

\* The tables' types, and what the shape of a request says of it.
LEMMA Tables ==
  ASSUME Shape
  PROVE  /\ sess \in [Session -> SessRec] /\ run \in [Run -> RunRec]
         /\ lock \in [Session -> Disp \cup {None}]
         /\ disp \in [Disp -> DispRec] /\ tail \in [Run -> TailRec]
         /\ stops \subseteq Run /\ recon \in ReconRec
         /\ eve \in [Session -> EveRec] /\ limbo \subseteq Run
         /\ crashes \in 0 .. MaxCrashes
BY TypesNamed DEF Shape

LEMMA Request ==
  ASSUME Shape, NEW d \in Disp, disp[d].pc # "idle"
  PROVE  /\ disp[d].sess \in Session /\ lock[disp[d].sess] = d
         /\ disp[d].kind \in AllKinds
         /\ disp[d].pc # "admit" => sess[disp[d].sess].st # "none"
         /\ Owner(d) => /\ disp[d].run \in Run /\ run[disp[d].run].st # "none"
                        /\ run[disp[d].run].sess = disp[d].sess
<1>1. disp \in [Disp -> DispRec]
  BY Tables
<1> QED
  BY <1>1 DEF Shape, RequestShape, RequestOf, DispRec

-----------------------------------------------------------------------------
(* Every action is a step of one of the kinds, and keeps the types.        *)

LEMMA RereadStep ==
  ASSUME Shape, NEW d \in Disp, Reread(d)
  PROVE  TypeOK' /\ (Quit(d) \/ Enters(d))
<1> DEFINE s == disp[d].sess
<1>1. disp[d].pc = "reread" /\ s \in Session /\ sess[s].st # "none"
  BY Request DEF Reread
<1>2. UNCHANGED <<run, tail, stops, recon, eve, limbo, crashes>>
  BY DEF Reread, rest
<1>3. RunsKept /\ NoneParks
  BY <1>2, RunsSame
<1>4. CASE sess[s].st \in Dead /\ UNCHANGED sess /\ Finish(d)
  <2>1. Quit(d)
    BY <1>1, <1>2, <1>3, <1>4, FinishTypes DEF Quit, SendPc
  <2> QED
    BY <1>2, <1>4, <2>1, FinishTypes, Tables, TypesNamed
<1>5. CASE Abandoned(s) /\ sess' = markSession(sess, s, "closed") /\ Finish(d)
  <2>1. /\ sess' \in [Session -> SessRec]
        /\ \A x \in Session : sess'[x] = sess[x] \/ (x = s /\ Closing(x))
    BY <1>1, <1>5, SessionClosed DEF Dead
  <2>2. Quit(d)
    BY <1>1, <1>2, <1>3, <1>5, <2>1, FinishTypes DEF Quit, SendPc
  <2> QED
    BY <1>2, <1>5, <2>1, <2>2, FinishTypes, Tables, TypesNamed
<1>6. CASE /\ sess[s].st \notin Dead /\ ~Abandoned(s)
           /\ disp' = [disp EXCEPT ![d].pc = "admit", ![d].id = sess[s].id]
           /\ UNCHANGED <<sess, lock>>
  <2> DEFINE row == [disp[d] EXCEPT !.pc = "admit", !.id = sess[s].id]
  <2>1. disp' = [disp EXCEPT ![d] = row]
    BY <1>6
  <2>2. disp \in [Disp -> DispRec] /\ sess \in [Session -> SessRec]
    BY Tables
  <2>3. /\ row \in DispRec /\ row.pc = "admit" /\ row.kind = disp[d].kind
        /\ row.sess = s /\ row.id = sess[s].id
    BY <1>1, <2>2 DEF DispRec, SessRec, DispPc
  <2> HIDE DEF row
  <2>4. disp' \in [Disp -> DispRec] /\ Moved(d, "admit")
        /\ (disp'[d].id <=> sess[s].id)
    BY <2>1, <2>2, <2>3 DEF Moved, Others
  <2>5. Enters(d)
    BY <1>1, <1>2, <1>6, <2>4 DEF Enters
  <2> QED
    BY <1>2, <1>6, <2>4, <2>5, Tables, TypesNamed
<1> QED
  BY <1>4, <1>5, <1>6 DEF Reread

LEMMA EnsureStep ==
  ASSUME Shape, NEW d \in Disp, Ensure(d)
  PROVE  TypeOK' /\ \E p \in DispPc : Pass(d, p)
<1>1. disp[d].pc = "ensure"
  BY DEF Ensure
<1>2. UNCHANGED <<sess, run, tail, stops, recon, eve, limbo, crashes>>
  BY DEF Ensure, database, rest
<1>3. RunsKept /\ NoneParks
  BY <1>2, RunsSame
<1>4. PICK p \in {"arm", "failrun", "fail"} : Goto(d, p)
  BY DEF Ensure
<1>5. p \in DispPc /\ <<disp[d].pc, p>> \in Moves /\ p # "gone"
  BY <1>1 DEF DispPc, Moves
<1>6. Pass(d, p)
  BY <1>1, <1>2, <1>3, <1>4, <1>5, GotoTypes DEF Pass
<1> QED
  BY <1>2, <1>4, <1>5, <1>6, GotoTypes, Tables, TypesNamed

LEMMA AbortStep ==
  ASSUME Shape, NEW d \in Disp, Abort(d)
  PROVE  TypeOK' /\ Quit(d)
<1> DEFINE s == disp[d].sess
           r == disp[d].run
<1>1. disp[d].pc \in {"ensure", "send"} /\ disp[d].pc # "idle" /\ Owner(d)
  BY DEF Abort, Owner, OwnPc
<1>2. /\ s \in Session /\ sess[s].st # "none"
      /\ r \in Run /\ run[r].st # "none"
  BY <1>1, Request
<1>3. UNCHANGED <<tail, stops, recon, eve, limbo, crashes>> /\ Finish(d)
  BY DEF Abort, rest
<1>4. /\ run' \in [Run -> RunRec] /\ RunsKept /\ NoneParks
      /\ run'[r].st \in Terminal
  BY <1>2, RunsMarked DEF Abort, Terminal
<1>5. /\ sess' \in [Session -> SessRec]
      /\ \A x \in Session : sess'[x] = sess[x] \/ (x = s /\ Closing(x))
  <2>1. CASE sess' = markSession(sess, s, "closed")
    BY <1>2, <2>1, SessionClosed DEF Dead
  <2>2. CASE sess' = sess
    BY <2>2, Tables
  <2> QED
    BY <2>1, <2>2 DEF Abort
<1>6. Quit(d)
  BY <1>1, <1>3, <1>4, <1>5, FinishTypes DEF Quit
<1> QED
  BY <1>3, <1>4, <1>5, <1>6, FinishTypes, Tables, TypesNamed

LEMMA SendFailsStep ==
  ASSUME Shape, NEW d \in Disp, SendFails(d)
  PROVE  TypeOK' /\ \E p \in DispPc : Pass(d, p)
<1>1. disp[d].pc \in {"send", "inflight"} /\ Owner(d) /\ disp[d].pc # "idle"
  BY DEF SendFails, Owner, OwnPc
<1>2. UNCHANGED <<sess, run, tail, stops, recon, eve, crashes>>
  BY DEF SendFails, database
<1>3. RunsKept /\ NoneParks
  BY <1>2, RunsSame
<1>4. PICK p \in {"failrun", "fail"} : Goto(d, p)
  BY DEF SendFails
<1>5. p \in DispPc /\ <<disp[d].pc, p>> \in Moves /\ p # "gone"
  BY <1>1 DEF DispPc, Moves
<1>6. \/ limbo' = limbo
      \/ disp[d].pc = "send" /\ limbo' = limbo \cup {disp[d].run}
  BY DEF SendFails
<1>7. limbo' \subseteq Run
  BY <1>1, <1>6, Request, Tables
<1>8. Pass(d, p)
  BY <1>1, <1>2, <1>3, <1>4, <1>5, <1>6, GotoTypes DEF Pass
<1> QED
  BY <1>2, <1>4, <1>5, <1>7, <1>8, GotoTypes, Tables, TypesNamed

LEMMA SendReturnsStep ==
  ASSUME Shape, NEW d \in Disp, SendReturns(d)
  PROVE  TypeOK' /\ \E p \in DispPc : Pass(d, p)
<1>1. disp[d].pc = "inflight" /\ Goto(d, "persist")
  BY DEF SendReturns
<1>2. UNCHANGED <<sess, run, tail, stops, recon, eve, limbo, crashes>>
  BY DEF SendReturns, database, rest
<1>3. RunsKept /\ NoneParks
  BY <1>2, RunsSame
<1>4. "persist" \in DispPc /\ <<disp[d].pc, "persist">> \in Moves
  BY <1>1 DEF DispPc, Moves
<1>5. Pass(d, "persist")
  BY <1>1, <1>2, <1>3, <1>4, GotoTypes DEF Pass
<1> QED
  BY <1>1, <1>2, <1>4, <1>5, GotoTypes, Tables, TypesNamed

LEMMA FailGoneStep ==
  ASSUME Shape, NEW d \in Disp, FailGone(d)
  PROVE  TypeOK' /\ \E p \in DispPc : Pass(d, p)
<1> DEFINE s == disp[d].sess
<1>1. disp[d].pc = "gone" /\ Goto(d, "failrun")
  BY DEF FailGone
<1>2. UNCHANGED <<tail, stops, recon, eve, limbo, crashes>>
  BY DEF FailGone, rest
<1>3. s \in Session /\ sess[s].st # "none"
  BY <1>1, Request
<1>4. run' \in [Run -> RunRec] /\ RunsKept /\ NoneParks
  BY RunsCleared DEF FailGone
<1>5. /\ sess' \in [Session -> SessRec]
      /\ \A x \in Session : sess'[x] = sess[x] \/ (x = s /\ Closing(x))
  BY <1>3, SessionClosed DEF FailGone, Dead
<1>6. "failrun" \in DispPc /\ <<disp[d].pc, "failrun">> \in Moves
  BY <1>1 DEF DispPc, Moves
<1>7. Pass(d, "failrun")
  BY <1>1, <1>2, <1>4, <1>5, <1>6, GotoTypes DEF Pass
<1> QED
  BY <1>1, <1>2, <1>4, <1>5, <1>6, <1>7, GotoTypes, Tables, TypesNamed

LEMMA FailEveStep ==
  ASSUME Shape, NEW d \in Disp, FailEve(d)
  PROVE  TypeOK' /\ \E p \in DispPc : Pass(d, p)
<1> DEFINE s == disp[d].sess
<1>1. disp[d].pc = "fail" /\ Goto(d, "failrun")
  BY DEF FailEve
<1>2. UNCHANGED <<run, tail, stops, recon, eve, limbo, crashes>>
  BY DEF FailEve, rest
<1>3. s \in Session /\ sess[s].st # "none"
  BY <1>1, Request
<1>4. RunsKept /\ NoneParks
  BY <1>2, RunsSame
<1>5. /\ sess' \in [Session -> SessRec]
      /\ \A x \in Session : sess'[x] = sess[x] \/ (x = s /\ Closing(x))
  <2>1. CASE sess' = markSession(sess, s, "closed")
    BY <1>3, <2>1, SessionClosed DEF Dead
  <2>2. CASE sess' = sess
    BY <2>2, Tables
  <2> QED
    BY <2>1, <2>2 DEF FailEve
<1>6. "failrun" \in DispPc /\ <<disp[d].pc, "failrun">> \in Moves
  BY <1>1 DEF DispPc, Moves
<1>7. Pass(d, "failrun")
  BY <1>1, <1>2, <1>4, <1>5, <1>6, GotoTypes DEF Pass
<1> QED
  BY <1>1, <1>2, <1>5, <1>6, <1>7, GotoTypes, Tables, TypesNamed

LEMMA FailRunStep ==
  ASSUME Shape, NEW d \in Disp, FailRun(d)
  PROVE  TypeOK' /\ (Quit(d) \/ \E p \in DispPc : Pass(d, p))
<1> DEFINE r == disp[d].run
<1>1. disp[d].pc = "failrun" /\ Owner(d)
  BY DEF FailRun, Owner, OwnPc
<1>2. UNCHANGED <<sess, tail, stops, recon, eve, limbo, crashes>>
  BY DEF FailRun, rest
<1>3. r \in Run /\ run[r].st # "none"
  BY <1>1, Request
<1>4. /\ run' \in [Run -> RunRec] /\ RunsKept /\ NoneParks
      /\ run'[r].st \in Terminal
  BY <1>3, RunsMarked DEF FailRun, Terminal
<1>5. CASE Goto(d, "failsess")
  <2>1. "failsess" \in DispPc /\ <<disp[d].pc, "failsess">> \in Moves
    BY <1>1 DEF DispPc, Moves
  <2>2. Pass(d, "failsess")
    BY <1>1, <1>2, <1>4, <1>5, <2>1, GotoTypes DEF Pass
  <2> QED
    BY <1>2, <1>4, <1>5, <2>1, <2>2, GotoTypes, Tables, TypesNamed
<1>6. CASE Finish(d)
  <2>1. Quit(d)
    BY <1>1, <1>2, <1>4, <1>6, FinishTypes DEF Quit
  <2> QED
    BY <1>2, <1>4, <1>6, <2>1, FinishTypes, Tables, TypesNamed
<1> QED
  BY <1>5, <1>6 DEF FailRun

LEMMA FailSessionStep ==
  ASSUME Shape, NEW d \in Disp, FailSession(d)
  PROVE  TypeOK' /\ Quit(d)
<1> DEFINE s == disp[d].sess
<1>1. disp[d].pc = "failsess" /\ Finish(d)
  BY DEF FailSession
<1>2. UNCHANGED <<run, tail, stops, recon, eve, limbo, crashes>>
  BY DEF FailSession, rest
<1>3. s \in Session /\ sess[s].st # "none"
  BY <1>1, Request
<1>4. RunsKept /\ NoneParks
  BY <1>2, RunsSame
<1>5. /\ sess' \in [Session -> SessRec] /\ Closing(s)
      /\ \A x \in Session : sess'[x] = sess[x] \/ (x = s /\ Closing(x))
  BY <1>3, SessionClosed DEF Dead, FailSession
<1>6. Quit(d)
  BY <1>1, <1>2, <1>4, <1>5, FinishTypes DEF Quit, Closing
<1> QED
  BY <1>1, <1>2, <1>5, <1>6, FinishTypes, Tables, TypesNamed

\* A request that takes the lock of s, whatever row it starts from.
LEMMA TakeTypes ==
  ASSUME Shape, NEW d \in Disp, NEW s \in Session, NEW row \in DispRec,
         lock' = [lock EXCEPT ![s] = d], disp' = [disp EXCEPT ![d] = row]
  PROVE  /\ disp' \in [Disp -> DispRec] /\ lock' \in [Session -> Disp \cup {None}]
         /\ Others(d) /\ disp'[d] = row
BY Tables DEF Others

LEMMA LockFreshStep ==
  ASSUME Shape, NEW d \in Disp, NEW s \in Session, NEW kind \in Kind,
         NEW key \in BOOLEAN, LockFresh(d, s, kind, key),
         EarlyTraffic \/ recon.pc = "done"
  PROVE  TypeOK' /\ TakesFresh(d, s)
<1> DEFINE row == [pc |-> "admit", kind |-> kind, sess |-> s,
                   run |-> None, id |-> FALSE, key |-> key]
<1>1. /\ disp[d].pc = "idle" /\ sess[s].st = "none" /\ lock[s] = None
      /\ kind \in Fresh /\ ~sess[s].key
      /\ lock' = [lock EXCEPT ![s] = d] /\ disp' = [disp EXCEPT ![d] = row]
  BY DEF LockFresh, Shape, SessShape
<1>2. row \in DispRec
  BY <1>1 DEF DispRec, DispPc, Fresh, AllKinds
<1>3. /\ row.pc = "admit" /\ row.kind = kind /\ row.sess = s /\ row.id = FALSE
  OBVIOUS
<1> HIDE DEF row
<1>4. UNCHANGED <<run, tail, stops, recon, eve, limbo, crashes>>
  BY DEF LockFresh, rest
<1>5. /\ sess' \in [Session -> SessRec]
      /\ \A x \in Session : sess'[x] = sess[x] \/ (x # s /\ lock[x] = None /\ Closing(x))
  <2>1. CASE UNCHANGED sess
    BY <2>1, Tables
  <2>2. CASE HealHolder
    <3> DEFINE hit(x) == sess[x].key /\ lock[x] = None /\ Abandoned(x)
    <3>1. sess' = [x \in Session |->
                     IF hit(x) THEN markSession(sess, x, "closed")[x] ELSE sess[x]]
      BY <2>2 DEF HealHolder
    <3>2. \A x \in Session :
            /\ markSession(sess, x, "closed")[x] \in SessRec
            /\ markSession(sess, x, "closed")[x].st = "closed"
            /\ markSession(sess, x, "closed")[x].id = sess[x].id
            /\ ~markSession(sess, x, "closed")[x].key
      BY Tables, MarkSession DEF Dead
    <3>3. \A x \in Session : hit(x) => sess[x].st # "none" /\ x # s /\ lock[x] = None
      BY <1>1 DEF Abandoned
    <3> HIDE DEF hit
    <3>4. sess' \in [Session -> SessRec]
      BY <3>1, <3>2, Tables
    <3>5. ASSUME NEW x \in Session, sess'[x] # sess[x]
          PROVE  hit(x) /\ sess'[x] = markSession(sess, x, "closed")[x]
      BY <3>1, <3>5
    <3>6. ASSUME NEW x \in Session, sess'[x] # sess[x]
          PROVE  Closing(x)
      BY <3>2, <3>3, <3>5, <3>6 DEF Closing, Dead
    <3> QED
      BY <3>3, <3>4, <3>5, <3>6
  <2> QED
    BY <2>1, <2>2 DEF LockFresh
<1>6. TakesFresh(d, s)
  BY <1>1, <1>2, <1>3, <1>4, <1>5, TakeTypes DEF TakesFresh, Takes
<1> QED
  BY <1>1, <1>2, <1>4, <1>5, <1>6, TakeTypes, Tables, TypesNamed

LEMMA LockSessionStep ==
  ASSUME Shape, NEW d \in Disp, NEW s \in Session, NEW kind \in Kind,
         LockSession(d, s, kind), EarlyTraffic \/ recon.pc = "done"
  PROVE  TypeOK' /\ TakesSession(d, s)
<1> DEFINE row == [Idle EXCEPT !.pc = "reread", !.kind = kind, !.sess = s]
<1>1. /\ disp[d].pc = "idle" /\ sess[s].st # "none" /\ lock[s] = None
      /\ kind \in {"message", "agentCont"}
      /\ lock' = [lock EXCEPT ![s] = d] /\ disp' = [disp EXCEPT ![d] = row]
  BY DEF LockSession
<1>2. /\ row \in DispRec /\ row.pc = "reread" /\ row.kind = kind /\ row.sess = s
  BY <1>1 DEF DispRec, DispPc, Idle, AllKinds
<1> HIDE DEF row
<1>3. UNCHANGED <<sess, run, tail, stops, recon, eve, limbo, crashes>>
  BY DEF LockSession, rest, database
<1>4. TakesSession(d, s)
  BY <1>1, <1>2, <1>3, TakeTypes DEF TakesSession, Takes
<1> QED
  BY <1>1, <1>2, <1>3, <1>4, TakeTypes, Tables, TypesNamed

LEMMA LockResumeStep ==
  ASSUME Shape, NEW d \in Disp, NEW r \in Run, LockResume(d, r),
         EarlyTraffic \/ recon.pc = "done"
  PROVE  TypeOK' /\ TakesParked(d, r)
<1> DEFINE s == run[r].sess
           row == [Idle EXCEPT !.pc = "admit", !.sess = s, !.kind = "resume",
                               !.run = r, !.id = TRUE]
<1>1. /\ disp[d].pc = "idle" /\ lock[s] = None /\ run[r].st = "waiting"
      /\ sess[s].id /\ sess[s].st \notin Dead
      /\ lock' = [lock EXCEPT ![s] = d] /\ disp' = [disp EXCEPT ![d] = row]
  BY DEF LockResume
<1>2. s \in Session
  BY <1>1 DEF Shape, RunShape
<1>3. /\ row \in DispRec /\ row.pc = "admit" /\ row.kind = "resume" /\ row.sess = s
      /\ row.run = r /\ row.id = TRUE
  BY <1>2 DEF DispRec, DispPc, Idle, AllKinds
<1> HIDE DEF row
<1>4. UNCHANGED <<sess, run, tail, stops, recon, eve, limbo, crashes>>
  BY DEF LockResume, rest, database
<1>5. TakesParked(d, r)
  BY <1>1, <1>2, <1>3, <1>4, TakeTypes DEF TakesParked, Takes
<1> QED
  BY <1>1, <1>2, <1>3, <1>4, <1>5, TakeTypes, Tables, TypesNamed

LEMMA LockResetStep ==
  ASSUME Shape, NEW d \in Disp, NEW s \in Session, LockReset(d, s),
         EarlyTraffic \/ recon.pc = "done"
  PROVE  TypeOK' /\ TakesQuiet(d, s)
<1> DEFINE row == [Idle EXCEPT !.pc = "quiet", !.sess = s, !.kind = "reset"]
<1>1. /\ disp[d].pc = "idle" /\ lock[s] = None /\ sess[s].id
      /\ lock' = [lock EXCEPT ![s] = d] /\ disp' = [disp EXCEPT ![d] = row]
  BY DEF LockReset
<1>2. \A r \in Run : run[r].st # "none" /\ run[r].sess = s =>
         run[r].st \notin LiveStatus /\ tail[r].st = "none"
  <2>1. ~Busy(s, None) /\ Tails(s, Reading \cup Draining) = {}
    BY DEF LockReset
  <2>2. tail \in [Run -> TailRec]
    BY Tables
  <2>3. \A t \in TailPc : t \in Reading \cup Draining \/ t = "none"
    BY DEF TailPc, Reading, Draining
  <2> SUFFICES ASSUME NEW r \in Run, run[r].st # "none", run[r].sess = s
               PROVE  run[r].st \notin LiveStatus /\ tail[r].st = "none"
    OBVIOUS
  <2>4. r \in RunsOf(s) /\ r # None
    BY Numbers DEF RunsOf
  <2>5. run[r].st \notin LiveStatus
    BY <2>1, <2>4 DEF Busy
  <2>6. tail[r].st \notin Reading \cup Draining
    BY <2>1, <2>4 DEF Tails
  <2>7. tail[r].st \in TailPc
    BY <2>2 DEF TailRec
  <2> QED
    BY <2>3, <2>5, <2>6, <2>7
<1>3. /\ row \in DispRec /\ row.pc = "quiet" /\ row.kind = "reset" /\ row.sess = s
  BY DEF DispRec, DispPc, Idle, AllKinds
<1> HIDE DEF row
<1>4. UNCHANGED <<sess, run, tail, stops, recon, eve, limbo, crashes>>
  BY DEF LockReset, rest, database
<1>5. TakesQuiet(d, s)
  BY <1>1, <1>2, <1>3, <1>4, TakeTypes DEF TakesQuiet, Takes
<1> QED
  BY <1>1, <1>3, <1>4, <1>5, TakeTypes, Tables, TypesNamed

\* The queued run of an admission.
LEMMA InsertTypes ==
  ASSUME Shape, NEW d \in Disp, NEW r \in Run, InsertRun(d, r),
         disp[d].sess \in Session
  PROVE  /\ run' \in [Run -> RunRec] /\ disp' \in [Disp -> DispRec]
         /\ lock' = lock
         /\ Moved(d, "ensure")
         /\ disp'[d].run = r /\ (disp'[d].id <=> disp[d].id)
         /\ run[r].st = "none" /\ \A q \in Run : run[q].st = "none" => r <= q
         /\ \A q \in Run \ {r} : run'[q] = run[q]
         /\ run'[r] = [NoRun EXCEPT !.st = "queued", !.sess = disp[d].sess]
<1> DEFINE row == [NoRun EXCEPT !.st = "queued", !.sess = disp[d].sess]
           req == [disp[d] EXCEPT !.pc = "ensure", !.run = r]
<1>1. /\ run' = [run EXCEPT ![r] = row] /\ disp' = [disp EXCEPT ![d] = req]
      /\ lock' = lock /\ r \in FreeRuns /\ \A q \in FreeRuns : r <= q
  BY DEF InsertRun
<1>2. row \in RunRec
  BY DEF RunRec, NoRun, LiveStatus
<1>3. run \in [Run -> RunRec] /\ disp \in [Disp -> DispRec]
  BY Tables
<1>4. /\ req \in DispRec /\ req.pc = "ensure" /\ req.run = r /\ req.id = disp[d].id
      /\ req.kind = disp[d].kind /\ req.sess = disp[d].sess
  BY <1>3 DEF DispRec, DispPc
<1> HIDE DEF req
<1>5. disp' \in [Disp -> DispRec] /\ Others(d) /\ disp'[d] = req
  BY <1>1, <1>3, <1>4 DEF Others
<1> HIDE DEF row
<1>6. /\ run' \in [Run -> RunRec] /\ run'[r] = row
      /\ \A q \in Run \ {r} : run'[q] = run[q]
  BY <1>1, <1>2, <1>3
<1> QED
  BY <1>1, <1>4, <1>5, <1>6 DEF row, FreeRuns, Moved

LEMMA AdmitFreshStep ==
  ASSUME Shape, NEW d \in Disp, AdmitFresh(d)
  PROVE  TypeOK' /\ (Quit(d) \/ \E r \in Run : Admits(d, r))
<1> DEFINE s == disp[d].sess
           holders == {h \in Session : disp[d].key /\ sess[h].key}
<1>1. disp[d].pc = "admit" /\ disp[d].kind \in Fresh
  BY DEF AdmitFresh
<1>2. s \in Session /\ sess[s].st = "none" /\ ~sess[s].key /\ ~sess[s].id
  BY <1>1 DEF Shape, RequestShape, RequestOf, SessShape
<1>3. UNCHANGED <<tail, stops, recon, eve, limbo, crashes>>
  BY DEF AdmitFresh, rest
<1>4. CASE UNCHANGED <<sess, run>> /\ Finish(d)
  <2>1. RunsKept /\ NoneParks
    BY <1>4, RunsSame
  <2>2. Quit(d)
    BY <1>1, <1>3, <1>4, <2>1, FinishTypes DEF Quit, SendPc
  <2> QED
    BY <1>3, <1>4, <2>2, FinishTypes, Tables, TypesNamed
<1>5. CASE /\ \A h \in holders : Evictable(h)
           /\ sess' = [h \in Session |->
                IF h = s THEN [st |-> "active", id |-> FALSE, key |-> disp[d].key]
                ELSE [sess[h] EXCEPT !.key = @ /\ h \notin holders]]
           /\ \E r \in Run : InsertRun(d, r)
  <2>1. PICK r \in Run : InsertRun(d, r)
    BY <1>5
  <2>2. sess \in [Session -> SessRec] /\ disp \in [Disp -> DispRec]
    BY Tables
  <2>3. disp[d].key \in BOOLEAN
    BY <2>2 DEF DispRec
  <2>4. /\ sess' \in [Session -> SessRec]
        /\ sess'[s].st = "active" /\ ~sess'[s].id
        /\ \A x \in Session \ {s} :
             /\ sess'[x].st = sess[x].st /\ sess'[x].id = sess[x].id
             /\ sess'[x].key => sess[x].key
    BY <1>2, <1>5, <2>2, <2>3 DEF SessRec
  <2>5. \A x \in Session : /\ sess'[x].id <=> sess[x].id
                           /\ sess'[x].key => sess'[x].st # "none"
    BY <1>2, <2>4 DEF Shape, SessShape
  <2>6. \A q \in Run : run[q].st # "none" /\ run[q].sess = s => run[q].st \notin LiveStatus
    BY <1>2 DEF Shape, RunShape
  <2>7. disp[d].kind \notin {"resume", "reset"}
    BY <1>1 DEF Fresh
  <2>10. /\ lock' = lock /\ Moved(d, "ensure")
         /\ disp'[d].run = r /\ (disp'[d].id <=> disp[d].id)
         /\ run[r].st = "none" /\ \A q \in Run : run[q].st = "none" => r <= q
         /\ \A q \in Run \ {r} : run'[q] = run[q]
         /\ run'[r] = [NoRun EXCEPT !.st = "queued", !.sess = s]
    BY <1>2, <2>1, InsertTypes
  <2>11. \A x \in Session : /\ sess'[x].id <=> sess[x].id
                            /\ x # s => sess'[x].st = sess[x].st
                            /\ sess'[x].key => sess'[x].st # "none"
    BY <2>4, <2>5
  <2>12. \A x \in Session : sess[x].key /\ ~sess'[x].key => Evictable(x)
    <3>1. \A x \in Session : sess[x].key /\ ~sess'[x].key => x \in holders
      BY <1>2, <1>5, <2>2 DEF SessRec
    <3> HIDE DEF holders
    <3> QED
      BY <1>5, <3>1
  <2>8. Admits(d, r)
    BY <1>1, <1>3, <2>4, <2>6, <2>7, <2>10, <2>11, <2>12 DEF Admits
  <2>9. lock' \in [Session -> Disp \cup {None}]
    BY <1>2, <2>1, InsertTypes, Tables
  <2> QED
    BY <1>2, <1>3, <2>1, <2>4, <2>8, <2>9, InsertTypes, Tables, TypesNamed
<1> QED
  BY <1>4, <1>5 DEF AdmitFresh

LEMMA AdmitMessageStep ==
  ASSUME Shape, NEW d \in Disp, AdmitMessage(d)
  PROVE  TypeOK' /\ (Quit(d) \/ \E r \in Run : Admits(d, r))
<1> DEFINE s == disp[d].sess
<1>1. disp[d].pc = "admit" /\ disp[d].kind \in {"message", "agentCont"}
  BY DEF AdmitMessage
<1>2. s \in Session /\ disp[d].kind \notin Fresh
  BY <1>1 DEF Shape, RequestShape, RequestOf, Fresh
<1>3. UNCHANGED <<sess, tail, stops, recon, eve, limbo, crashes>>
  BY DEF AdmitMessage, rest
<1>4. CASE UNCHANGED run /\ Finish(d)
  <2>1. RunsKept /\ NoneParks
    BY <1>4, RunsSame
  <2>2. Quit(d)
    BY <1>1, <1>3, <1>4, <2>1, FinishTypes DEF Quit, SendPc
  <2> QED
    BY <1>3, <1>4, <2>2, FinishTypes, Tables, TypesNamed
<1>5. CASE ~Busy(s, None) /\ \E r \in Run : InsertRun(d, r)
  <2>1. PICK r \in Run : InsertRun(d, r)
    BY <1>5
  <2>2. \A q \in Run : run[q].st # "none" /\ run[q].sess = s => run[q].st \notin LiveStatus
    BY <1>5, Numbers DEF Busy, RunsOf
  <2>3. \A x \in Session : sess'[x].key => sess'[x].st # "none"
    BY <1>3 DEF Shape, SessShape
  <2>4. disp[d].kind \notin {"resume", "reset"}
    BY <1>1
  <2>5. Admits(d, r)
    BY <1>1, <1>2, <1>3, <2>1, <2>2, <2>3, <2>4, InsertTypes DEF Admits
  <2>6. lock' \in [Session -> Disp \cup {None}]
    BY <1>2, <2>1, InsertTypes, Tables
  <2> QED
    BY <1>2, <1>3, <2>1, <2>5, <2>6, InsertTypes, Tables, TypesNamed
<1> QED
  BY <1>4, <1>5 DEF AdmitMessage

LEMMA AdmitResumeStep ==
  ASSUME Shape, NEW d \in Disp, AdmitResume(d)
  PROVE  TypeOK' /\ (Quit(d) \/ Flips(d))
<1> DEFINE r == disp[d].run
<1>1. disp[d].pc = "admit" /\ disp[d].kind = "resume"
  BY DEF AdmitResume
<1>2. r \in Run
  BY <1>1 DEF Shape, RequestShape, RequestOf
<1>3. UNCHANGED <<sess, tail, stops, recon, eve, limbo, crashes>>
  BY DEF AdmitResume, rest
<1>4. CASE UNCHANGED run /\ Finish(d)
  <2>1. RunsKept /\ NoneParks
    BY <1>4, RunsSame
  <2>2. Quit(d)
    BY <1>1, <1>3, <1>4, <2>1, FinishTypes DEF Quit, SendPc
  <2> QED
    BY <1>3, <1>4, <2>2, FinishTypes, Tables, TypesNamed
<1>5. CASE /\ run[r].st = "waiting" /\ run' = [run EXCEPT ![r].st = "queued"]
           /\ Goto(d, "ensure")
  <2>1. run \in [Run -> RunRec]
    BY Tables
  <2>2. /\ run' \in [Run -> RunRec] /\ run'[r].st = "queued"
        /\ \A q \in Run : /\ run'[q].sess = run[q].sess /\ run'[q].armed = run[q].armed
                          /\ run'[q].owed = run[q].owed
                          /\ q # r => run'[q].st = run[q].st
    BY <1>2, <1>5, <2>1 DEF RunRec, LiveStatus
  <2>3. RunsKept /\ NoneParks
    BY <1>2, <1>5, <2>1, <2>2 DEF RunsKept, NoneParks, LiveStatus, RunRec
  <2>4. "ensure" \in DispPc
    BY DEF DispPc
  <2>5. Flips(d)
    BY <1>1, <1>3, <1>5, <2>2, <2>3, <2>4, GotoTypes DEF Flips
  <2> QED
    BY <1>3, <1>5, <2>2, <2>4, <2>5, GotoTypes, Tables, TypesNamed
<1> QED
  BY <1>4, <1>5 DEF AdmitResume

LEMMA ArmStep ==
  ASSUME Shape, NEW d \in Disp, Arm(d)
  PROVE  TypeOK' /\ (Quit(d) \/ Arms(d))
<1> DEFINE s == disp[d].sess
           r == disp[d].run
<1>1. disp[d].pc = "arm" /\ Owner(d)
  BY DEF Arm, Owner, OwnPc
<1>2. /\ s \in Session /\ sess[s].st # "none"
      /\ r \in Run /\ run[r].st # "none" /\ run[r].sess = s
  BY <1>1, Request
<1>3. UNCHANGED <<tail, stops, recon, eve, limbo, crashes>>
  BY DEF Arm, rest
<1>4. CASE /\ run[r].st \in LiveStatus
           /\ run' = [run EXCEPT ![r].st = "queued", ![r].armed = TRUE,
                                 ![r].turn = FALSE,
                                 ![r].hitl = disp[d].kind = "resume"]
           /\ Goto(d, "send") /\ UNCHANGED sess
  <2> DEFINE row == [run[r] EXCEPT !.st = "queued", !.armed = TRUE, !.turn = FALSE,
                                   !.hitl = disp[d].kind = "resume"]
  <2>1. run' = [run EXCEPT ![r] = row]
    BY <1>4
  <2>2. run \in [Run -> RunRec]
    BY Tables
  <2>3. /\ row \in RunRec /\ row.st = "queued" /\ row.armed = TRUE
        /\ row.sess = run[r].sess /\ row.owed = run[r].owed /\ row.turn = FALSE
    BY <1>2, <2>2 DEF RunRec, LiveStatus
  <2> HIDE DEF row
  <2>4. /\ run' \in [Run -> RunRec] /\ run'[r] = row
        /\ \A q \in Run \ {r} : run'[q] = run[q]
    BY <1>2, <2>1, <2>2, <2>3
  <2>5. "send" \in DispPc
    BY DEF DispPc
  <2>6. Arms(d)
    BY <1>1, <1>2, <1>3, <1>4, <2>3, <2>4, <2>5, GotoTypes DEF Arms
  <2> QED
    BY <1>3, <1>4, <2>4, <2>5, <2>6, GotoTypes, Tables, TypesNamed
<1>5. CASE /\ sess' = IF disp[d].kind \in Fresh
                      THEN markSession(sess, s, "closed") ELSE sess
           /\ UNCHANGED run /\ Finish(d)
  <2>1. RunsKept /\ NoneParks
    BY <1>5, RunsSame
  <2>2. /\ sess' \in [Session -> SessRec]
        /\ \A x \in Session : sess'[x] = sess[x] \/ (x = s /\ Closing(x))
    <3>1. CASE sess' = markSession(sess, s, "closed")
      BY <1>2, <3>1, SessionClosed DEF Dead
    <3>2. CASE sess' = sess
      BY <3>2, Tables
    <3> QED
      BY <1>5, <3>1, <3>2
  <2>3. Quit(d)
    BY <1>1, <1>3, <1>5, <2>1, <2>2, FinishTypes DEF Quit, SendPc
  <2> QED
    BY <1>3, <1>5, <2>2, <2>3, FinishTypes, Tables, TypesNamed
<1> QED
  BY <1>4, <1>5 DEF Arm

LEMMA PersistStep ==
  ASSUME Shape, NEW d \in Disp, Persist(d)
  PROVE  TypeOK' /\ Persists(d)
<1> DEFINE s == disp[d].sess
<1>1. disp[d].pc = "persist" /\ sess' = casSessionLive(sess, s) /\ Goto(d, "recheck")
  BY DEF Persist
<1>2. UNCHANGED <<run, tail, stops, recon, eve, limbo, crashes>>
  BY DEF Persist, rest
<1>3. s \in Session
  BY <1>1, Request
<1>4. sess' \in [Session -> SessRec]
  <2>1. sess \in [Session -> SessRec]
    BY Tables
  <2>2. casSessionLive(sess, s) \in [Session -> SessRec]
    BY <1>3, <2>1 DEF casSessionLive, SessRec
  <2> QED
    BY <1>1, <2>2
<1>5. "recheck" \in DispPc
  BY DEF DispPc
<1>6. Persists(d)
  BY <1>1, <1>2, <1>5, GotoTypes DEF Persists
<1> QED
  BY <1>1, <1>2, <1>4, <1>5, <1>6, GotoTypes, Tables, TypesNamed

LEMMA RecheckStep ==
  ASSUME Shape, NEW d \in Disp, Recheck(d)
  PROVE  TypeOK' /\ (Quit(d) \/ Abandons(d) \/ \E p \in DispPc : Pass(d, p))
<1> DEFINE s == disp[d].sess
           r == disp[d].run
<1>1. disp[d].pc = "recheck" /\ Owner(d)
  BY DEF Recheck, Owner, OwnPc
<1>2. /\ s \in Session /\ sess[s].st # "none"
      /\ r \in Run /\ run[r].st # "none" /\ run[r].sess = s
  BY <1>1, Request
<1>3. UNCHANGED <<stops, recon, eve, limbo, crashes>>
  BY DEF Recheck
<1>4. CASE Goto(d, "tail") /\ UNCHANGED <<database, tail>>
  <2>1. "tail" \in DispPc /\ <<disp[d].pc, "tail">> \in Moves
    BY <1>1 DEF DispPc, Moves
  <2>2. UNCHANGED <<sess, run, tail>>
    BY <1>4 DEF database
  <2>3. RunsKept /\ NoneParks
    BY <2>2, RunsSame
  <2>4. Pass(d, "tail")
    BY <1>1, <1>3, <1>4, <2>1, <2>2, <2>3, GotoTypes DEF Pass
  <2> QED
    BY <1>3, <1>4, <2>1, <2>2, <2>4, GotoTypes, Tables, TypesNamed
<1>5. CASE /\ run' = clearRemoteCancelPending(run, {r})
           /\ Finish(d) /\ UNCHANGED <<sess, tail>>
  <2>1. run' \in [Run -> RunRec] /\ RunsKept /\ NoneParks
    BY <1>5, RunsCleared
  <2>2. Quit(d)
    BY <1>1, <1>3, <1>5, <2>1, FinishTypes DEF Quit, SendPc
  <2> QED
    BY <1>3, <1>5, <2>1, <2>2, FinishTypes, Tables, TypesNamed
<1>6. CASE /\ run[r].st \in Terminal
           /\ run' = [run EXCEPT ![r].owed = @ \/ run[r].st = "canceled"]
           /\ tail' = startObservation(tail, run', s, r)
           /\ sess' = IF disp[d].kind \in Fresh
                      THEN markSession(sess, s, "closed") ELSE sess
           /\ Finish(d)
  <2>1. run \in [Run -> RunRec] /\ tail \in [Run -> TailRec]
    BY Tables
  <2> DEFINE row == [run[r] EXCEPT !.owed = @ \/ run[r].st = "canceled"]
  <2>8. run' = [run EXCEPT ![r] = row]
    BY <1>6
  <2>9. /\ row \in RunRec /\ row.sess = run[r].sess /\ row.armed = run[r].armed
        /\ row.st = run[r].st
    BY <1>2, <2>1 DEF RunRec
  <2> HIDE DEF row
  <2>2. /\ run' \in [Run -> RunRec]
        /\ \A q \in Run : /\ run'[q].sess = run[q].sess /\ run'[q].armed = run[q].armed
                          /\ run'[q].st = run[q].st
                          /\ run'[q].owed => run[q].owed \/ q = r
    BY <1>2, <2>1, <2>8, <2>9
  <2>3. RunsKept /\ NoneParks
    BY <1>6, <2>2 DEF RunsKept, NoneParks
  <2>10. PICK rs \in [Run -> RunRec] : rs = run'
    BY <2>2
  <2>4. /\ tail' \in [Run -> TailRec]
        /\ \A q \in Run : \/ tail'[q] = tail[q]
                          \/ q = r /\ tail[q].st = "none" /\ tail'[q].st = "observe"
    <3>1. PICK x \in Session, y \in Run : x = s /\ y = r
      BY <1>2
    <3>2. tail' = startObservation(tail, rs, x, y)
      BY <1>6, <2>10, <3>1
    <3>3. /\ startObservation(tail, rs, x, y) \in [Run -> TailRec]
          /\ \A q \in Run :
               \/ startObservation(tail, rs, x, y)[q] = tail[q]
               \/ /\ q = y /\ tail[y].st = "none"
                  /\ startObservation(tail, rs, x, y)[y].st = "observe"
      BY <2>1, StartObservationRow
    <3> QED
      BY <3>1, <3>2, <3>3
  <2>5. /\ sess' \in [Session -> SessRec]
        /\ \A x \in Session : sess'[x] = sess[x] \/ (x = s /\ Closing(x))
    <3>1. CASE sess' = markSession(sess, s, "closed")
      BY <1>2, <3>1, SessionClosed DEF Dead
    <3>2. CASE sess' = sess
      BY <3>2, Tables
    <3> QED
      BY <1>6, <3>1, <3>2
  <2>6. run'[r].st \in Terminal
    BY <1>2, <1>6, <2>2
  <2>7. Abandons(d)
    BY <1>1, <1>3, <1>6, <2>3, <2>4, <2>5, <2>6, FinishTypes DEF Abandons
  <2> QED
    BY <1>3, <1>6, <2>2, <2>4, <2>5, <2>7, FinishTypes, Tables, TypesNamed
<1> QED
  BY <1>4, <1>5, <1>6 DEF Recheck

LEMMA StartTailStep ==
  ASSUME Shape, NEW d \in Disp, StartTail(d)
  PROVE  TypeOK' /\ Follows(d)
<1> DEFINE s == disp[d].sess
           r == disp[d].run
<1>1. disp[d].pc = "tail" /\ Owner(d) /\ Finish(d)
  BY DEF StartTail, Owner, OwnPc
<1>2. s \in Session /\ r \in Run
  BY <1>1, Request
<1>3. UNCHANGED <<sess, run, stops, recon, eve, limbo, crashes>>
  BY DEF StartTail, database
<1>4. tail' \in [Run -> TailRec] /\ TailsStart(r)
  <2>1. tail \in [Run -> TailRec] /\ tail' = startTail(tail, s, r)
    BY Tables DEF StartTail
  <2> QED
    BY <1>2, <2>1, StartTailRow DEF TailsStart
<1>5. Follows(d)
  BY <1>1, <1>3, <1>4, FinishTypes DEF Follows
<1> QED
  BY <1>1, <1>3, <1>4, <1>5, FinishTypes, Tables, TypesNamed

\* The session rows once s is closed.
LEMMA MarkedClosed ==
  ASSUME Shape, NEW s \in Session
  PROVE  /\ markSession(sess, s, "closed") \in [Session -> SessRec]
         /\ \A x \in Session \ {s} : markSession(sess, s, "closed")[x] = sess[x]
         /\ markSession(sess, s, "closed")[s].st = "closed"
         /\ markSession(sess, s, "closed")[s].id = sess[s].id
         /\ ~markSession(sess, s, "closed")[s].key
<1>1. sess \in [Session -> SessRec]
  BY Tables
<1> QED
  BY <1>1 DEF markSession, SessRec, Dead

LEMMA ResetCloseStep ==
  ASSUME Shape, NEW d \in Disp, ResetClose(d)
  PROVE  TypeOK' /\ Replaces(d)
<1> DEFINE s == disp[d].sess
           closed == markSession(sess, s, "closed")
           unused == {t \in Session : sess[t].st = "none" /\ lock[t] = None}
<1>1. disp[d].pc = "resetting" /\ Finish(d)
  BY DEF ResetClose
<1>2. s \in Session /\ sess[s].st # "none"
  BY <1>1, Request
<1>3. UNCHANGED <<tail, stops, recon, eve, limbo, crashes>>
  BY DEF ResetClose, rest
<1>4. run' \in [Run -> RunRec] /\ RunsKept /\ NoneParks
  BY RunsCleared DEF ResetClose
<1>5. sess \in [Session -> SessRec]
  BY Tables
<1>6. /\ closed \in [Session -> SessRec]
      /\ \A x \in Session \ {s} : closed[x] = sess[x]
      /\ closed[s].st = "closed" /\ closed[s].id = sess[s].id
      /\ ~closed[s].key
  BY <1>2, MarkedClosed
<1>7. \/ sess' = closed
      \/ \E t \in unused : sess' = [closed EXCEPT ![t].st = "active"]
  BY DEF ResetClose
<1> HIDE DEF closed
<1>8. /\ sess' \in [Session -> SessRec]
      /\ \A x \in Session :
           \/ sess'[x] = sess[x]
           \/ x = s /\ Closing(x)
           \/ /\ x # s /\ sess[x].st = "none" /\ lock[x] = None
              /\ sess'[x] = [sess[x] EXCEPT !.st = "active"]
  <2>1. CASE sess' = closed
    BY <1>2, <1>6, <2>1 DEF Closing, Dead
  <2>2. CASE \E t \in unused : sess' = [closed EXCEPT ![t].st = "active"]
    <3>1. PICK t \in unused : sess' = [closed EXCEPT ![t].st = "active"]
      BY <2>2
    <3>2. t \in Session /\ t # s /\ sess[t].st = "none" /\ lock[t] = None
      BY <1>2, <3>1
    <3>3. /\ sess'[t] = [sess[t] EXCEPT !.st = "active"]
          /\ \A x \in Session \ {t} : sess'[x] = closed[x]
      BY <1>6, <3>1, <3>2
    <3>4. sess' \in [Session -> SessRec]
      BY <1>5, <1>6, <3>1, <3>2 DEF SessRec
    <3>5. Closing(s)
      BY <1>2, <1>6, <3>2, <3>3 DEF Closing, Dead
    <3> QED
      BY <1>6, <3>2, <3>3, <3>4, <3>5
  <2> QED
    BY <1>7, <2>1, <2>2
<1>9. Replaces(d)
  BY <1>1, <1>3, <1>4, <1>8, FinishTypes DEF Replaces
<1> QED
  BY <1>1, <1>3, <1>4, <1>8, <1>9, FinishTypes, Tables, TypesNamed

\* The eve rows after a send is accepted.
LEMMA AcceptRow ==
  ASSUME Shape, NEW s \in Session, NEW r \in Run, NEW create \in BOOLEAN,
         Accept(s, r, create)
  PROVE  /\ eve' \in [Session -> EveRec]
         /\ \A x \in Session \ {s} : eve'[x] = eve[x]
         /\ eve'[s].creates = eve[s].creates + (IF create THEN 1 ELSE 0)
         /\ (eve'[s].dead <=> eve[s].dead) /\ eve'[s].log = eve[s].log
         /\ eve'[s].open = eve[s].open /\ eve'[s].queue = Append(eve[s].queue, r)
         /\ eve'[s].cur = eve[s].cur
<1> DEFINE n == IF create THEN 1 ELSE 0
           row == [eve[s] EXCEPT !.queue = Append(@, r), !.creates = @ + n]
<1>1. eve' = [eve EXCEPT ![s] = row]
  BY DEF Accept
<1>2. eve \in [Session -> EveRec] /\ n \in Nat
  BY Tables
<1>3. eve[s].queue \in Seq(Run) /\ eve[s].creates \in Nat
  BY <1>2 DEF EveRec
<1>4. Append(eve[s].queue, r) \in Seq(Run) /\ eve[s].creates + n \in Nat
  BY <1>2, <1>3
<1> HIDE DEF n
<1>5. /\ row \in EveRec /\ row.creates = eve[s].creates + n
      /\ row.dead = eve[s].dead /\ row.log = eve[s].log /\ row.open = eve[s].open
      /\ row.queue = Append(eve[s].queue, r) /\ row.cur = eve[s].cur
  BY <1>2, <1>4 DEF EveRec
<1> HIDE DEF row
<1>6. /\ eve' \in [Session -> EveRec] /\ eve'[s] = row
      /\ \A x \in Session \ {s} : eve'[x] = eve[x]
  BY <1>1, <1>2, <1>5
<1> QED
  BY <1>5, <1>6 DEF n

LEMMA EveAnswersStep ==
  ASSUME Shape, NEW d \in Disp, EveAnswers(d)
  PROVE  TypeOK' /\ (Accepted(d) \/ \E p \in DispPc : Pass(d, p))
<1> DEFINE s == disp[d].sess
<1>1. /\ disp[d].pc = "send" /\ Owner(d)
      /\ \A r \in limbo : run[r].sess # s
      /\ UNCHANGED <<sess, run, lock, tail, stops, recon, crashes, limbo>>
  BY DEF EveAnswers, Owner, OwnPc, others, database
<1>2. s \in Session /\ disp[d].run \in Run
  BY <1>1, Request
<1>3. disp \in [Disp -> DispRec]
  BY Tables
<1>4. CASE /\ disp[d].id => ~eve[s].dead
           /\ Accept(s, disp[d].run, ~disp[d].id)
           /\ disp' = [disp EXCEPT ![d].pc = "inflight"]
  <2>1. disp[d].id \in BOOLEAN /\ (~disp[d].id) \in BOOLEAN
    BY <1>3 DEF DispRec
  <2>2. eve' \in [Session -> EveRec]
    BY <1>2, <1>4, <2>1, AcceptRow
  <2>3. /\ disp' \in [Disp -> DispRec] /\ Moved(d, "inflight")
        /\ disp'[d].run = disp[d].run /\ (disp'[d].id <=> disp[d].id)
    BY <1>3, <1>4 DEF DispRec, DispPc, Moved, Others
  <2>4. Accepted(d)
    BY <1>1, <1>4, <2>3 DEF Accepted
  <2> QED
    BY <1>1, <2>2, <2>3, <2>4, Tables, TypesNamed
<1>5. CASE /\ disp[d].id /\ eve[s].dead
           /\ disp' = [disp EXCEPT ![d].pc = "gone"]
           /\ UNCHANGED eve
  <2>1. "gone" \in DispPc /\ <<disp[d].pc, "gone">> \in Moves
    BY <1>1 DEF DispPc, Moves
  <2>2. Goto(d, "gone")
    BY <1>1, <1>5 DEF Goto
  <2>3. RunsKept /\ NoneParks
    BY <1>1, RunsSame
  <2>4. Pass(d, "gone")
    BY <1>1, <1>5, <2>1, <2>2, <2>3, GotoTypes DEF Pass
  <2> QED
    BY <1>1, <1>5, <2>1, <2>2, <2>4, GotoTypes, Tables, TypesNamed
<1> QED
  BY <1>4, <1>5 DEF EveAnswers

\* The eve rows once the id is retired.
LEMMA RetireRow ==
  ASSUME Shape, NEW s \in Session,
         eve' = [eve EXCEPT ![s].dead = TRUE, ![s].queue = <<>>, ![s].open = None]
  PROVE  /\ eve' \in [Session -> EveRec]
         /\ \A x \in Session \ {s} : eve'[x] = eve[x]
         /\ eve'[s].creates = eve[s].creates /\ eve'[s].log = eve[s].log
         /\ eve'[s].dead /\ eve'[s].open = None /\ eve'[s].queue = <<>>
         /\ eve'[s].cur = eve[s].cur
<1> DEFINE row == [eve[s] EXCEPT !.dead = TRUE, !.queue = <<>>, !.open = None]
<1>1. eve' = [eve EXCEPT ![s] = row]
  OBVIOUS
<1>2. eve \in [Session -> EveRec] /\ <<>> \in Seq(Run)
  BY Tables
<1>3. /\ row \in EveRec /\ row.creates = eve[s].creates /\ row.log = eve[s].log
      /\ row.dead = TRUE /\ row.open = None /\ row.queue = <<>>
      /\ row.cur = eve[s].cur
  BY <1>2 DEF EveRec
<1> HIDE DEF row
<1> QED
  BY <1>1, <1>2, <1>3

LEMMA EveResetsStep ==
  ASSUME Shape, NEW d \in Disp, EveResets(d)
  PROVE  TypeOK' /\ Retires(d)
<1>1. /\ disp[d].pc = "quiet" /\ disp' = [disp EXCEPT ![d].pc = "resetting"]
      /\ UNCHANGED <<sess, run, lock, tail, stops, recon, crashes, limbo>>
  BY DEF EveResets, others, database
<1>2. disp[d].sess \in Session
  BY <1>1, Request
<1>3. "resetting" \in DispPc /\ Goto(d, "resetting")
  BY <1>1 DEF DispPc, Goto
<1>4. eve' \in [Session -> EveRec]
  BY <1>2, RetireRow DEF EveResets
<1>5. Retires(d)
  BY <1>1, <1>3, GotoTypes DEF EveResets, Retires
<1> QED
  BY <1>1, <1>3, <1>4, <1>5, GotoTypes, Tables, TypesNamed

\* A late send: eve accepts it, or it is lost.
LEMMA EveAcceptsLateStep ==
  ASSUME Shape, NEW r \in Run, EveAcceptsLate(r)
  PROVE  /\ TypeOK' /\ run[r].sess \in Session /\ run[r].st # "none"
         /\ UNCHANGED <<sess, run, lock, disp, tail, recon>>
<1>1. run[r].sess \in Session /\ run[r].st # "none"
  BY DEF EveAcceptsLate, Shape, RunShape
<1>2. UNCHANGED <<sess, run, lock, disp, tail, stops, recon, crashes>>
  BY DEF EveAcceptsLate, others, database
<1>3. limbo' \subseteq Run
  BY Tables DEF EveAcceptsLate
<1>4. eve' \in [Session -> EveRec]
  <2>1. sess \in [Session -> SessRec]
    BY Tables
  <2>2. (~sess[run[r].sess].id) \in BOOLEAN
    BY <1>1, <2>1 DEF SessRec
  <2> QED
    BY <1>1, <2>2, AcceptRow, Tables DEF EveAcceptsLate
<1> QED
  BY <1>1, <1>2, <1>3, <1>4, Tables, TypesNamed

\* eve takes up a turn.
LEMMA EveStartsStep ==
  ASSUME Shape, NEW s \in Session, EveStarts(s)
  PROVE  /\ TypeOK'
         /\ \A x \in Session \ {s} : eve'[x] = eve[x]
         /\ eve[s].queue # <<>> /\ eve[s].open = None
         /\ eve'[s].creates = eve[s].creates /\ (eve'[s].dead <=> eve[s].dead)
         /\ eve'[s].open = Head(eve[s].queue) /\ eve'[s].queue = Tail(eve[s].queue)
         /\ eve'[s].cur = eve[s].cur
         /\ eve'[s].log = Append(eve[s].log, [type |-> "start", out |-> "none",
                                              run |-> Head(eve[s].queue)])
         /\ UNCHANGED <<sess, run, lock, disp, tail, recon, limbo>>
<1> DEFINE e == [type |-> "start", out |-> "none", run |-> Head(eve[s].queue)]
           row == [eve[s] EXCEPT !.open = Head(eve[s].queue), !.queue = Tail(@),
                                 !.log = Append(@, e)]
<1>1. /\ eve' = [eve EXCEPT ![s] = row] /\ eve[s].queue # <<>> /\ eve[s].open = None
      /\ UNCHANGED <<sess, run, lock, disp, tail, stops, recon, crashes, limbo>>
  BY DEF EveStarts, others, database
<1>2. eve \in [Session -> EveRec]
  BY Tables
<1>3. eve[s].queue \in Seq(Run) /\ eve[s].log \in Seq(Event)
  BY <1>2 DEF EveRec
<1>4. Head(eve[s].queue) \in Run /\ Tail(eve[s].queue) \in Seq(Run)
  BY <1>1, <1>3
<1>5. e \in Event
  BY <1>4 DEF Event
<1>6. Append(eve[s].log, e) \in Seq(Event)
  BY <1>3, <1>5
<1> HIDE DEF e
<1>7. /\ row \in EveRec /\ row.creates = eve[s].creates /\ row.dead = eve[s].dead
      /\ row.log = Append(eve[s].log, e) /\ row.cur = eve[s].cur
      /\ row.open = Head(eve[s].queue) /\ row.queue = Tail(eve[s].queue)
  BY <1>2, <1>4, <1>6 DEF EveRec
<1> HIDE DEF row
<1>8. /\ eve' \in [Session -> EveRec] /\ eve'[s] = row
      /\ \A x \in Session \ {s} : eve'[x] = eve[x]
  BY <1>1, <1>2, <1>7
<1>9. TypeOK'
  BY <1>1, <1>8, Tables, TypesNamed
<1> QED
  BY <1>1, <1>7, <1>8, <1>9 DEF e

\* A turn ends.
LEMMA EveEndsStep ==
  ASSUME Shape, NEW s \in Session, NEW out \in Outcome, EveEnds(s, out)
  PROVE  /\ TypeOK'
         /\ \A x \in Session \ {s} : eve'[x] = eve[x]
         /\ eve[s].open # None
         /\ eve'[s].creates = eve[s].creates /\ eve'[s].open = None
         /\ eve'[s].dead <=> out \in {"session.completed", "session.failed"}
         /\ eve'[s].queue = IF eve'[s].dead THEN <<>> ELSE eve[s].queue
         /\ eve'[s].cur = eve[s].cur
         /\ eve'[s].log = Append(eve[s].log, [type |-> "end", out |-> out,
                                              run |-> eve[s].open])
         /\ UNCHANGED <<sess, run, lock, disp, tail, recon, limbo>>
<1> DEFINE e == [type |-> "end", out |-> out, run |-> eve[s].open]
           dies == out \in {"session.completed", "session.failed"}
           row == [eve[s] EXCEPT !.open = None, !.dead = dies,
                                 !.queue = IF dies THEN <<>> ELSE @,
                                 !.log = Append(@, e)]
<1>1. /\ eve' = [eve EXCEPT ![s] = row] /\ eve[s].open # None
      /\ UNCHANGED <<sess, run, lock, disp, tail, stops, recon, crashes, limbo>>
  BY DEF EveEnds, others, database
<1>2. eve \in [Session -> EveRec]
  BY Tables
<1>3. eve[s].queue \in Seq(Run) /\ eve[s].log \in Seq(Event) /\ eve[s].open \in Run
  BY <1>1, <1>2 DEF EveRec
<1>4. out \in AllOutcomes
  BY DispatchAssumption
<1>5. e \in Event
  BY <1>3, <1>4 DEF Event
<1>6. Append(eve[s].log, e) \in Seq(Event) /\ <<>> \in Seq(Run)
  BY <1>3, <1>5
<1> DEFINE left == IF dies THEN <<>> ELSE eve[s].queue
<1>10. /\ left \in Seq(Run) /\ left = (IF dies THEN <<>> ELSE eve[s].queue)
       /\ dies \in BOOLEAN
  BY <1>3, <1>6
<1>11. row = [eve[s] EXCEPT !.open = None, !.dead = dies, !.queue = left,
                            !.log = Append(eve[s].log, e)]
  OBVIOUS
<1> HIDE DEF e, row, dies, left
<1>7. /\ row \in EveRec /\ row.creates = eve[s].creates /\ row.open = None
      /\ row.dead = dies /\ row.queue = left /\ row.cur = eve[s].cur
      /\ row.log = Append(eve[s].log, e)
  BY <1>2, <1>6, <1>10, <1>11 DEF EveRec
<1> HIDE DEF row
<1>8. /\ eve' \in [Session -> EveRec] /\ eve'[s] = row
      /\ \A x \in Session \ {s} : eve'[x] = eve[x]
  BY <1>1, <1>2, <1>7
<1>9. TypeOK'
  BY <1>1, <1>8, Tables, TypesNamed
<1> QED
  BY <1>1, <1>7, <1>8, <1>9, <1>10 DEF e, dies

LEMMA StopBeginsStep ==
  ASSUME Shape, NEW r \in Run, StopBegins(r)
  PROVE  TypeOK' /\ Settles
<1>1. /\ UNCHANGED <<sess, run, lock, disp, tail, recon, eve, limbo, crashes>>
      /\ stops' = stops \cup {r}
  BY DEF StopBegins, database
<1>2. RunsKept /\ NoneParks
  BY <1>1, RunsSame
<1> QED
  BY <1>1, <1>2, Tables, TypesNamed DEF Settles

LEMMA StopSettlesStep ==
  ASSUME Shape, NEW r \in Run, StopSettles(r)
  PROVE  TypeOK' /\ Settles
<1>1. /\ UNCHANGED <<sess, lock, disp, tail, recon, eve, limbo, crashes>>
      /\ stops' = stops \ {r} /\ run' = settleOwing(run, r, "canceled")
  BY DEF StopSettles
<1>2. run' \in [Run -> RunRec] /\ RunsKept /\ NoneParks
  BY <1>1, RunsSettled DEF Terminal
<1> QED
  BY <1>1, <1>2, Tables, TypesNamed DEF Settles

\* What the eve rows keep when a tail moves.
EveKept == \A x \in Session :
    /\ eve'[x].creates = eve[x].creates /\ (eve'[x].dead <=> eve[x].dead)
    /\ eve'[x].queue = eve[x].queue /\ eve'[x].open = eve[x].open
    /\ eve'[x].log = eve[x].log
    /\ eve[x].log = <<>> => eve'[x] = eve[x]
    /\ \/ eve'[x].cur = eve[x].cur
       \/ eve[x].cur < Len(eve[x].log) /\ eve'[x].cur = eve[x].cur + 1

\* The step of a tail, put together.
LEMMA TailMoves ==
  ASSUME Shape, NEW r \in Run, NEW row \in TailRec,
         tail' = [tail EXCEPT ![r] = row] \/ (tail' = tail /\ row = tail[r]),
         run' \in [Run -> RunRec], RunsKept,
         NoneParks \/ (/\ tail[r].st = "ended" /\ row.st = "mark"
                       /\ \A q \in Run \ {r} : run'[q].st = run[q].st),
         \/ row.st = "none"
         \/ row.st = tail[r].st /\ row.out = tail[r].out
         \/ /\ tail[r].st = "pre" /\ row.st = "follow"
            /\ run'[r].st # "waiting"
         \/ /\ tail[r].st = "follow" /\ row.st = "ended"
            /\ \E i \in 1 .. Len(eve[run[r].sess].log) :
                 /\ eve[run[r].sess].log[i].type = "end"
                 /\ eve[run[r].sess].log[i].out = row.out
         \/ /\ tail[r].st = "ended" /\ row.st = "mark"
            /\ run[r].st \in LiveStatus
            /\ row.out = SessionStatusAt(tail[r].out)
         \/ /\ tail[r].st \in {"pre", "follow"} /\ row.st \in {"mark", "stopping"}
            /\ row.out = "active" /\ run'[r].st \in Terminal
         \/ /\ tail[r].st \in {"pre", "follow"} /\ row.st = "observe"
            /\ run'[r].st \in Terminal
         \/ tail[r].st = "stopping" /\ row.st = "observe"
         \/ /\ tail[r].st = "none" /\ row.st = "observe"
            /\ run[r].owed /\ lock[run[r].sess] = None /\ sess[run[r].sess].id,
         tail[r].st # "none" \/ (row.st = "observe" /\ run[r].owed) \/ row = tail[r],
         \/ UNCHANGED sess
         \/ /\ tail[r].st \in {"mark", "stopping"} /\ row.st \in {"none", "observe"}
            /\ sess' = markSession(sess, run[r].sess, tail[r].out),
         eve' \in [Session -> EveRec], EveKept,
         UNCHANGED noTails
  PROVE  TypeOK' /\ TailMove(r)
<1>1. tail \in [Run -> TailRec]
  BY Tables
<1>2. /\ tail' \in [Run -> TailRec] /\ tail'[r] = row
      /\ \A q \in Run \ {r} : tail'[q] = tail[q]
  BY <1>1
<1>3. UNCHANGED <<stops, recon, limbo, crashes, lock, disp>>
  BY DEF noTails
<1>4. /\ sess' \in [Session -> SessRec]
      /\ \A x \in Session :
         \/ sess'[x] = sess[x]
         \/ /\ x = run[r].sess /\ tail[r].st \in {"mark", "stopping"}
            /\ tail'[r].st \in {"none", "observe"}
            /\ sess'[x].id <=> sess[x].id
            /\ sess'[x].st = tail[r].out
            /\ sess'[x].key <=> sess[x].key /\ tail[r].out \notin Dead
  <2>1. CASE UNCHANGED sess
    BY <2>1, Tables
  <2>2. CASE /\ tail[r].st \in {"mark", "stopping"} /\ row.st \in {"none", "observe"}
             /\ sess' = markSession(sess, run[r].sess, tail[r].out)
    <3>1. sess \in [Session -> SessRec]
      BY Tables
    <3>2. run[r].sess \in Session
      BY <2>2 DEF Shape, RunShape
    <3>3. tail[r].out \in {"active", "waiting"} \cup Dead
      BY <2>2 DEF Shape, TailShape
    <3>4. PICK s \in Session : s = run[r].sess
      BY <3>2
    <3>5. PICK o \in {"active", "waiting"} \cup Dead : o = tail[r].out
      BY <3>3
    <3>6. sess' = markSession(sess, s, o)
      BY <2>2, <3>4, <3>5
    <3>7. /\ sess' \in [Session -> SessRec]
          /\ \A x \in Session \ {s} : sess'[x] = sess[x]
          /\ sess'[s].st = o /\ (sess'[s].id <=> sess[s].id)
          /\ sess'[s].key <=> sess[s].key /\ o \notin Dead
      BY <3>1, <3>6 DEF markSession, SessRec
    <3> QED
      BY <1>2, <2>2, <3>4, <3>5, <3>7
  <2> QED
    BY <2>1, <2>2
<1>5. TypeOK'
  BY <1>2, <1>3, <1>4, Tables, TypesNamed
<1>6. \A q \in Run : run'[q].st = "waiting" =>
         \/ run[q].st = "waiting"
         \/ q = r /\ tail[r].st = "ended" /\ tail'[r].st = "mark"
  BY <1>2 DEF NoneParks
<1>7. TailTurn(r)
  BY <1>2 DEF TailTurn
<1>8. tail[r].st # "none" \/ (tail'[r].st = "observe" /\ run[r].owed)
         \/ tail'[r] = tail[r]
  BY <1>2
<1> QED
  BY <1>2, <1>3, <1>4, <1>5, <1>6, <1>7, <1>8 DEF TailMove, EveKept

LEMMA EveSame ==
  ASSUME Shape, UNCHANGED eve
  PROVE  eve' \in [Session -> EveRec] /\ EveKept
BY Tables DEF EveKept

LEMMA EndTailRow ==
  ASSUME NEW r \in Run, EndTail(r)
  PROVE  NoTail \in TailRec /\ NoTail.st = "none" /\ tail' = [tail EXCEPT ![r] = NoTail]
BY DEF EndTail, NoTail, TailRec, TailPc

LEMMA TailAdoptStep ==
  ASSUME Shape, NEW r \in Run, TailAdopt(r)
  PROVE  TypeOK' /\ TailMove(r)
<1> DEFINE row == [st |-> "follow", saw |-> run[r].turn, hitl |-> run[r].hitl, out |-> "none"]
<1>1. /\ tail[r].st = "pre" /\ UNCHANGED <<sess, eve>> /\ UNCHANGED noTails
      /\ run' = markRun(run, r, "running")
  BY DEF TailAdopt
<1>2. run \in [Run -> RunRec]
  BY Tables
<1>3. /\ run' \in [Run -> RunRec]
      /\ \A q \in Run :
           /\ run'[q].sess = run[q].sess /\ run'[q].armed = run[q].armed
           /\ run'[q].owed = run[q].owed
           /\ run'[q].st = IF q = r /\ run[r].st \in LiveStatus THEN "running" ELSE run[q].st
  <2>1. "running" \in LiveStatus \cup Terminal
    BY DEF LiveStatus
  <2> QED
    BY <1>1, <1>2, <2>1, MarkRun
<1>4. RunsKept /\ NoneParks
  BY <1>3 DEF RunsKept, NoneParks, LiveStatus
<1>5. CASE run[r].st \in LiveStatus
  <2>1. row \in TailRec /\ row.st = "follow"
    BY <1>2 DEF TailRec, TailPc, RunRec
  <2>2. tail' = [tail EXCEPT ![r] = row]
    BY <1>5 DEF TailAdopt
  <2> HIDE DEF row
  <2>3. run'[r].st # "waiting"
    BY <1>3, <1>5
  <2> QED
    BY <1>1, <1>3, <1>4, <2>1, <2>2, <2>3, EveSame, TailMoves
<1>6. CASE run[r].st \notin LiveStatus
  <2>1. EndTail(r)
    BY <1>6 DEF TailAdopt
  <2> QED
    BY <1>1, <1>3, <1>4, <2>1, EndTailRow, EveSame, TailMoves
<1> QED
  BY <1>5, <1>6

LEMMA TailFinishStep ==
  ASSUME Shape, NEW r \in Run, TailFinish(r)
  PROVE  TypeOK' /\ TailMove(r)
<1> DEFINE row == [tail[r] EXCEPT !.st = "mark", !.out = SessionStatusAt(tail[r].out)]
<1>1. /\ tail[r].st = "ended" /\ UNCHANGED <<sess, eve>> /\ UNCHANGED noTails
      /\ run' = markRun(run, r, RunStatusAt(tail[r].out))
  BY DEF TailFinish
<1>2. run \in [Run -> RunRec] /\ tail \in [Run -> TailRec]
  BY Tables
<1>3. PICK st \in LiveStatus \cup Terminal : st = RunStatusAt(tail[r].out)
  BY DEF RunStatusAt, LiveStatus, Terminal
<1>4. /\ run' \in [Run -> RunRec]
      /\ \A q \in Run :
           /\ run'[q].sess = run[q].sess /\ run'[q].armed = run[q].armed
           /\ run'[q].owed = run[q].owed
           /\ run'[q].st = IF q = r /\ run[r].st \in LiveStatus THEN st ELSE run[q].st
  <2>1. run' = markRun(run, r, st)
    BY <1>1, <1>3
  <2> QED
    BY <1>2, <2>1, MarkRun
<1>5. RunsKept
  BY <1>4 DEF RunsKept
<1>6. CASE run[r].st \in LiveStatus
  <2>1. SessionStatusAt(tail[r].out) \in {"active", "waiting"} \cup Dead
    BY DEF SessionStatusAt, Dead
  <2>2. row \in TailRec /\ row.st = "mark" /\ row.out = SessionStatusAt(tail[r].out)
    BY <1>2, <2>1 DEF TailRec, TailPc
  <2>3. tail' = [tail EXCEPT ![r] = row]
    BY <1>6 DEF TailFinish
  <2> HIDE DEF row
  <2>4. \A q \in Run \ {r} : run'[q].st = run[q].st
    BY <1>4
  <2> QED
    BY <1>1, <1>4, <1>5, <1>6, <2>2, <2>3, <2>4, EveSame, TailMoves
<1>7. CASE run[r].st \notin LiveStatus
  <2>1. EndTail(r)
    BY <1>7 DEF TailFinish
  <2>2. NoneParks
    BY <1>4, <1>7 DEF NoneParks
  <2> QED
    BY <1>1, <1>4, <1>5, <2>1, <2>2, EndTailRow, EveSame, TailMoves
<1> QED
  BY <1>6, <1>7

LEMMA TailMarksSessionStep ==
  ASSUME Shape, NEW r \in Run, TailMarksSession(r)
  PROVE  TypeOK' /\ TailMove(r)
<1> DEFINE row == [NoTail EXCEPT !.st = "observe"]
<1>1. /\ tail[r].st \in {"mark", "stopping"}
      /\ sess' = markSession(sess, run[r].sess, tail[r].out)
      /\ UNCHANGED <<run, eve>> /\ UNCHANGED noTails
  BY DEF TailMarksSession
<1>2. run' \in [Run -> RunRec] /\ RunsKept /\ NoneParks
  BY <1>1, RunsSame, Tables
<1>3. CASE tail[r].st = "stopping" /\ run[r].owed
  <2>1. row \in TailRec /\ row.st = "observe"
    BY DEF TailRec, TailPc, NoTail
  <2>2. tail' = [tail EXCEPT ![r] = row]
    BY <1>3 DEF TailMarksSession
  <2> HIDE DEF row
  <2> QED
    BY <1>1, <1>2, <1>3, <2>1, <2>2, EveSame, TailMoves
<1>4. CASE ~(tail[r].st = "stopping" /\ run[r].owed)
  <2>1. EndTail(r)
    BY <1>4 DEF TailMarksSession
  <2> QED
    BY <1>1, <1>2, <2>1, EndTailRow, EveSame, TailMoves
<1> QED
  BY <1>3, <1>4

LEMMA TailCapStep ==
  ASSUME Shape, NEW r \in Run, TailCap(r)
  PROVE  TypeOK' /\ TailMove(r)
<1> DEFINE row == [tail[r] EXCEPT !.st = "observe"]
<1>1. /\ tail[r].st \in {"pre", "follow"} /\ UNCHANGED <<sess, eve>>
      /\ UNCHANGED noTails /\ run' = settleOwing(run, r, "failed")
  BY DEF TailCap
<1>2. run[r].st # "none"
  BY <1>1 DEF Shape, RunShape
<1>3. run' \in [Run -> RunRec] /\ RunsKept /\ NoneParks /\ run'[r].st \in Terminal
  BY <1>1, <1>2, RunsSettled DEF Terminal
<1>4. CASE run[r].st \in LiveStatus
  <2>1. row \in TailRec /\ row.st = "observe"
    BY Tables DEF TailRec, TailPc
  <2>2. tail' = [tail EXCEPT ![r] = row]
    BY <1>4 DEF TailCap, SetTail
  <2> HIDE DEF row
  <2> QED
    BY <1>1, <1>3, <2>1, <2>2, EveSame, TailMoves
<1>5. CASE run[r].st \notin LiveStatus
  <2>1. EndTail(r)
    BY <1>5 DEF TailCap
  <2> QED
    BY <1>1, <1>3, <2>1, EndTailRow, EveSame, TailMoves
<1> QED
  BY <1>4, <1>5

LEMMA TailLostStep ==
  ASSUME Shape, NEW r \in Run, TailLost(r)
  PROVE  TypeOK' /\ TailMove(r)
<1>1. /\ tail[r].st \in {"follow", "observe"} /\ UNCHANGED <<sess, eve>>
      /\ UNCHANGED noTails /\ EndTail(r)
  BY DEF TailLost
<1>2. run' \in [Run -> RunRec] /\ RunsKept /\ NoneParks
  <2>1. CASE run' = markRun(run, r, "failed")
    BY <2>1, RunsMarked DEF Terminal
  <2>2. CASE run' = run
    BY <2>2, RunsSame, Tables
  <2> QED
    BY <2>1, <2>2 DEF TailLost
<1> QED
  BY <1>1, <1>2, EndTailRow, EveSame, TailMoves

\* A row whose obligation is declared unresolved is otherwise the same.
LEMMA RunsUnresolved ==
  ASSUME Shape, NEW r \in Run, NEW b \in BOOLEAN,
         run' = [run EXCEPT ![r].unresolved = b]
  PROVE  run' \in [Run -> RunRec] /\ RunsKept /\ NoneParks
<1>1. run \in [Run -> RunRec]
  BY Tables
<1>2. /\ run' \in [Run -> RunRec]
      /\ \A q \in Run : /\ run'[q].sess = run[q].sess /\ run'[q].armed = run[q].armed
                        /\ run'[q].owed = run[q].owed /\ run'[q].st = run[q].st
  BY <1>1 DEF RunRec
<1>3. \A q \in Run : run[q].st \in LiveStatus => run'[q].st \in LiveStatus \cup Terminal
  BY <1>2
<1> QED
  BY <1>2, <1>3 DEF RunsKept, NoneParks

LEMMA ObserveExpiresStep ==
  ASSUME Shape, NEW r \in Run, ObserveExpires(r)
  PROVE  TypeOK' /\ TailMove(r)
<1>1. /\ tail[r].st = "observe" /\ UNCHANGED <<sess, eve>>
      /\ UNCHANGED noTails /\ EndTail(r)
      /\ run' = [run EXCEPT ![r].unresolved = @ \/ run[r].owed]
  BY DEF ObserveExpires
<1>2. PICK b \in BOOLEAN : b = (run[r].unresolved \/ run[r].owed)
  OBVIOUS
<1>3. run' = [run EXCEPT ![r].unresolved = b]
  BY <1>1, <1>2
<1> QED
  BY <1>1, <1>3, RunsUnresolved, EndTailRow, EveSame, TailMoves

LEMMA StopLiveStep ==
  ASSUME Shape, NEW r \in Run, StopLive(r)
  PROVE  TypeOK' /\ TailMove(r)
<1> DEFINE owes == ~(tail[r].saw /\ eve[run[r].sess].dead)
           row == [tail[r] EXCEPT !.out = "active",
                                  !.st = IF owes THEN "stopping" ELSE "mark"]
<1>1. /\ tail[r].st \in {"pre", "follow"} /\ UNCHANGED <<sess, eve>>
      /\ UNCHANGED noTails
      /\ run' = IF owes THEN settleOwing(run, r, "canceled")
                ELSE markRun(run, r, "canceled")
  BY DEF StopLive
<1>2. run[r].st # "none"
  BY <1>1 DEF Shape, RunShape
<1>3. run' \in [Run -> RunRec] /\ RunsKept /\ NoneParks /\ run'[r].st \in Terminal
  <2>1. CASE run' = settleOwing(run, r, "canceled")
    BY <1>2, <2>1, RunsSettled DEF Terminal
  <2>2. CASE run' = markRun(run, r, "canceled")
    BY <1>2, <2>2, RunsMarked DEF Terminal
  <2> QED
    BY <1>1, <2>1, <2>2
<1>4. CASE run[r].st \in LiveStatus
  <2>1. tail' = [tail EXCEPT ![r] = row]
    BY <1>4 DEF StopLive
  <2>2. PICK w \in {"stopping", "mark"} : w = IF owes THEN "stopping" ELSE "mark"
    OBVIOUS
  <2>3. row = [tail[r] EXCEPT !.out = "active", !.st = w]
    BY <2>2
  <2> HIDE DEF row
  <2>4. row \in TailRec /\ row.st \in {"stopping", "mark"} /\ row.out = "active"
    BY <2>3, Tables DEF TailRec, TailPc
  <2> QED
    BY <1>1, <1>3, <2>1, <2>4, EveSame, TailMoves
<1>5. CASE run[r].st \notin LiveStatus
  <2>1. EndTail(r)
    BY <1>5 DEF StopLive
  <2> QED
    BY <1>1, <1>3, <2>1, EndTailRow, EveSame, TailMoves
<1> QED
  BY <1>4, <1>5

LEMMA SettleMetStep ==
  ASSUME Shape, NEW r \in Run, SettleMet(r)
  PROVE  TypeOK' /\ TailMove(r)
<1>1. /\ UNCHANGED <<sess, eve>> /\ UNCHANGED noTails
      /\ run' = clearRemoteCancelPending(run, {r})
  BY DEF SettleMet
<1>2. run' \in [Run -> RunRec] /\ RunsKept /\ NoneParks
  BY <1>1, RunsCleared
<1>3. CASE tail[r].st = "observe" /\ EndTail(r)
  BY <1>1, <1>2, <1>3, EndTailRow, EveSame, TailMoves
<1>4. CASE UNCHANGED tail
  <2>1. tail[r] \in TailRec
    BY Tables
  <2> QED
    BY <1>1, <1>2, <1>4, <2>1, EveSame, TailMoves
<1> QED
  BY <1>3, <1>4 DEF SettleMet

LEMMA SettleUnresolvedStep ==
  ASSUME Shape, NEW r \in Run, SettleUnresolved(r)
  PROVE  TypeOK' /\ TailMove(r)
<1>1. /\ UNCHANGED <<sess, tail, eve>> /\ UNCHANGED noTails
      /\ run' = [run EXCEPT ![r].unresolved = TRUE]
  BY DEF SettleUnresolved
<1>2. run' \in [Run -> RunRec] /\ RunsKept /\ NoneParks
  BY <1>1, RunsUnresolved
<1>3. tail[r] \in TailRec
  BY Tables
<1> QED
  BY <1>1, <1>2, <1>3, EveSame, TailMoves

LEMMA SettleObservesStep ==
  ASSUME Shape, NEW r \in Run, SettleObserves(r)
  PROVE  TypeOK' /\ TailMove(r)
<1> DEFINE row == [NoTail EXCEPT !.st = "observe"]
<1>1. /\ run[r].owed /\ lock[run[r].sess] = None /\ sess[run[r].sess].id
      /\ UNCHANGED <<sess, run, eve>> /\ UNCHANGED noTails
      /\ tail' = startObservation(tail, run, run[r].sess, r) /\ tail' # tail
  BY DEF SettleObserves, Owes, database
<1>2. tail[r].st = "none" /\ tail' = [tail EXCEPT ![r] = row]
  BY <1>1 DEF startObservation
<1>3. run' \in [Run -> RunRec] /\ RunsKept /\ NoneParks
  BY <1>1, RunsSame, Tables
<1>4. row \in TailRec /\ row.st = "observe"
  BY DEF TailRec, TailPc, NoTail
<1> HIDE DEF row
<1> QED
  BY <1>1, <1>2, <1>3, <1>4, EveSame, TailMoves

\* The rows a reader clears, with the turn of x recorded or not.
LEMMA RunsAttributed ==
  ASSUME Shape, NEW R, NEW x \in Run, NEW b \in BOOLEAN, NEW rs,
         rs = [clearRemoteCancelPending(run, R) EXCEPT ![x].turn = b],
         run' = rs
  PROVE  run' \in [Run -> RunRec] /\ RunsKept /\ NoneParks
<1>1. PICK cs : cs = clearRemoteCancelPending(run, R)
  OBVIOUS
<1>2. run \in [Run -> RunRec]
  BY Tables
<1>3. /\ cs \in [Run -> RunRec]
      /\ \A q \in Run : /\ cs[q].sess = run[q].sess /\ cs[q].armed = run[q].armed
                        /\ cs[q].owed => run[q].owed
                        /\ cs[q].st = run[q].st
  BY <1>1, <1>2, ClearPending
<1>4. run' = [cs EXCEPT ![x].turn = b]
  BY <1>1
<1>5. /\ run' \in [Run -> RunRec]
      /\ \A q \in Run : /\ run'[q].sess = cs[q].sess /\ run'[q].armed = cs[q].armed
                        /\ run'[q].owed = cs[q].owed /\ run'[q].st = cs[q].st
  <2> DEFINE row == [cs[x] EXCEPT !.turn = b]
  <2>1. run' = [cs EXCEPT ![x] = row]
    BY <1>4
  <2>2. /\ row \in RunRec /\ row.sess = cs[x].sess /\ row.armed = cs[x].armed
        /\ row.owed = cs[x].owed /\ row.st = cs[x].st
    BY <1>3 DEF RunRec
  <2> HIDE DEF row
  <2> QED
    BY <1>3, <2>1, <2>2
<1>6. \A q \in Run : /\ run'[q].sess = run[q].sess /\ run'[q].armed = run[q].armed
                     /\ run'[q].owed => run[q].owed
                     /\ run'[q].st = run[q].st
  BY <1>3, <1>5
<1>7. \A q \in Run : run[q].st \in LiveStatus => run'[q].st \in LiveStatus \cup Terminal
  BY <1>6
<1> QED
  BY <1>5, <1>6, <1>7 DEF RunsKept, NoneParks

\* After an event a reader goes on, or an observer is done.
LEMMA AfterReadTail ==
  ASSUME Shape, NEW r \in Run, NEW rs, AfterRead(r, rs)
  PROVE  tail' = tail \/ (tail[r].st # "none" /\ EndTail(r))
BY DEF AfterRead, EndTail

LEMMA TailReadsStep ==
  ASSUME Shape, NEW r \in Run, TailReads(r)
  PROVE  TypeOK' /\ TailMove(r)
<1> DEFINE s == run[r].sess
           e == eve[s].log[eve[s].cur + 1]
<1>1. /\ tail[r].st \in {"follow", "observe"} /\ eve[s].cur < Len(eve[s].log)
      /\ eve' = [eve EXCEPT ![s].cur = @ + 1]
      /\ UNCHANGED sess /\ UNCHANGED noTails
      /\ \/ e.type = "start" /\ ReadStart(r, e.run)
         \/ e.type = "end" /\ ReadEnd(r, e.run, e.out)
  BY DEF TailReads
<1>2. s \in Session
  BY <1>1 DEF Shape, RunShape
<1>3. eve \in [Session -> EveRec] /\ tail \in [Run -> TailRec] /\ run \in [Run -> RunRec]
  BY Tables
<1>4. eve[s].log \in Seq(Event) /\ eve[s].cur \in Nat
  BY <1>2, <1>3 DEF EveRec
<1>5. eve[s].cur + 1 \in 1 .. Len(eve[s].log) /\ eve[s].log # <<>>
  <2>1. PICK c, l : c = eve[s].cur /\ l = eve[s].log
    OBVIOUS
  <2>2. c \in Nat /\ l \in Seq(Event) /\ c < Len(l)
    BY <1>1, <1>4, <2>1
  <2>3. c + 1 \in 1 .. Len(l) /\ l # <<>>
    BY <2>2
  <2> QED
    BY <2>1, <2>3
<1>6. e \in Event
  BY <1>4, <1>5
<1> HIDE DEF e
<1>7. e.run \in Run /\ e.out \in AllOutcomes \cup {"none"}
  BY <1>6, DispatchAssumption DEF Event
<1>8. eve' \in [Session -> EveRec] /\ EveKept
  <2> DEFINE row == [eve[s] EXCEPT !.cur = @ + 1]
  <2>1. eve' = [eve EXCEPT ![s] = row]
    BY <1>1
  <2>2. eve[s].cur + 1 \in Nat
    BY <1>4
  <2>3. /\ row \in EveRec /\ row.creates = eve[s].creates /\ row.dead = eve[s].dead
        /\ row.queue = eve[s].queue /\ row.open = eve[s].open /\ row.log = eve[s].log
        /\ row.cur = eve[s].cur + 1
    BY <1>2, <1>3, <2>2 DEF EveRec
  <2> HIDE DEF row
  <2>4. /\ eve' \in [Session -> EveRec] /\ eve'[s] = row
        /\ \A x \in Session \ {s} : eve'[x] = eve[x]
    BY <1>2, <1>3, <2>1, <2>3
  <2> QED
    BY <1>1, <1>5, <2>3, <2>4 DEF EveKept
<1>9. CASE e.type = "start" /\ ReadStart(r, e.run)
  <2> DEFINE x == e.run
             obligation == x \in Followed(r)
             ours == ~obligation /\ (IsOwn(r, x) \/ IsSuccessor(r, x))
             over == {q \in Followed(r) \ {x} : run[q].turn \/ ours}
  <2>1. PICK b \in BOOLEAN :
          b = (clearRemoteCancelPending(run, over)[x].turn \/ obligation \/ ours)
    OBVIOUS
  <2>2. PICK rs : rs = [clearRemoteCancelPending(run, over) EXCEPT
                          ![x].turn = @ \/ obligation \/ ours]
    OBVIOUS
  <2>3. /\ run' = rs
        /\ IF IsOwn(r, x) THEN tail' = [tail EXCEPT ![r].saw = TRUE]
           ELSE AfterRead(r, rs)
    BY <1>9, <2>2 DEF ReadStart
  <2>4. rs = [clearRemoteCancelPending(run, over) EXCEPT ![x].turn = b]
    BY <2>1, <2>2
  <2> HIDE DEF ours, over, obligation
  <2>5. run' \in [Run -> RunRec] /\ RunsKept /\ NoneParks
    BY <1>7, <2>3, <2>4, RunsAttributed
  <2>6. CASE tail' = [tail EXCEPT ![r].saw = TRUE]
    <3> DEFINE row == [tail[r] EXCEPT !.saw = TRUE]
    <3>1. row \in TailRec /\ row.st = tail[r].st /\ row.out = tail[r].out
      BY <1>3 DEF TailRec
    <3>2. tail' = [tail EXCEPT ![r] = row]
      BY <2>6
    <3> HIDE DEF row
    <3> QED
      BY <1>1, <1>8, <2>5, <3>1, <3>2, TailMoves
  <2>7. CASE AfterRead(r, rs)
    <3>1. CASE tail' = tail
      <4>1. tail[r] \in TailRec
        BY <1>3
      <4> QED
        BY <1>1, <1>8, <2>5, <3>1, <4>1, TailMoves
    <3>2. CASE EndTail(r)
      BY <1>1, <1>8, <2>5, <3>2, EndTailRow, TailMoves
    <3> QED
      BY <2>7, <3>1, <3>2, AfterReadTail
  <2> QED
    BY <2>3, <2>6, <2>7
<1>10. CASE e.type = "end" /\ ReadEnd(r, e.run, e.out)
  <2>1. PICK R : run' = clearRemoteCancelPending(run, R)
    BY <1>10 DEF ReadEnd
  <2>2. run' \in [Run -> RunRec] /\ RunsKept /\ NoneParks
    BY <2>1, RunsCleared
  <2>3. CASE /\ tail[r].st = "follow"
             /\ tail' = [tail EXCEPT ![r].st = "ended", ![r].out = e.out]
    <3> DEFINE row == [tail[r] EXCEPT !.st = "ended", !.out = e.out]
    <3>1. row \in TailRec /\ row.st = "ended" /\ row.out = e.out
      BY <1>3, <1>7 DEF TailRec, TailPc
    <3>2. tail' = [tail EXCEPT ![r] = row]
      BY <2>3
    <3> HIDE DEF row
    <3>3. \E i \in 1 .. Len(eve[s].log) : /\ eve[s].log[i].type = "end"
                                          /\ eve[s].log[i].out = row.out
      BY <1>5, <1>10, <3>1 DEF e
    <3> QED
      BY <1>1, <1>8, <2>2, <2>3, <3>1, <3>2, <3>3, TailMoves
  <2>4. ASSUME NEW rs, AfterRead(r, rs)
        PROVE  TypeOK' /\ TailMove(r)
    <3>1. CASE tail' = tail
      <4>1. tail[r] \in TailRec
        BY <1>3
      <4> QED
        BY <1>1, <1>8, <2>2, <3>1, <4>1, TailMoves
    <3>2. CASE EndTail(r)
      BY <1>1, <1>8, <2>2, <3>2, EndTailRow, TailMoves
    <3> QED
      BY <2>4, <3>1, <3>2, AfterReadTail
  <2> QED
    BY <1>10, <2>3, <2>4 DEF ReadEnd
<1> QED
  BY <1>1, <1>9, <1>10

-----------------------------------------------------------------------------
(* Restart and boot reconciliation.                                        *)

LEMMA RestartStep ==
  ASSUME Shape, NEW S \in SUBSET Run, Restart(S)
  PROVE  TypeOK' /\ Reboots
<1>1. run \in [Run -> RunRec]
  BY Tables
<1>2. \A r \in Run :
        LET row == settleOwing(run, r, "failed")[r] IN
        /\ row \in RunRec
        /\ row.sess = run[r].sess /\ row.armed = run[r].armed
        /\ row.owed <=> run[r].owed \/ run[r].st \in LiveStatus
        /\ row.st = IF run[r].st \in LiveStatus THEN "failed" ELSE run[r].st
  BY <1>1, SettleOwing DEF Terminal
<1>3. run' = [r \in Run |-> IF r \in S THEN settleOwing(run, r, "failed")[r] ELSE run[r]]
  BY DEF Restart
<1>4. run' \in [Run -> RunRec]
  BY <1>1, <1>2, <1>3
<1>5. \A r \in Run : run'[r] = IF r \in S THEN settleOwing(run, r, "failed")[r] ELSE run[r]
  BY <1>3
<1>6. RunsKept /\ NoneParks
  BY <1>1, <1>2, <1>5 DEF RunsKept, NoneParks, LiveStatus, Terminal
<1>7. /\ lock' = [s \in Session |-> None] /\ disp' = [d \in Disp |-> Idle]
      /\ tail' = [r \in Run |-> NoTail] /\ stops' = {}
      /\ recon' = [pc |-> "boot", rows |-> {}, eveless |-> {}]
      /\ limbo' = limbo \cup {disp[d].run : d \in {c \in Disp : disp[c].pc = "send"}}
      /\ UNCHANGED <<sess, eve>> /\ crashes < MaxCrashes /\ crashes' = crashes + 1
  BY DEF Restart
<1>8. \A r \in limbo' :
         r \in limbo \/ \E d \in Disp : disp[d].pc = "send" /\ disp[d].run = r
  BY <1>7
<1>9. limbo' \subseteq Run
  <2>1. \A d \in Disp : disp[d].pc = "send" => disp[d].run \in Run
    BY Request DEF Owner, OwnPc
  <2> QED
    BY <1>8, <2>1, Tables
<1>10. crashes' \in 0 .. MaxCrashes
  BY <1>7, Tables, DispatchAssumption
<1>11. /\ Idle \in DispRec /\ NoTail \in TailRec
       /\ [pc |-> "boot", rows |-> {}, eveless |-> {}] \in ReconRec
  BY DEF Idle, DispRec, DispPc, NoTail, TailRec, TailPc, ReconRec
<1>12. TypeOK'
  BY <1>4, <1>7, <1>9, <1>10, <1>11, Tables, TypesNamed
<1> QED
  BY <1>6, <1>7, <1>8, <1>12 DEF Reboots

LEMMA ReconSelectsStep ==
  ASSUME Shape, ReconSelects
  PROVE  TypeOK'
<1> DEFINE R == {q \in Run : run[q].st \in {"queued", "running"}}
           rowOf(r) == [run |-> r, armed |-> run[r].armed, id |-> sess[run[r].sess].id]
           rows == {rowOf(r) : r \in R}
<1>1. /\ recon' = [recon EXCEPT !.pc = "runs", !.rows = rows]
      /\ UNCHANGED <<sess, run, lock, disp, tail, stops, eve, limbo, crashes>>
  BY DEF ReconSelects, database
<1>2. sess \in [Session -> SessRec] /\ run \in [Run -> RunRec] /\ recon \in ReconRec
  BY Tables
<1>3. \A r \in R : run[r].sess \in Session
  BY DEF Shape, RunShape
<1>4. \A r \in R : rowOf(r) \in RowRec
  BY <1>2, <1>3 DEF RowRec, SessRec, RunRec
<1>5. rows \subseteq RowRec
  BY <1>4
<1> HIDE DEF rows
<1>6. recon' \in ReconRec
  BY <1>1, <1>2, <1>5 DEF ReconRec
<1> QED
  BY <1>1, <1>6, Tables, TypesNamed

LEMMA ReconRowStep ==
  ASSUME Shape, NEW row \in recon.rows, ReconRow(row)
  PROVE  TypeOK' /\ Sweeps(row)
<1>1. /\ recon.pc = "runs" /\ recon' = [recon EXCEPT !.rows = @ \ {row}]
      /\ UNCHANGED <<sess, lock, disp, stops, eve, limbo, crashes>>
  BY DEF ReconRow
<1>2. recon \in ReconRec /\ tail \in [Run -> TailRec] /\ run \in [Run -> RunRec]
  BY Tables
<1>3. row \in RowRec
  BY <1>2 DEF ReconRec
<1>4. row.run \in Run
  BY <1>3 DEF RowRec
<1>5. recon' \in ReconRec /\ recon'.pc = recon.pc /\ recon'.rows = recon.rows \ {row}
  BY <1>1, <1>2 DEF ReconRec
<1>6. CASE tail[row.run].st # "none" /\ UNCHANGED <<run, tail>>
  BY <1>1, <1>5, <1>6, Tables, TypesNamed DEF Sweeps
<1>7. CASE /\ tail[row.run].st = "none" /\ row.armed /\ row.id
           /\ tail' = startTail(tail, run[row.run].sess, row.run)
           /\ UNCHANGED run
  <2>1. tail' \in [Run -> TailRec] /\ TailsStart(row.run)
    BY <1>2, <1>4, <1>7 DEF startTail, TailsStart, TailRec, NoTail, TailPc
  <2> QED
    BY <1>1, <1>5, <1>7, <2>1, Tables, TypesNamed DEF Sweeps
<1>8. CASE /\ tail[row.run].st = "none" /\ run' = markRun(run, row.run, "failed")
           /\ UNCHANGED tail
  <2>1. run' \in [Run -> RunRec] /\ RunsKept /\ NoneParks
    BY <1>4, <1>8, RunsMarked DEF Terminal
  <2>2. run'[row.run].st \notin LiveStatus
    BY <1>2, <1>4, <1>8 DEF markRun, LiveStatus, RunRec
  <2> QED
    BY <1>1, <1>5, <1>8, <2>1, <2>2, Tables, TypesNamed DEF Sweeps
<1> QED
  BY <1>6, <1>7, <1>8 DEF ReconRow

LEMMA ReconSelectsEvelessStep ==
  ASSUME Shape, ReconSelectsEveless
  PROVE  /\ TypeOK'
         /\ recon.pc = "runs" /\ recon.rows = {}
         /\ recon'.pc = "done" /\ recon'.rows = recon.rows
         /\ UNCHANGED <<sess, run, lock, disp, tail, eve, limbo>>
<1> DEFINE lost == {s \in Session : ~sess[s].id /\ sess[s].st \notin Dead \cup {"none"}}
<1>1. /\ recon' = [recon EXCEPT !.pc = "done", !.eveless = lost]
      /\ recon.pc = "runs" /\ recon.rows = {}
      /\ UNCHANGED <<sess, run, lock, disp, tail, stops, eve, limbo, crashes>>
  BY DEF ReconSelectsEveless, database
<1>2. lost \subseteq Session
  OBVIOUS
<1> HIDE DEF lost
<1>3. recon' \in ReconRec /\ recon'.pc = "done" /\ recon'.rows = recon.rows
  BY <1>1, <1>2, Tables DEF ReconRec
<1> QED
  BY <1>1, <1>3, Tables, TypesNamed

LEMMA ReconEvelessStep ==
  ASSUME Shape, NEW s \in Session, ReconEveless(s)
  PROVE  TypeOK' /\ Heals(s)
<1>1. /\ recon' = [recon EXCEPT !.eveless = @ \ {s}]
      /\ UNCHANGED <<run, lock, disp, tail, stops, eve, limbo, crashes>>
      /\ sess' = IF lock[s] = None /\ Abandoned(s)
                 THEN markSession(sess, s, "closed") ELSE sess
  BY DEF ReconEveless
<1>2. recon' \in ReconRec /\ recon'.pc = recon.pc /\ recon'.rows = recon.rows
  BY <1>1, Tables DEF ReconRec
<1>3. /\ sess' \in [Session -> SessRec]
      /\ \A x \in Session : sess'[x] = sess[x] \/ (lock[x] = None /\ Closing(x))
  <2>1. CASE lock[s] = None /\ Abandoned(s)
    <3>1. sess[s].st # "none"
      BY <2>1 DEF Abandoned
    <3>2. sess' = markSession(sess, s, "closed")
      BY <1>1, <2>1
    <3> QED
      BY <2>1, <3>1, <3>2, SessionClosed DEF Dead
  <2>2. CASE ~(lock[s] = None /\ Abandoned(s))
    BY <1>1, <2>2, Tables
  <2> QED
    BY <2>1, <2>2
<1> QED
  BY <1>1, <1>2, <1>3, Tables, TypesNamed DEF Heals

-----------------------------------------------------------------------------
(* The kinds of steps together.                                            *)

Step ==
    \/ Settles \/ Reboots
    \/ ReconSelects \/ ReconSelectsEveless
    \/ \E row \in recon.rows : Sweeps(row)
    \/ \E s \in Session : Heals(s) \/ EveStarts(s)
    \/ \E s \in Session, out \in Outcome : EveEnds(s, out)
    \/ \E r \in Run : TailMove(r) \/ EveAcceptsLate(r)
    \/ \E d \in Disp :
         \/ Quit(d) \/ Enters(d) \/ Flips(d) \/ Arms(d) \/ Accepted(d)
         \/ Persists(d) \/ Abandons(d) \/ Follows(d) \/ Replaces(d) \/ Retires(d)
         \/ \E p \in DispPc : Pass(d, p)
         \/ \E s \in Session : TakesFresh(d, s) \/ TakesSession(d, s) \/ TakesQuiet(d, s)
         \/ \E r \in Run : TakesParked(d, r) \/ Admits(d, r)

LEMMA BeginStep ==
  ASSUME Shape, NEW d \in Disp, Begin(d)
  PROVE  TypeOK' /\ Step
<1>1. EarlyTraffic \/ recon.pc = "done"
  BY DEF Begin
<1>2. CASE \E s \in Session, kind \in Kind, key \in BOOLEAN : LockFresh(d, s, kind, key)
  BY <1>1, <1>2, LockFreshStep DEF Step
<1>3. CASE \E s \in Session, kind \in Kind : LockSession(d, s, kind)
  BY <1>1, <1>3, LockSessionStep DEF Step
<1>4. CASE \E r \in Run : LockResume(d, r)
  BY <1>1, <1>4, LockResumeStep DEF Step
<1>5. CASE \E s \in Session : LockReset(d, s)
  BY <1>1, <1>5, LockResetStep DEF Step
<1> QED
  BY <1>2, <1>3, <1>4, <1>5 DEF Begin

LEMMA DispatchStepStep ==
  ASSUME Shape, NEW d \in Disp, DispatchStep(d)
  PROVE  TypeOK' /\ Step
<1>1. CASE Reread(d) \/ AdmitFresh(d) \/ AdmitMessage(d) \/ AdmitResume(d)
  BY <1>1, RereadStep, AdmitFreshStep, AdmitMessageStep, AdmitResumeStep DEF Step
<1>2. CASE Ensure(d) \/ Arm(d) \/ SendReturns(d) \/ Persist(d)
  BY <1>2, EnsureStep, ArmStep, SendReturnsStep, PersistStep DEF Step
<1>3. CASE Recheck(d) \/ StartTail(d) \/ FailGone(d) \/ FailEve(d)
  BY <1>3, RecheckStep, StartTailStep, FailGoneStep, FailEveStep DEF Step
<1>4. CASE FailRun(d) \/ FailSession(d) \/ ResetClose(d)
  BY <1>4, FailRunStep, FailSessionStep, ResetCloseStep DEF Step
<1>5. CASE EveAnswers(d) \/ EveResets(d) \/ SendFails(d)
  BY <1>5, EveAnswersStep, EveResetsStep, SendFailsStep DEF Step
<1> QED
  BY <1>1, <1>2, <1>3, <1>4, <1>5 DEF DispatchStep

\* Every step of the specification is a step of one of the kinds, and keeps the
\* types.
LEMMA Kinds ==
  ASSUME Shape, [Next]_vars
  PROVE  TypeOK' /\ Step
<1>1. CASE UNCHANGED vars
  <2>1. UNCHANGED <<sess, run, lock, disp, tail, stops, recon, eve, limbo, crashes>>
    BY <1>1 DEF vars
  <2>2. RunsKept /\ NoneParks
    BY <2>1, RunsSame
  <2>3. Settles
    BY <2>1, <2>2 DEF Settles
  <2> QED
    BY <2>1, <2>3, Tables, TypesNamed DEF Step
<1>2. ASSUME NEW d \in Disp, Begin(d) \/ DispatchStep(d) \/ Abort(d)
      PROVE  TypeOK' /\ Step
  <2>1. CASE Abort(d)
    BY <2>1, AbortStep DEF Step
  <2> QED
    BY <1>2, <2>1, BeginStep, DispatchStepStep
<1>3. CASE \E s \in Session : EveStarts(s)
  BY <1>3, EveStartsStep DEF Step
<1>4. CASE \E s \in Session, out \in Outcome : EveEnds(s, out)
  BY <1>4, EveEndsStep DEF Step
<1>5. ASSUME NEW r \in Run,
             \/ EveAcceptsLate(r) \/ TailStep(r) \/ TailCap(r) \/ TailLost(r)
             \/ ObserveExpires(r) \/ StopLive(r) \/ StopBegins(r) \/ StopSettles(r)
             \/ SettleMet(r) \/ SettleUnresolved(r) \/ SettleObserves(r)
      PROVE  TypeOK' /\ Step
  <2>1. CASE EveAcceptsLate(r)
    BY <2>1, EveAcceptsLateStep DEF Step
  <2>2. CASE TailStep(r)
    BY <2>2, TailAdoptStep, TailReadsStep, TailFinishStep, TailMarksSessionStep
       DEF Step, TailStep
  <2>3. CASE TailCap(r) \/ TailLost(r) \/ ObserveExpires(r) \/ StopLive(r)
    BY <2>3, TailCapStep, TailLostStep, ObserveExpiresStep, StopLiveStep DEF Step
  <2>4. CASE SettleMet(r) \/ SettleUnresolved(r) \/ SettleObserves(r)
    BY <2>4, SettleMetStep, SettleUnresolvedStep, SettleObservesStep DEF Step
  <2>5. CASE StopBegins(r) \/ StopSettles(r)
    BY <2>5, StopBeginsStep, StopSettlesStep DEF Step
  <2> QED
    BY <1>5, <2>1, <2>2, <2>3, <2>4, <2>5
<1>6. CASE \E S \in SUBSET {r \in Run : tail[r].st = "follow"} : Restart(S)
  <2>1. PICK S \in SUBSET Run : Restart(S)
    BY <1>6
  <2> QED
    BY <2>1, RestartStep DEF Step
<1>7. CASE Reconcile
  BY <1>7, ReconSelectsStep, ReconSelectsEvelessStep, ReconRowStep, ReconEvelessStep
     DEF Step, Reconcile
<1> QED
  BY <1>1, <1>2, <1>3, <1>4, <1>5, <1>6, <1>7 DEF Next

-----------------------------------------------------------------------------
(* The shape is kept.                                                      *)

\* Steps that give out no number and write no marker keep the shape of the
\* rows.
LEMMA RunShapeKept ==
  ASSUME Shape, RunsKept,
         \A x \in Session : sess[x].st # "none" => sess'[x].st # "none",
         \A r \in Run : run[r].st = "none" => tail'[r].st = "none",
         \A r \in Run : run[r].st = "none" => r \notin limbo'
  PROVE  RunShape'
<1>1. \A r \in Run : run'[r].st = "none" <=> run[r].st = "none"
  BY DEF RunsKept, LiveStatus, Terminal
<1> SUFFICES ASSUME NEW r \in Run
             PROVE  /\ run'[r].st # "none" =>
                         run'[r].sess \in Session /\ sess'[run'[r].sess].st # "none"
                    /\ run'[r].st = "none" => /\ ~run'[r].armed /\ ~run'[r].owed
                                              /\ tail'[r].st = "none" /\ r \notin limbo'
                    /\ run'[r].st # "none" => \A q \in Run : q < r => run'[q].st # "none"
  BY DEF RunShape
<1>2. /\ run[r].st # "none" => run[r].sess \in Session /\ sess[run[r].sess].st # "none"
      /\ run[r].st = "none" => ~run[r].armed /\ ~run[r].owed
      /\ run[r].st # "none" => \A q \in Run : q < r => run[q].st # "none"
  BY DEF Shape, RunShape
<1>3. /\ run'[r].sess = run[r].sess /\ (run'[r].armed <=> run[r].armed)
      /\ run'[r].owed => run[r].owed \/ run'[r].st \in Terminal
  BY DEF RunsKept
<1>4. run'[r].st = "none" => run'[r].st \notin Terminal
  BY DEF Terminal
<1> QED
  BY <1>1, <1>2, <1>3, <1>4

\* A tail, a late send: of a run that exists.
LEMMA RunRows ==
  ASSUME Shape
  PROVE  /\ \A r \in Run : run[r].st = "none" => tail[r].st = "none" /\ r \notin limbo
         /\ NoTail.st = "none"
         /\ \A d \in Disp : Owner(d) =>
              disp[d].run \in Run /\ run[disp[d].run].st # "none"
         /\ \A r \in Run : run[r].owed => run[r].st # "none"
BY Request DEF Shape, RunShape, NoTail, Owner, OwnPc

LEMMA AdmitsRunShape ==
  ASSUME Shape, NEW d \in Disp, NEW r \in Run, Admits(d, r), TypeOK'
  PROVE  RunShape'
<1> DEFINE s == disp[d].sess
<1>1. /\ disp[d].pc = "admit" /\ disp[d].kind \notin {"resume", "reset"}
      /\ run[r].st = "none" /\ \A q \in Run : run[q].st = "none" => r <= q
      /\ \A q \in Run \ {r} : run'[q] = run[q]
      /\ run'[r] = [NoRun EXCEPT !.st = "queued", !.sess = s]
      /\ UNCHANGED <<tail, limbo>>
  BY DEF Admits
<1>2. s \in Session /\ (disp[d].kind \in Fresh <=> sess[s].st = "none")
  BY <1>1 DEF Shape, RequestShape, RequestOf
<1>3. /\ run'[r].st = "queued" /\ run'[r].sess = s
  BY <1>1 DEF NoRun
<1>4. \A x \in Session : sess[x].st # "none" => sess'[x].st # "none"
  BY <1>2 DEF Admits
<1>5. sess'[s].st # "none"
  BY <1>2 DEF Admits
<1> SUFFICES ASSUME NEW q \in Run
             PROVE  /\ run'[q].st # "none" =>
                         run'[q].sess \in Session /\ sess'[run'[q].sess].st # "none"
                    /\ run'[q].st = "none" => /\ ~run'[q].armed /\ ~run'[q].owed
                                              /\ tail'[q].st = "none" /\ q \notin limbo'
                    /\ run'[q].st # "none" => \A p \in Run : p < q => run'[p].st # "none"
  BY DEF RunShape
<1>6. CASE q = r
  <2>1. \A p \in Run : p < r => run[p].st # "none"
    <3>1. \A p \in Run : p \in Nat
      BY Numbers
    <3> QED
      BY <1>1, <3>1
  <2>2. \A p \in Run : p < r => p # r
    BY Numbers
  <2> QED
    BY <1>1, <1>2, <1>3, <1>5, <1>6, <2>1, <2>2
<1>7. CASE q # r
  <2>1. run'[q] = run[q]
    BY <1>1, <1>7
  <2>2. /\ run[q].st # "none" => run[q].sess \in Session /\ sess[run[q].sess].st # "none"
        /\ run[q].st = "none" => ~run[q].armed /\ ~run[q].owed
                                 /\ tail[q].st = "none" /\ q \notin limbo
        /\ run[q].st # "none" => \A p \in Run : p < q => run[p].st # "none"
    BY DEF Shape, RunShape
  <2>3. \A p \in Run : run[p].st # "none" => run'[p].st # "none"
    BY <1>1
  <2> QED
    BY <1>1, <1>4, <2>1, <2>2, <2>3
<1> QED
  BY <1>6, <1>7

LEMMA ArmsRunShape ==
  ASSUME Shape, NEW d \in Disp, Arms(d)
  PROVE  RunShape'
<1> DEFINE r == disp[d].run
<1>1. /\ disp[d].pc = "arm" /\ run[r].st \in LiveStatus
      /\ \A q \in Run \ {r} : run'[q] = run[q]
      /\ run'[r].st = "queued" /\ run'[r].sess = run[r].sess
      /\ UNCHANGED <<sess, tail, limbo>>
  BY DEF Arms
<1>2. r \in Run /\ run[r].st # "none"
  BY <1>1, Request DEF Owner, OwnPc
<1>3. \A q \in Run : run'[q].st = "none" <=> run[q].st = "none"
  BY <1>1, <1>2
<1>4. \A q \in Run : run[q].st = "none" => q # r /\ run'[q] = run[q]
  BY <1>1, <1>2
<1>5. \A q \in Run : run'[q].sess = run[q].sess
  BY <1>1, <1>2
<1> QED
  BY <1>1, <1>3, <1>4, <1>5 DEF Shape, RunShape

LEMMA RunShapeStep ==
  ASSUME Shape, Step, TypeOK'
  PROVE  RunShape'
<1>1. \A r \in Run : run[r].st = "none" => tail[r].st = "none" /\ r \notin limbo
  BY RunRows
<1>2. CASE Settles
  BY <1>1, <1>2, RunShapeKept DEF Settles
<1>3. CASE Reboots
  <2>1. RunsKept /\ UNCHANGED sess /\ \A r \in Run : tail'[r].st = "none"
    BY <1>3, RunRows DEF Reboots
  <2>2. \A r \in limbo' : r \in limbo \/ run[r].st # "none"
    BY <1>3, RunRows DEF Reboots, Owner, OwnPc
  <2> QED
    BY <1>1, <2>1, <2>2, RunShapeKept
<1>4. ASSUME UNCHANGED <<sess, run, tail>>, limbo' \subseteq limbo
      PROVE  RunShape'
  <2>1. RunsKept
    BY <1>4, RunsSame
  <2> QED
    BY <1>1, <1>4, <2>1, RunShapeKept
<1>5. CASE ReconSelects \/ ReconSelectsEveless
  BY <1>4, <1>5 DEF ReconSelects, ReconSelectsEveless, database
<1>6. CASE \E s \in Session : Heals(s)
  <2>1. RunsKept
    BY <1>6, RunsSame DEF Heals
  <2> QED
    BY <1>1, <1>6, <2>1, RunShapeKept DEF Heals, Closing, Dead
<1>7. ASSUME NEW row \in recon.rows, Sweeps(row)
      PROVE  RunShape'
  <2>1. RunsKept
    BY <1>7, RunsSame DEF Sweeps
  <2>2. UNCHANGED <<sess, limbo>>
    BY <1>7 DEF Sweeps
  <2>3. CASE UNCHANGED tail
    BY <1>1, <2>1, <2>2, <2>3, RunShapeKept
  <2>4. CASE TailsStart(row.run)
    <3>1. run[row.run].st # "none"
      BY DEF Shape, RowsShape
    <3>2. \A r \in Run : run[r].st = "none" => tail'[r].st = "none"
      BY <1>1, <2>4, <3>1, RunRows DEF TailsStart
    <3> QED
      BY <1>1, <2>1, <2>2, <3>2, RunShapeKept
  <2> QED
    BY <1>7, <2>3, <2>4 DEF Sweeps
<1>8. CASE \E s \in Session : EveStarts(s)
  BY <1>4, <1>8 DEF EveStarts, others, database
<1>9. CASE \E s \in Session, out \in Outcome : EveEnds(s, out)
  BY <1>4, <1>9 DEF EveEnds, others, database
<1>10. CASE \E r \in Run : EveAcceptsLate(r)
  BY <1>4, <1>10 DEF EveAcceptsLate, others, database
<1>11. ASSUME NEW r \in Run, TailMove(r)
       PROVE  RunShape'
  <2>1. RunsKept /\ UNCHANGED limbo /\ \A q \in Run \ {r} : tail'[q] = tail[q]
    BY <1>11 DEF TailMove
  <2>2. \A q \in Run : run[q].st = "none" => tail'[q].st = "none"
    BY <1>1, <1>11, <2>1, RunRows DEF TailMove
  <2>3. \A x \in Session : sess[x].st # "none" => sess'[x].st # "none"
    BY <1>11 DEF TailMove, Shape, TailShape, Dead
  <2> QED
    BY <1>1, <2>1, <2>2, <2>3, RunShapeKept
<1>12. ASSUME NEW d \in Disp,
              \/ Enters(d) \/ Flips(d) \/ Accepted(d) \/ Persists(d) \/ Retires(d)
       PROVE  RunShape'
  <2>1. UNCHANGED <<tail, limbo>>
    BY <1>12 DEF Enters, Flips, Accepted, Persists, Retires
  <2>2. RunsKept
    BY <1>12, RunsSame DEF Enters, Flips, Accepted, Persists, Retires
  <2>3. \A x \in Session : sess[x].st # "none" => sess'[x].st # "none"
    <3>1. CASE Persists(d)
      <4>1. sess \in [Session -> SessRec] /\ sess' = casSessionLive(sess, disp[d].sess)
        BY <3>1, Tables DEF Persists
      <4>2. disp[d].sess \in Session
        BY <3>1, Request DEF Persists
      <4> QED
        BY <4>1, <4>2 DEF casSessionLive, SessRec
    <3> QED
      BY <1>12, <3>1 DEF Enters, Flips, Accepted, Retires
  <2> QED
    BY <1>1, <2>1, <2>2, <2>3, RunShapeKept
<1>13. ASSUME NEW d \in Disp, Quit(d) \/ Replaces(d) \/ \E p \in DispPc : Pass(d, p)
       PROVE  RunShape'
  <2>1. UNCHANGED tail /\ RunsKept
    BY <1>13 DEF Quit, Replaces, Pass
  <2>2. \A x \in Session : sess[x].st # "none" => sess'[x].st # "none"
    BY <1>13 DEF Quit, Replaces, Pass, Closing, Dead
  <2>3. \A r \in Run : run[r].st = "none" => r \notin limbo'
    BY <1>1, <1>13, RunRows DEF Quit, Replaces, Pass, Owner, OwnPc
  <2> QED
    BY <1>1, <2>1, <2>2, <2>3, RunShapeKept
<1>14. ASSUME NEW d \in Disp, NEW s, NEW p, Takes(d, s, p)
       PROVE  RunShape'
  <2>1. RunsKept /\ UNCHANGED <<tail, limbo>>
    BY <1>14, RunsSame DEF Takes
  <2>2. \A x \in Session : sess[x].st # "none" => sess'[x].st # "none"
    BY <1>14 DEF Takes, Closing, Dead
  <2> QED
    BY <1>1, <2>1, <2>2, RunShapeKept
<1>15. ASSUME NEW d \in Disp, Abandons(d) \/ Follows(d)
       PROVE  RunShape'
  <2>1. RunsKept /\ UNCHANGED limbo
    BY <1>15, RunsSame DEF Abandons, Follows
  <2>2. \A x \in Session : sess[x].st # "none" => sess'[x].st # "none"
    BY <1>15 DEF Abandons, Follows, Closing, Dead
  <2>3. run[disp[d].run].st # "none"
    BY <1>15, RunRows DEF Abandons, Follows, Owner, OwnPc
  <2>4. \A r \in Run : run[r].st = "none" => tail'[r].st = "none"
    BY <1>1, <1>15, <2>3, RunRows DEF Abandons, Follows, TailsStart
  <2> QED
    BY <1>1, <2>1, <2>2, <2>4, RunShapeKept
<1>16. ASSUME NEW d \in Disp,
              \/ \E s \in Session : TakesFresh(d, s) \/ TakesSession(d, s) \/ TakesQuiet(d, s)
              \/ \E r \in Run : TakesParked(d, r) \/ Admits(d, r)
       PROVE  RunShape'
  BY <1>14, <1>16, AdmitsRunShape DEF TakesFresh, TakesSession, TakesQuiet, TakesParked
<1> QED
  BY <1>2, <1>3, <1>5, <1>6, <1>7, <1>8, <1>9, <1>10, <1>11, <1>12, <1>13, <1>15, <1>16,
     ArmsRunShape DEF Step

\* A session row that is written keeps what a missing row says.
LEMMA SessShapeStep ==
  ASSUME Shape, Step, TypeOK'
  PROVE  SessShape'
<1>1. SessShape
  BY DEF Shape
<1>2. ASSUME \A x \in Session : sess'[x] = sess[x] \/ sess'[x].st # "none"
      PROVE  SessShape'
  BY <1>1, <1>2 DEF SessShape
<1>3. CASE UNCHANGED sess
  BY <1>2, <1>3
<1>4. CASE \E s \in Session : Heals(s)
  BY <1>2, <1>4 DEF Heals, Closing, Dead
<1>5. ASSUME NEW r \in Run, TailMove(r)
      PROVE  SessShape'
  <2>1. tail[r].st \in {"mark", "stopping"} => tail[r].out \in {"active", "waiting"} \cup Dead
    BY DEF Shape, TailShape
  <2> QED
    BY <1>2, <1>5, <2>1 DEF TailMove, Dead
<1>6. ASSUME NEW d \in Disp, Quit(d) \/ Abandons(d) \/ \E p \in DispPc : Pass(d, p)
      PROVE  SessShape'
  BY <1>2, <1>6 DEF Quit, Abandons, Pass, Closing, Dead
<1>7. ASSUME NEW d \in Disp, Replaces(d)
      PROVE  SessShape'
  <2>1. \A x \in Session : [sess[x] EXCEPT !.st = "active"].st = "active"
    BY Tables DEF SessRec
  <2> QED
    BY <1>2, <1>7, <2>1 DEF Replaces, Closing, Dead
<1>8. ASSUME NEW d \in Disp, Persists(d)
      PROVE  SessShape'
  <2>1. sess \in [Session -> SessRec] /\ sess' = casSessionLive(sess, disp[d].sess)
    BY <1>8, Tables DEF Persists
  <2>2. disp[d].sess \in Session
    BY <1>8, Request DEF Persists
  <2> QED
    BY <1>2, <2>1, <2>2 DEF casSessionLive, SessRec
<1>9. ASSUME NEW d \in Disp, NEW s, NEW p, Takes(d, s, p)
      PROVE  SessShape'
  BY <1>2, <1>9 DEF Takes, Closing, Dead
<1>10. ASSUME NEW d \in Disp, NEW r \in Run, Admits(d, r)
       PROVE  SessShape'
  <2>1. disp[d].sess \in Session /\ (disp[d].kind \in Fresh <=> sess[disp[d].sess].st = "none")
    BY <1>10 DEF Admits, Shape, RequestShape, RequestOf
  <2>2. sess'[disp[d].sess].st # "none"
    BY <1>10, <2>1 DEF Admits
  <2> QED
    BY <1>1, <1>10, <2>2 DEF SessShape, Admits
<1>11. ASSUME NEW d \in Disp,
              \/ \E s \in Session : TakesFresh(d, s) \/ TakesSession(d, s) \/ TakesQuiet(d, s)
              \/ \E r \in Run : TakesParked(d, r)
       PROVE  SessShape'
  BY <1>9, <1>11 DEF TakesFresh, TakesSession, TakesQuiet, TakesParked
<1>12. ASSUME NEW d \in Disp,
              \/ Enters(d) \/ Flips(d) \/ Arms(d) \/ Accepted(d) \/ Follows(d) \/ Retires(d)
       PROVE  SessShape'
  BY <1>3, <1>12 DEF Enters, Flips, Arms, Accepted, Follows, Retires
<1>13. CASE \/ Settles \/ Reboots \/ ReconSelects \/ ReconSelectsEveless
            \/ \E row \in recon.rows : Sweeps(row)
            \/ \E s \in Session : EveStarts(s)
            \/ \E s \in Session, out \in Outcome : EveEnds(s, out)
            \/ \E r \in Run : EveAcceptsLate(r)
  BY <1>3, <1>13 DEF Settles, Reboots, ReconSelects, ReconSelectsEveless, Sweeps,
     EveStarts, EveEnds, EveAcceptsLate, others, database
<1> QED
  BY <1>4, <1>5, <1>6, <1>7, <1>8, <1>10, <1>11, <1>12, <1>13 DEF Step

\* What a tail has to write is known.
LEMMA TailShapeStep ==
  ASSUME Shape, Step, TypeOK'
  PROVE  TailShape'
<1>1. TailShape
  BY DEF Shape
<1>2. ASSUME \A r \in Run : tail'[r] = tail[r] \/ tail'[r].st \notin {"mark", "stopping"}
      PROVE  TailShape'
  BY <1>1, <1>2 DEF TailShape
<1>3. CASE UNCHANGED tail
  BY <1>2, <1>3
<1>4. ASSUME NEW r \in Run, TailMove(r)
      PROVE  TailShape'
  <2>1. \A q \in Run \ {r} : tail'[q] = tail[q]
    BY <1>4 DEF TailMove
  <2>2. TailTurn(r)
    BY <1>4 DEF TailMove
  <2>3. \A o : SessionStatusAt(o) \in {"active", "waiting"} \cup Dead
    BY DEF SessionStatusAt, Dead
  <2>4. /\ tail'[r].st = "mark" => tail'[r].out \in {"active", "waiting"} \cup Dead
        /\ tail'[r].st = "stopping" => tail'[r].out = "active"
    BY <1>1, <2>2, <2>3 DEF TailTurn, TailShape
  <2> QED
    BY <1>1, <2>1, <2>4 DEF TailShape
<1>5. ASSUME NEW x, TailsStart(x)
      PROVE  TailShape'
  BY <1>2, <1>5 DEF TailsStart, NoTail
<1>6. CASE Reboots
  BY <1>2, <1>6 DEF Reboots, NoTail
<1>7. ASSUME NEW row \in recon.rows, Sweeps(row)
      PROVE  TailShape'
  BY <1>3, <1>5, <1>7 DEF Sweeps
<1>8. ASSUME NEW d \in Disp, Abandons(d)
      PROVE  TailShape'
  BY <1>2, <1>8 DEF Abandons
<1>9. ASSUME NEW d \in Disp, Follows(d)
      PROVE  TailShape'
  BY <1>5, <1>9 DEF Follows
<1>10. ASSUME NEW d \in Disp,
              \/ Quit(d) \/ Enters(d) \/ Flips(d) \/ Arms(d) \/ Accepted(d)
              \/ Persists(d) \/ Replaces(d) \/ Retires(d)
              \/ \E p \in DispPc : Pass(d, p)
              \/ \E s \in Session : TakesFresh(d, s) \/ TakesSession(d, s) \/ TakesQuiet(d, s)
              \/ \E r \in Run : TakesParked(d, r) \/ Admits(d, r)
       PROVE  TailShape'
  BY <1>3, <1>10 DEF Quit, Enters, Flips, Arms, Accepted, Persists, Replaces, Retires,
     Pass, TakesFresh, TakesSession, TakesQuiet, TakesParked, Takes, Admits
<1>11. CASE \/ Settles \/ ReconSelects \/ ReconSelectsEveless
            \/ \E s \in Session : EveStarts(s) \/ Heals(s)
            \/ \E s \in Session, out \in Outcome : EveEnds(s, out)
            \/ \E r \in Run : EveAcceptsLate(r)
  BY <1>3, <1>11 DEF Settles, Heals, ReconSelects, ReconSelectsEveless,
     EveStarts, EveEnds, EveAcceptsLate, others
<1> QED
  BY <1>4, <1>6, <1>7, <1>8, <1>9, <1>10, <1>11 DEF Step

-----------------------------------------------------------------------------
(* The requests.                                                           *)

\* The rows a request at work depends on are left to it: its lock, whether its
\* session row exists, and which session its run is of.
LEMMA RequestKept ==
  ASSUME Shape, NEW e \in Disp, disp'[e] = disp[e],
         \A x \in Session : lock[x] = e =>
           lock'[x] = e /\ (sess'[x].st = "none" <=> sess[x].st = "none"),
         \A r \in Run : run[r].st # "none" =>
           run'[r].st # "none" /\ run'[r].sess = run[r].sess
  PROVE  RequestOf(e)'
<1>1. RequestOf(e)
  BY DEF Shape, RequestShape
<1> QED
  BY <1>1 DEF RequestOf, Owner

LEMMA IdleRequest ==
  ASSUME NEW e \in Disp, disp'[e].pc = "idle"
  PROVE  RequestOf(e)'
BY DEF RequestOf

\* Rows that RunsKept speaks of exist as before.
LEMMA RunsStay ==
  ASSUME RunsKept
  PROVE  \A r \in Run : run[r].st # "none" =>
           run'[r].st # "none" /\ run'[r].sess = run[r].sess
BY DEF RunsKept, LiveStatus, Terminal

\* The lock of another request is not this one's session's.
LEMMA OtherLock ==
  ASSUME Shape, NEW d \in Disp, disp[d].pc # "idle"
  PROVE  /\ \A e \in Disp \ {d}, x \in Session : lock[x] = e => x # disp[d].sess
         /\ \A e \in Disp, x \in Session : lock[x] = e => lock[x] # None
BY Request, Numbers

\* A request ends: the others go on.
LEMMA RequestsEnd ==
  ASSUME Shape, NEW d \in Disp, disp[d].pc # "idle",
         Others(d), disp'[d] = Idle, lock' = [lock EXCEPT ![disp[d].sess] = None],
         RunsKept,
         \A x \in Session : \/ sess'[x] = sess[x]
                            \/ x = disp[d].sess /\ Closing(x)
                            \/ lock[x] = None
  PROVE  RequestShape'
<1>1. lock \in [Session -> Disp \cup {None}]
  BY Tables
<1>2. ASSUME NEW e \in Disp \ {d}
      PROVE  RequestOf(e)'
  <2>1. \A x \in Session : lock[x] = e =>
           lock'[x] = e /\ (sess'[x].st = "none" <=> sess[x].st = "none")
    BY <1>1, OtherLock
  <2>2. disp'[e] = disp[e]
    BY DEF Others
  <2> QED
    BY <2>1, <2>2, RunsStay, RequestKept
<1>3. RequestOf(d)'
  BY IdleRequest DEF Idle
<1> QED
  BY <1>2, <1>3 DEF RequestShape

\* A request moves: the others go on.
LEMMA RequestsMove ==
  ASSUME Shape, NEW d \in Disp, disp[d].pc # "idle",
         Others(d), UNCHANGED lock,
         \A r \in Run : run[r].st # "none" =>
           run'[r].st # "none" /\ run'[r].sess = run[r].sess,
         \A x \in Session \ {disp[d].sess} : sess'[x].st = sess[x].st,
         RequestOf(d)'
  PROVE  RequestShape'
<1>1. ASSUME NEW e \in Disp \ {d}
      PROVE  RequestOf(e)'
  <2>1. \A x \in Session : lock[x] = e =>
           lock'[x] = e /\ (sess'[x].st = "none" <=> sess[x].st = "none")
    BY OtherLock
  <2>2. disp'[e] = disp[e]
    BY DEF Others
  <2> QED
    BY <2>1, <2>2, RequestKept
<1> QED
  BY <1>1 DEF RequestShape

\* No request moves.
LEMMA RequestsStay ==
  ASSUME Shape, UNCHANGED <<disp, lock>>,
         \A r \in Run : run[r].st # "none" =>
           run'[r].st # "none" /\ run'[r].sess = run[r].sess,
         \A x \in Session : sess'[x].st = "none" <=> sess[x].st = "none"
  PROVE  RequestShape'
BY RequestKept DEF RequestShape

\* A request takes a lock.
LEMMA RequestsTake ==
  ASSUME Shape, NEW d \in Disp, NEW s \in Session, NEW p, Takes(d, s, p),
         RequestOf(d)'
  PROVE  RequestShape'
<1>1. lock \in [Session -> Disp \cup {None}]
  BY Tables
<1>2. ASSUME NEW e \in Disp \ {d}
      PROVE  RequestOf(e)'
  <2>1. disp'[e] = disp[e] /\ UNCHANGED run /\ lock[s] = None /\ lock' = [lock EXCEPT ![s] = d]
    BY DEF Takes, Others
  <2>2. \A x \in Session : lock[x] = e => x # s /\ lock[x] # None
    BY <2>1, Numbers
  <2>3. \A x \in Session : lock[x] = e =>
           lock'[x] = e /\ (sess'[x].st = "none" <=> sess[x].st = "none")
    BY <1>1, <2>1, <2>2 DEF Takes
  <2> QED
    BY <2>1, <2>3, RequestKept
<1> QED
  BY <1>2 DEF RequestShape

LEMMA RequestShapeStep ==
  ASSUME Shape, Step, TypeOK'
  PROVE  RequestShape'
<1>1. /\ sess \in [Session -> SessRec] /\ lock \in [Session -> Disp \cup {None}]
      /\ disp \in [Disp -> DispRec]
  BY Tables
<1>2. ASSUME UNCHANGED <<sess, run, lock, disp>>
      PROVE  RequestShape'
  BY <1>2, RequestsStay
<1>3. CASE Settles
  BY <1>3, RequestsStay, RunsStay DEF Settles
<1>4. CASE Reboots
  BY <1>4, IdleRequest DEF Reboots, RequestShape, Idle
<1>5. ASSUME NEW s \in Session, Heals(s)
      PROVE  RequestShape'
  <2>1. \A x \in Session : sess'[x].st = "none" <=> sess[x].st = "none"
    BY <1>5 DEF Heals, Closing, Dead
  <2> QED
    BY <1>5, <2>1, RequestsStay DEF Heals
<1>6. ASSUME NEW row \in recon.rows, Sweeps(row)
      PROVE  RequestShape'
  <2>1. RunsKept
    BY <1>6, RunsSame DEF Sweeps
  <2> QED
    BY <1>6, <2>1, RunsStay, RequestsStay DEF Sweeps
<1>7. ASSUME NEW r \in Run, TailMove(r)
      PROVE  RequestShape'
  <2>1. tail[r].st \in {"mark", "stopping"} => tail[r].out \in {"active", "waiting"} \cup Dead
    BY DEF Shape, TailShape
  <2>2. tail[r].st \in {"mark", "stopping"} => sess[run[r].sess].st # "none"
    BY DEF Shape, RunShape
  <2>3. \A x \in Session : sess'[x].st = "none" <=> sess[x].st = "none"
    BY <1>7, <2>1, <2>2 DEF TailMove, Dead
  <2> QED
    BY <1>7, <2>3, RunsStay, RequestsStay DEF TailMove
<1>8. CASE \/ ReconSelects \/ ReconSelectsEveless
           \/ \E s \in Session : EveStarts(s)
           \/ \E s \in Session, out \in Outcome : EveEnds(s, out)
           \/ \E r \in Run : EveAcceptsLate(r)
  BY <1>2, <1>8 DEF ReconSelects, ReconSelectsEveless, EveStarts, EveEnds,
     EveAcceptsLate, others, database
<1>9. ASSUME NEW d \in Disp, Quit(d) \/ Abandons(d) \/ Replaces(d) \/ Follows(d)
      PROVE  RequestShape'
  <2>1. disp[d].pc # "idle"
    BY <1>9 DEF Quit, Abandons, Replaces, Follows
  <2>2. RunsKept
    BY <1>9, RunsSame DEF Quit, Abandons, Replaces, Follows
  <2>3. Others(d) /\ disp'[d] = Idle /\ lock' = [lock EXCEPT ![disp[d].sess] = None]
    BY <1>9 DEF Quit, Abandons, Replaces, Follows
  <2>4. \A x \in Session : \/ sess'[x] = sess[x]
                           \/ x = disp[d].sess /\ Closing(x)
                           \/ lock[x] = None
    BY <1>9 DEF Quit, Abandons, Replaces, Follows
  <2> QED
    BY <2>1, <2>2, <2>3, <2>4, RequestsEnd
<1>10. ASSUME NEW d \in Disp, disp[d].pc \notin {"idle", "reread", "admit"},
              NEW p \in DispPc \ {"idle", "reread", "admit"}, Moved(d, p),
              p \in OwnPc => Owner(d) /\ disp'[d].run = disp[d].run,
              disp[d].pc \in {"quiet", "resetting"} <=> p \in {"quiet", "resetting"},
              UNCHANGED lock,
              \A r \in Run : run[r].st # "none" =>
                run'[r].st # "none" /\ run'[r].sess = run[r].sess,
              \A x \in Session \ {disp[d].sess} : sess'[x].st = sess[x].st,
              sess'[disp[d].sess].st # "none"
       PROVE  RequestShape'
  <2>1. RequestOf(d)
    BY DEF Shape, RequestShape
  <2>2. RequestOf(d)'
    BY <1>10, <2>1 DEF RequestOf, Moved, Owner
  <2> QED
    BY <1>10, <2>2, RequestsMove DEF Moved
<1>11. ASSUME NEW d \in Disp, NEW p \in DispPc, Pass(d, p)
       PROVE  RequestShape'
  <2>1. /\ disp[d].pc \notin {"idle", "reread", "admit", "quiet", "resetting"}
        /\ p \notin {"idle", "reread", "admit", "quiet", "resetting"}
        /\ Owner(d)
    BY <1>11 DEF Pass, Moves, Owner, OwnPc
  <2>2. disp[d].sess \in Session /\ sess[disp[d].sess].st # "none"
    BY <2>1, Request
  <2>3. sess'[disp[d].sess].st # "none" /\ \A x \in Session \ {disp[d].sess} : sess'[x].st = sess[x].st
    BY <1>11, <2>2 DEF Pass, Closing, Dead
  <2> QED
    BY <1>10, <1>11, <2>1, <2>3, RunsStay DEF Pass
<1>12. ASSUME NEW d \in Disp, Arms(d) \/ Accepted(d) \/ Persists(d) \/ Retires(d)
       PROVE  RequestShape'
  <2>1. PICK p \in DispPc : /\ Moved(d, p)
                            /\ p \in {"send", "inflight", "recheck", "resetting"}
                            /\ p = "resetting" <=> Retires(d)
    BY <1>12 DEF Arms, Accepted, Persists, Retires, DispPc, Moved
  <2>2. /\ disp[d].pc \in {"arm", "send", "persist", "quiet"}
        /\ disp[d].pc = "quiet" <=> Retires(d)
        /\ UNCHANGED lock
    BY <1>12 DEF Arms, Accepted, Persists, Retires
  <2>3. disp[d].sess \in Session /\ sess[disp[d].sess].st # "none"
    BY <2>2, Request
  <2>4. p \in OwnPc => Owner(d) /\ disp'[d].run = disp[d].run
    BY <1>12, <2>1, <2>2 DEF OwnPc, Owner, Arms, Accepted, Persists, Retires
  <2>5. \A r \in Run : run[r].st # "none" =>
           run'[r].st # "none" /\ run'[r].sess = run[r].sess
    BY <1>12 DEF Arms, Accepted, Persists, Retires
  <2>6. sess'[disp[d].sess].st # "none" /\ \A x \in Session \ {disp[d].sess} : sess'[x].st = sess[x].st
    <3>1. CASE Persists(d)
      BY <1>1, <2>3, <3>1 DEF Persists, casSessionLive, SessRec
    <3>2. CASE UNCHANGED sess
      BY <2>3, <3>2
    <3> QED
      BY <1>12, <3>1, <3>2 DEF Arms, Accepted, Retires
  <2> QED
    BY <1>10, <2>1, <2>2, <2>4, <2>5, <2>6
<1>13. ASSUME NEW d \in Disp, Enters(d)
       PROVE  RequestShape'
  <2>1. RequestOf(d)
    BY DEF Shape, RequestShape
  <2>2. RequestOf(d)'
    BY <1>13, <2>1 DEF RequestOf, Enters, Moved, Owner, OwnPc, Fresh
  <2> QED
    BY <1>13, <2>2, RequestsMove DEF Enters, Moved
<1>14. ASSUME NEW d \in Disp, Flips(d)
       PROVE  RequestShape'
  <2>1. RequestOf(d)
    BY DEF Shape, RequestShape
  <2>2. /\ run'[disp[d].run].st # "none"
        /\ run'[disp[d].run].sess = run[disp[d].run].sess
    BY <1>14, <2>1, RunsStay DEF RequestOf, Flips
  <2>3. RequestOf(d)'
    BY <1>14, <2>1, <2>2 DEF RequestOf, Flips, Moved, Owner, OwnPc, Fresh
  <2> QED
    BY <1>14, <2>3, RequestsMove, RunsStay DEF Flips, Moved
<1>15. ASSUME NEW d \in Disp, NEW r \in Run, Admits(d, r)
       PROVE  RequestShape'
  <2>1. RequestOf(d)
    BY DEF Shape, RequestShape
  <2>2. /\ disp[d].pc = "admit" /\ disp[d].kind \notin {"resume", "reset"}
        /\ Moved(d, "ensure") /\ disp'[d].run = r
        /\ run[r].st = "none" /\ UNCHANGED lock
        /\ \A q \in Run \ {r} : run'[q] = run[q]
        /\ \A x \in Session \ {disp[d].sess} : sess'[x].st = sess[x].st
    BY <1>15 DEF Admits
  <2>3. sess'[disp[d].sess].st # "none"
    BY <1>15, <2>1, <2>2 DEF Admits, RequestOf
  <2>4. run'[r].st # "none" /\ run'[r].sess = disp[d].sess
    BY <1>15 DEF Admits, NoRun
  <2>5. RequestOf(d)'
    BY <2>1, <2>2, <2>3, <2>4 DEF RequestOf, Moved, Owner, OwnPc
  <2> QED
    BY <2>2, <2>5, RequestsMove DEF Moved
<1>16. ASSUME NEW d \in Disp, NEW s \in Session,
              TakesFresh(d, s) \/ TakesSession(d, s) \/ TakesQuiet(d, s)
       PROVE  RequestShape'
  <2>1. PICK p : Takes(d, s, p)
    BY <1>16 DEF TakesFresh, TakesSession, TakesQuiet
  <2>2. lock'[s] = d /\ disp'[d].sess = s /\ sess'[s] = sess[s]
    BY <1>1, <2>1 DEF Takes
  <2>3. TakesQuiet(d, s) => sess[s].st # "none"
    BY DEF TakesQuiet, Shape, SessShape
  <2>4. RequestOf(d)'
    BY <1>16, <2>2, <2>3 DEF RequestOf, TakesFresh, TakesSession, TakesQuiet, Takes,
       Owner, OwnPc, Fresh
  <2> QED
    BY <2>1, <2>4, RequestsTake
<1>17. ASSUME NEW d \in Disp, NEW r \in Run, TakesParked(d, r)
       PROVE  RequestShape'
  <2> DEFINE s == run[r].sess
  <2>1. s \in Session /\ sess[s].st # "none"
    BY <1>17 DEF TakesParked, Shape, RunShape
  <2>2. Takes(d, s, "admit")
    BY <1>17 DEF TakesParked
  <2>3. lock'[s] = d /\ disp'[d].sess = s /\ sess'[s] = sess[s]
    BY <1>1, <2>1, <2>2 DEF Takes
  <2>4. RequestOf(d)'
    BY <1>17, <2>1, <2>3 DEF RequestOf, TakesParked, Takes, Owner, OwnPc, Fresh
  <2> QED
    BY <2>1, <2>2, <2>4, RequestsTake
<1> QED
  BY <1>3, <1>4, <1>5, <1>6, <1>7, <1>8, <1>9, <1>11, <1>12, <1>13, <1>14, <1>15, <1>16,
     <1>17 DEF Step
\* The rows the first sweep has still to treat are of runs that exist.
LEMMA RowsShapeStep ==
  ASSUME Shape, Step, TypeOK'
  PROVE  RowsShape'
<1>1. RowsShape
  BY DEF Shape
<1>2. ASSUME recon'.rows \subseteq recon.rows,
             \A r \in Run : run[r].st # "none" => run'[r].st # "none"
      PROVE  RowsShape'
  <2>1. recon \in ReconRec
    BY Tables
  <2> QED
    BY <1>1, <1>2, <2>1 DEF RowsShape, ReconRec, RowRec
<1>3. ASSUME UNCHANGED <<run, recon>>
      PROVE  RowsShape'
  BY <1>2, <1>3
<1>4. ASSUME UNCHANGED recon, RunsKept
      PROVE  RowsShape'
  BY <1>2, <1>4, RunsStay
<1>5. CASE Reboots
  BY <1>5 DEF Reboots, RowsShape
<1>6. CASE ReconSelects
  <2>1. \A row \in recon'.rows : run[row.run].st \in {"queued", "running"}
    <3>1. recon' = [recon EXCEPT !.pc = "runs", !.rows =
           {[run |-> r, armed |-> run[r].armed, id |-> sess[run[r].sess].id] :
              r \in {q \in Run : run[q].st \in {"queued", "running"}}}]
      BY <1>6 DEF ReconSelects
    <3>2. recon \in ReconRec
      BY Tables
    <3>3. recon'.rows =
           {[run |-> r, armed |-> run[r].armed, id |-> sess[run[r].sess].id] :
              r \in {q \in Run : run[q].st \in {"queued", "running"}}}
      BY <3>1, <3>2 DEF ReconRec
    <3> QED
      BY <3>3
  <2>2. UNCHANGED run
    BY <1>6 DEF ReconSelects, database
  <2> QED
    BY <2>1, <2>2 DEF RowsShape
<1>7. CASE ReconSelectsEveless
  <2>1. recon \in ReconRec /\ recon.rows = {}
    BY <1>7, Tables DEF ReconSelectsEveless
  <2>2. recon'.rows = recon.rows
    BY <1>7, <2>1 DEF ReconSelectsEveless, ReconRec
  <2>3. UNCHANGED run
    BY <1>7 DEF ReconSelectsEveless, database
  <2> QED
    BY <1>2, <2>2, <2>3
<1>8. ASSUME NEW row \in recon.rows, Sweeps(row)
      PROVE  RowsShape'
  <2>1. RunsKept
    BY <1>8, RunsSame DEF Sweeps
  <2>2. recon'.rows \subseteq recon.rows
    BY <1>8 DEF Sweeps
  <2> QED
    BY <1>2, <2>1, <2>2, RunsStay
<1>9. CASE \E s \in Session : Heals(s)
  BY <1>2, <1>9 DEF Heals
<1>10. CASE \/ Settles \/ \E r \in Run : TailMove(r)
            \/ \E d \in Disp : Quit(d) \/ Flips(d) \/ Abandons(d) \/ Replaces(d)
            \/ \E d \in Disp, p \in DispPc : Pass(d, p)
  BY <1>4, <1>10 DEF Settles, TailMove, Quit, Flips, Abandons, Replaces, Pass
<1>11. CASE \/ \E s \in Session : EveStarts(s)
            \/ \E s \in Session, out \in Outcome : EveEnds(s, out)
            \/ \E r \in Run : EveAcceptsLate(r)
            \/ \E d \in Disp : \/ Enters(d) \/ Accepted(d) \/ Persists(d) \/ Follows(d)
                               \/ Retires(d)
                               \/ \E s \in Session : \/ TakesFresh(d, s)
                                                     \/ TakesSession(d, s)
                                                     \/ TakesQuiet(d, s)
                               \/ \E r \in Run : TakesParked(d, r)
  <2>1. UNCHANGED <<run, recon>>
    BY <1>11 DEF EveStarts, EveEnds, EveAcceptsLate, others, database, Enters,
       Accepted, Persists, Follows, Retires, TakesFresh, TakesSession, TakesQuiet,
       TakesParked, Takes
  <2> QED
    BY <1>3, <2>1
<1>12. ASSUME NEW d \in Disp, NEW r \in Run, Admits(d, r)
       PROVE  RowsShape'
  <2>1. UNCHANGED recon /\ run[r].st = "none" /\ \A q \in Run \ {r} : run'[q] = run[q]
    BY <1>12 DEF Admits
  <2> QED
    BY <1>2, <2>1
<1>13. ASSUME NEW d \in Disp, Arms(d)
       PROVE  RowsShape'
  <2>1. \A q \in Run : run[q].st # "none" => run'[q].st # "none"
    BY <1>13 DEF Arms
  <2>2. UNCHANGED recon
    BY <1>13 DEF Arms
  <2> QED
    BY <1>2, <2>1, <2>2
<1> QED
  BY <1>5, <1>6, <1>7, <1>8, <1>9, <1>10, <1>11, <1>12, <1>13 DEF Step

\* The shape holds at the start,
LEMMA ShapeInit ==
  Init => Shape
<1> SUFFICES ASSUME Init
             PROVE  Shape
  OBVIOUS
<1>1. TypeOK
  <2>1. NoEve \in EveRec
    BY DEF NoEve, EveRec, Event
  <2>2. /\ NoSession \in SessRec /\ NoRun \in RunRec /\ Idle \in DispRec
        /\ NoTail \in TailRec
    BY DEF NoSession, SessRec, NoRun, RunRec, Idle, DispRec, DispPc, NoTail, TailRec, TailPc
  <2>3. 0 \in 0 .. MaxCrashes
    BY DispatchAssumption
  <2>4. recon \in ReconRec
    BY DEF Init, ReconRec
  <2> HIDE DEF NoEve, NoSession, NoRun, NoTail, Idle
  <2> QED
    BY <2>1, <2>2, <2>3, <2>4, TypesNamed DEF Init
<1>2. RunShape /\ SessShape /\ TailShape
  BY DEF Init, RunShape, SessShape, TailShape, NoRun, NoSession, NoTail
<1>3. RequestShape /\ RowsShape
  BY DEF Init, RequestShape, RequestOf, RowsShape, Idle
<1> QED
  BY <1>1, <1>2, <1>3 DEF Shape

\* and every step keeps it.
LEMMA ShapeStep ==
  ASSUME Shape, [Next]_vars
  PROVE  Step /\ Shape'
<1>1. TypeOK' /\ Step
  BY Kinds
<1> QED
  BY <1>1, RunShapeStep, SessShapeStep, TailShapeStep, RequestShapeStep, RowsShapeStep
     DEF Shape

-----------------------------------------------------------------------------
(* One live run per session.                                               *)

\* Two live runs of a session are one, and while a request owns a run no other
\* run of its session is live.
Sole ==
    \A r, q \in Run : run[r].st \in LiveStatus /\ run[q].st \in LiveStatus
                        /\ run[r].sess = run[q].sess => r = q
SoleOwned ==
    \A d \in Disp : Owner(d) =>
        \A q \in Run : run[q].sess = disp[d].sess /\ run[q].st \in LiveStatus
                         => q = disp[d].run
SoleLive == Sole /\ SoleOwned

\* No run becomes live, and a request that owns a run owned it before.
LEMMA SoleKept ==
  ASSUME SoleLive,
         \A q \in Run : run'[q].st \in LiveStatus =>
           run[q].st \in LiveStatus /\ run'[q].sess = run[q].sess,
         \A d \in Disp : Owner(d)' =>
           Owner(d) /\ disp'[d].sess = disp[d].sess /\ disp'[d].run = disp[d].run
  PROVE  SoleLive'
<1>1. Sole'
  BY DEF SoleLive, Sole
<1>2. SoleOwned'
  BY DEF SoleLive, SoleOwned
<1> QED
  BY <1>1, <1>2 DEF SoleLive

LEMMA LiveKept ==
  ASSUME RunsKept
  PROVE  \A q \in Run : run'[q].st \in LiveStatus =>
           run[q].st \in LiveStatus /\ run'[q].sess = run[q].sess
BY DEF RunsKept
\* Only an admission and an answer make a run live, and both look at every
\* other run of the session first.
LEMMA SoleLiveStep ==
  ASSUME Shape, SoleLive, Step, TypeOK'
  PROVE  SoleLive'
<1>1. Sole /\ SoleOwned
  BY DEF SoleLive
<1>2. CASE Settles \/ \E s \in Session : Heals(s)
  BY <1>2, SoleKept, LiveKept DEF Settles, Heals, Owner
<1>3. CASE Reboots
  <2>1. \A d \in Disp : ~Owner(d)'
    BY <1>3 DEF Reboots, Owner, OwnPc, Idle
  <2>2. RunsKept
    BY <1>3 DEF Reboots
  <2> QED
    BY <2>1, <2>2, SoleKept, LiveKept
<1>4. CASE \/ ReconSelects \/ ReconSelectsEveless
           \/ \E s \in Session : EveStarts(s)
           \/ \E s \in Session, out \in Outcome : EveEnds(s, out)
           \/ \E r \in Run : EveAcceptsLate(r)
  <2>1. UNCHANGED <<run, disp>>
    BY <1>4 DEF ReconSelects, ReconSelectsEveless, EveStarts, EveEnds, EveAcceptsLate,
       others, database
  <2> QED
    BY <2>1, SoleKept DEF Owner
<1>5. ASSUME NEW row \in recon.rows, Sweeps(row)
      PROVE  SoleLive'
  <2>1. RunsKept /\ UNCHANGED disp
    BY <1>5, RunsSame DEF Sweeps
  <2> QED
    BY <2>1, SoleKept, LiveKept DEF Owner
<1>6. CASE \E r \in Run : TailMove(r)
  BY <1>6, SoleKept, LiveKept DEF TailMove, Owner
<1>7. ASSUME NEW d \in Disp, Quit(d) \/ Abandons(d) \/ Follows(d) \/ Replaces(d)
      PROVE  SoleLive'
  <2>1. RunsKept
    BY <1>7, RunsSame DEF Quit, Abandons, Follows, Replaces
  <2>2. Others(d) /\ disp'[d] = Idle
    BY <1>7 DEF Quit, Abandons, Follows, Replaces
  <2>3. \A e \in Disp : Owner(e)' => e # d /\ disp'[e] = disp[e]
    BY <2>2 DEF Others, Owner, OwnPc, Idle
  <2>4. \A e \in Disp : Owner(e)' =>
           Owner(e) /\ disp'[e].sess = disp[e].sess /\ disp'[e].run = disp[e].run
    BY <2>3 DEF Owner
  <2> QED
    BY <2>1, <2>4, SoleKept, LiveKept
<1>8. ASSUME NEW d \in Disp, NEW p, Moved(d, p), p \in OwnPc => Owner(d),
             p \in OwnPc => disp'[d].run = disp[d].run
      PROVE  \A e \in Disp : Owner(e)' =>
               Owner(e) /\ disp'[e].sess = disp[e].sess /\ disp'[e].run = disp[e].run
  BY <1>8 DEF Moved, Others, Owner
<1>9. ASSUME NEW d \in Disp, NEW p \in DispPc, Pass(d, p)
      PROVE  SoleLive'
  <2>1. RunsKept /\ Moved(d, p) /\ Owner(d) /\ disp'[d].run = disp[d].run
    BY <1>9 DEF Pass, Moves, Owner, OwnPc
  <2> QED
    BY <1>8, <2>1, SoleKept, LiveKept
<1>10. ASSUME NEW d \in Disp, Enters(d) \/ Accepted(d) \/ Persists(d) \/ Retires(d)
       PROVE  SoleLive'
  <2>1. UNCHANGED run
    BY <1>10 DEF Enters, Accepted, Persists, Retires
  <2>2. PICK p : Moved(d, p) /\ (p \in OwnPc => Owner(d) /\ disp'[d].run = disp[d].run)
    BY <1>10 DEF Enters, Accepted, Persists, Retires, OwnPc, Owner
  <2> QED
    BY <1>8, <2>1, <2>2, SoleKept
<1>11. ASSUME NEW d \in Disp, Arms(d)
       PROVE  SoleLive'
  <2>1. Moved(d, "send") /\ Owner(d) /\ disp'[d].run = disp[d].run
    BY <1>11 DEF Arms, Owner, OwnPc
  <2>2. \A q \in Run : run'[q].st \in LiveStatus =>
           run[q].st \in LiveStatus /\ run'[q].sess = run[q].sess
    BY <1>11 DEF Arms
  <2> QED
    BY <1>8, <2>1, <2>2, SoleKept
<1>12. ASSUME NEW d \in Disp, NEW s \in Session, NEW p \in DispPc \ OwnPc, Takes(d, s, p)
       PROVE  SoleLive'
  <2>1. \A e \in Disp : Owner(e)' => e # d /\ disp'[e] = disp[e]
    BY <1>12 DEF Takes, Others, Owner
  <2>2. \A e \in Disp : Owner(e)' =>
           Owner(e) /\ disp'[e].sess = disp[e].sess /\ disp'[e].run = disp[e].run
    BY <2>1 DEF Owner
  <2>3. UNCHANGED run
    BY <1>12 DEF Takes
  <2> QED
    BY <2>2, <2>3, SoleKept
<1>13. ASSUME NEW d \in Disp,
              \/ \E s \in Session : TakesFresh(d, s) \/ TakesSession(d, s) \/ TakesQuiet(d, s)
              \/ \E r \in Run : TakesParked(d, r)
       PROVE  SoleLive'
  <2>1. CASE \E r \in Run : TakesParked(d, r)
    <3>1. PICK r \in Run : TakesParked(d, r)
      BY <2>1
    <3>2. run[r].sess \in Session
      BY <3>1 DEF TakesParked, Shape, RunShape
    <3> QED
      BY <1>12, <3>1, <3>2 DEF TakesParked, DispPc, OwnPc
  <2>2. CASE \E s \in Session : TakesFresh(d, s) \/ TakesSession(d, s) \/ TakesQuiet(d, s)
    BY <1>12, <2>2 DEF TakesFresh, TakesSession, TakesQuiet, DispPc, OwnPc
  <2> QED
    BY <1>13, <2>1, <2>2
<1>14. ASSUME NEW d \in Disp, NEW r \in Run,
              disp[d].pc = "admit", Moved(d, "ensure"), disp'[d].run = r,
              run'[r].sess = disp[d].sess,
              \A q \in Run \ {r} : run'[q].sess = run[q].sess
                /\ (run'[q].st \in LiveStatus => run[q].st \in LiveStatus),
              \A q \in Run \ {r} : run[q].sess = disp[d].sess => run[q].st \notin LiveStatus
       PROVE  SoleLive'
  <2>1. Sole'
    BY <1>1, <1>14 DEF Sole
  <2>2. ASSUME NEW e \in Disp, Owner(e)'
        PROVE  \A q \in Run : run'[q].sess = disp'[e].sess /\ run'[q].st \in LiveStatus
                                => q = disp'[e].run
    <3>1. CASE e = d
      BY <1>14, <3>1 DEF Moved
    <3>2. CASE e # d
      <4>1. disp'[e] = disp[e] /\ Owner(e)
        BY <1>14, <2>2, <3>2 DEF Moved, Others, Owner
      <4>2. disp[e].sess # disp[d].sess
        BY <1>14, <3>2, <4>1, Request DEF Owner, OwnPc
      <4> QED
        BY <1>1, <1>14, <4>1, <4>2 DEF SoleOwned
    <3> QED
      BY <3>1, <3>2
  <2> QED
    BY <2>1, <2>2 DEF SoleLive, SoleOwned
<1>15. ASSUME NEW d \in Disp, NEW r \in Run, Admits(d, r)
       PROVE  SoleLive'
  <2>1. /\ disp[d].pc = "admit" /\ Moved(d, "ensure") /\ disp'[d].run = r
        /\ \A q \in Run \ {r} : run'[q] = run[q]
        /\ \A q \in Run : run[q].st # "none" /\ run[q].sess = disp[d].sess =>
             run[q].st \notin LiveStatus
    BY <1>15 DEF Admits
  <2>2. run'[r].sess = disp[d].sess
    BY <1>15 DEF Admits, NoRun
  <2>3. \A q \in Run : run[q].sess = disp[d].sess => run[q].st \notin LiveStatus
    BY <2>1 DEF LiveStatus
  <2> QED
    BY <1>14, <2>1, <2>2, <2>3
<1>16. ASSUME NEW d \in Disp, Flips(d)
       PROVE  SoleLive'
  <2>1. /\ disp[d].pc = "admit" /\ disp[d].kind = "resume"
        /\ Moved(d, "ensure") /\ disp'[d].run = disp[d].run
        /\ run[disp[d].run].st = "waiting" /\ RunsKept
    BY <1>16 DEF Flips
  <2>2. /\ disp[d].run \in Run /\ run[disp[d].run].sess = disp[d].sess
    BY <2>1 DEF Shape, RequestShape, RequestOf
  <2>3. run'[disp[d].run].sess = disp[d].sess
    BY <2>1, <2>2 DEF RunsKept
  <2>4. \A q \in Run \ {disp[d].run} : run[q].sess = disp[d].sess => run[q].st \notin LiveStatus
    BY <1>1, <2>1, <2>2 DEF Sole, LiveStatus
  <2>5. PICK r \in Run : r = disp[d].run
    BY <2>2
  <2> QED
    BY <1>14, <2>1, <2>3, <2>4, <2>5 DEF RunsKept
<1> QED
  BY <1>2, <1>3, <1>4, <1>5, <1>6, <1>7, <1>9, <1>10, <1>11, <1>13, <1>15, <1>16 DEF Step

\* A set of which any two members are equal has at most one.
LEMMA AtMostOne ==
  ASSUME NEW S, \A x, y \in S : x = y
  PROVE  Cardinality(S) <= 1
<1>1. CASE S = {}
  BY <1>1, FS_EmptySet
<1>2. CASE S # {}
  <2>1. PICK x : x \in S
    BY <1>2
  <2>2. S = {x}
    BY <2>1
  <2> QED
    BY <2>2, FS_Singleton
<1> QED
  BY <1>1, <1>2

\* What the invariant's first two layers say at every step.
LEMMA ShapeHolds ==
  Spec => [](Shape /\ SoleLive)
<1>1. Init => Shape /\ SoleLive
  <2>1. Init => SoleLive
    BY DEF Init, SoleLive, Sole, SoleOwned, NoRun, LiveStatus, Idle, Owner, OwnPc
  <2> QED
    BY <2>1, ShapeInit
<1>2. Shape /\ SoleLive /\ [Next]_vars => (Shape /\ SoleLive)'
  <2>1. ASSUME Shape, SoleLive, [Next]_vars
        PROVE  Shape' /\ SoleLive'
    <3>1. Step /\ Shape'
      BY <2>1, ShapeStep
    <3>2. TypeOK'
      BY <3>1 DEF Shape
    <3> QED
      BY <2>1, <3>1, <3>2, SoleLiveStep
  <2> QED
    BY <2>1
<1> QED
  BY <1>1, <1>2, PTL DEF Spec

\* TypeOK: every row of every table keeps its shape, whatever is stopped, fails
\* or restarts.
THEOREM TypeCorrect == Spec => []TypeOK
<1>1. Shape => TypeOK
  BY DEF Shape
<1> QED
  BY <1>1, ShapeHolds, PTL

\* OneLiveRun (routes.ts countDispatchingRuns): a session never has two live
\* runs, even with requests arriving while the first sweep still works.
THEOREM OneRunPerSession == Spec => []OneLiveRun
<1>1. SoleLive => OneLiveRun
  <2> SUFFICES ASSUME SoleLive, NEW s \in Session
               PROVE  Cardinality(LiveRuns(s)) <= 1
    BY DEF OneLiveRun
  <2>1. \A r, q \in LiveRuns(s) : r = q
    BY DEF SoleLive, Sole, LiveRuns, RunsOf
  <2> QED
    BY <2>1, AtMostOne
<1> QED
  BY <1>1, ShapeHolds, PTL
-----------------------------------------------------------------------------
(* What a request relies on while others work.                             *)

\* The steps of a request already at work, those that start one, and those no
\* request makes.
Works(d) ==
    \/ Quit(d) \/ Enters(d) \/ Flips(d) \/ Arms(d) \/ Accepted(d)
    \/ Persists(d) \/ Abandons(d) \/ Follows(d) \/ Replaces(d) \/ Retires(d)
    \/ \E p \in DispPc : Pass(d, p)
    \/ \E r \in Run : Admits(d, r)
Begins(d) ==
    \/ \E s \in Session : TakesFresh(d, s) \/ TakesSession(d, s) \/ TakesQuiet(d, s)
    \/ \E r \in Run : TakesParked(d, r)
Reconciles ==
    \/ ReconSelects \/ ReconSelectsEveless
    \/ \E row \in recon.rows : Sweeps(row)
    \/ \E s \in Session : Heals(s)
EveActs ==
    \/ \E s \in Session : EveStarts(s)
    \/ \E s \in Session, out \in Outcome : EveEnds(s, out)
    \/ \E r \in Run : EveAcceptsLate(r)

\* A step has one actor.
LEMMA Sorts ==
  ASSUME Step
  PROVE  \/ Settles \/ Reboots \/ Reconciles \/ EveActs
         \/ \E r \in Run : TailMove(r)
         \/ \E d \in Disp : Works(d) \/ Begins(d)
BY DEF Step, Works, Begins, Reconciles, EveActs

\* A request at work, or one that starts, leaves the other requests alone and
\* the reconciliation too.
LEMMA Movers ==
  ASSUME NEW d \in Disp
  PROVE  /\ Works(d) => /\ disp[d].pc # "idle" /\ disp'[d].pc # disp[d].pc
                        /\ Others(d) /\ UNCHANGED recon
         /\ Begins(d) => /\ disp[d].pc = "idle" /\ disp'[d].pc # "idle"
                         /\ Others(d) /\ UNCHANGED recon
                         /\ EarlyTraffic \/ recon.pc = "done"
<1>1. ASSUME Works(d)
      PROVE  disp[d].pc # "idle" /\ disp'[d].pc # disp[d].pc
  <2>1. CASE Quit(d) \/ Abandons(d) \/ Follows(d) \/ Replaces(d)
    BY <2>1 DEF Quit, Abandons, Follows, Replaces, Idle
  <2>2. CASE Enters(d) \/ Flips(d) \/ Arms(d) \/ Accepted(d) \/ Persists(d) \/ Retires(d)
             \/ \E r \in Run : Admits(d, r)
    BY <2>2 DEF Enters, Flips, Arms, Accepted, Persists, Retires, Admits, Moved
  <2>3. CASE \E p \in DispPc : Pass(d, p)
    BY <2>3 DEF Pass, Moves, Moved
  <2> QED
    BY <1>1, <2>1, <2>2, <2>3 DEF Works
<1>2. ASSUME Works(d)
      PROVE  Others(d) /\ UNCHANGED recon
  BY <1>2 DEF Works, Quit, Abandons, Follows, Replaces, Enters, Flips, Arms, Accepted,
     Persists, Retires, Admits, Pass, Moved
<1>3. ASSUME Begins(d)
      PROVE  /\ disp[d].pc = "idle" /\ disp'[d].pc # "idle"
             /\ Others(d) /\ UNCHANGED recon
             /\ EarlyTraffic \/ recon.pc = "done"
  BY <1>3 DEF Begins, TakesFresh, TakesSession, TakesQuiet, TakesParked, Takes
<1> QED
  BY <1>1, <1>2, <1>3

\* The steps no request makes leave the requests and their locks alone.
LEMMA Asides ==
  ASSUME \/ Settles \/ Reconciles \/ EveActs \/ \E r \in Run : TailMove(r)
  PROVE  UNCHANGED <<disp, lock>>
<1>1. CASE Reconciles
  BY <1>1 DEF Reconciles, ReconSelects, ReconSelectsEveless, Sweeps, Heals
<1>2. CASE EveActs
  BY <1>2 DEF EveActs, EveStarts, EveEnds, EveAcceptsLate, others
<1> QED
  BY <1>1, <1>2 DEF Settles, TailMove

\* An eve id, once known, stays known.
LEMMA IdStays ==
  ASSUME Shape, Step, NEW x \in Session, sess[x].id
  PROVE  sess'[x].id
<1>1. sess \in [Session -> SessRec]
  BY Tables
<1>2. CASE Settles \/ Reboots \/ Reconciles \/ EveActs
  BY <1>2 DEF Settles, Reboots, Reconciles, EveActs, ReconSelects, ReconSelectsEveless,
     Sweeps, Heals, Closing, EveStarts, EveEnds, EveAcceptsLate, others, database
<1>3. CASE \E r \in Run : TailMove(r)
  BY <1>3 DEF TailMove
<1>4. CASE \E d \in Disp : Begins(d)
  BY <1>4 DEF Begins, TakesFresh, TakesSession, TakesQuiet, TakesParked, Takes, Closing
<1>5. ASSUME NEW d \in Disp, Works(d)
      PROVE  sess'[x].id
  <2>1. CASE Persists(d)
    BY <1>1, <2>1 DEF Persists, casSessionLive, SessRec
  <2>2. CASE Replaces(d)
    BY <1>1, <2>2 DEF Replaces, Closing, SessRec
  <2>3. CASE Quit(d) \/ Abandons(d) \/ \E p \in DispPc : Pass(d, p)
    BY <2>3 DEF Quit, Abandons, Pass, Closing
  <2>4. CASE \E r \in Run : Admits(d, r)
    BY <2>4 DEF Admits
  <2>5. CASE Enters(d) \/ Flips(d) \/ Arms(d) \/ Accepted(d) \/ Follows(d) \/ Retires(d)
    BY <2>5 DEF Enters, Flips, Arms, Accepted, Follows, Retires
  <2> QED
    BY <1>5, <2>1, <2>2, <2>3, <2>4, <2>5 DEF Works
<1> QED
  BY <1>2, <1>3, <1>4, <1>5, Sorts

-----------------------------------------------------------------------------
(* What other actors may do to the session whose lock a request holds: no  *)
(* run of it is inserted, armed or made live, its eve id is not written,   *)
(* and only a tail that finishes writes its status.                        *)

HeldRow(s) ==
    /\ sess'[s].id <=> sess[s].id
    /\ \/ sess'[s].st = sess[s].st
       \/ \E r \in Run : /\ run[r].st # "none" /\ run[r].sess = s
                         /\ tail[r].st \in {"mark", "stopping"}
                         /\ sess'[s].st = tail[r].out

HeldRuns(s) == \A r \in Run : run'[r].st # "none" /\ run'[r].sess = s =>
    /\ run[r].st # "none" /\ run[r].sess = s
    /\ run'[r].armed <=> run[r].armed
    /\ run'[r].st \in LiveStatus => run[r].st \in LiveStatus
    /\ run'[r].st = "waiting" =>
         run[r].st = "waiting" \/ (tail[r].st = "ended" /\ tail'[r].st = "mark")

HeldTails(s) == \A r \in Run : run[r].st # "none" /\ run[r].sess = s =>
    \/ tail[r].st = "none" => tail'[r].st = "none"
    \/ \E row \in recon.rows : recon.pc = "runs" /\ row.run = r

HeldLimbo(s) == \A r \in Run : r \in limbo' /\ run[r].st # "none" /\ run[r].sess = s
                                 => r \in limbo
\* The actor is not the request itself, and works on another session.
LEMMA Foreign ==
  ASSUME Shape, Step, NEW d \in Disp, disp[d].pc # "idle", disp'[d] = disp[d]
  PROVE  /\ disp[d].sess \in Session /\ lock[disp[d].sess] = d
         /\ lock[disp[d].sess] # None
         /\ \/ Settles \/ Reconciles \/ EveActs
            \/ \E r \in Run : TailMove(r)
            \/ \E e \in Disp \ {d} : \/ Works(e) /\ disp[e].sess \in Session
                                        /\ disp[e].sess # disp[d].sess
                                     \/ Begins(e)
<1>1. disp[d].sess \in Session /\ lock[disp[d].sess] = d /\ lock[disp[d].sess] # None
  BY Request, Numbers
<1>2. ~Reboots
  BY DEF Reboots, Idle
<1>3. ASSUME NEW e \in Disp, Works(e)
      PROVE  e # d /\ disp[e].sess \in Session /\ disp[e].sess # disp[d].sess
  <2>1. disp[e].pc # "idle" /\ disp'[e].pc # disp[e].pc
    BY <1>3, Movers
  <2>2. disp[e].sess \in Session /\ lock[disp[e].sess] = e
    BY <2>1, Request
  <2> QED
    BY <1>1, <2>1, <2>2
<1>4. ASSUME NEW e \in Disp, Begins(e)
      PROVE  e # d
  BY <1>4, Movers
<1> QED
  BY <1>1, <1>2, <1>3, <1>4, Sorts

LEMMA HeldRowStep ==
  ASSUME Shape, Step, NEW d \in Disp, disp[d].pc # "idle", disp'[d] = disp[d]
  PROVE  HeldRow(disp[d].sess)
<1>1. PICK s \in Session : s = disp[d].sess
  BY Foreign
<1> SUFFICES HeldRow(s)
  BY <1>1
<1>2. lock[s] # None
  BY <1>1, Foreign
<1>3. ASSUME sess'[s] = sess[s]
      PROVE  HeldRow(s)
  BY <1>3 DEF HeldRow
<1>4. sess \in [Session -> SessRec]
  BY Tables
<1>5. CASE Settles \/ Reconciles \/ EveActs
  BY <1>2, <1>3, <1>5 DEF Settles, Reconciles, ReconSelects, ReconSelectsEveless, Sweeps,
     Heals, EveActs, EveStarts, EveEnds, EveAcceptsLate, others, database
<1>6. ASSUME NEW r \in Run, TailMove(r)
      PROVE  HeldRow(s)
  <2>1. tail[r].st # "none" => run[r].st # "none"
    BY DEF Shape, RunShape
  <2> QED
    BY <1>3, <1>6, <2>1 DEF TailMove, HeldRow
<1>7. ASSUME NEW e \in Disp, Begins(e)
      PROVE  HeldRow(s)
  BY <1>2, <1>3, <1>7 DEF Begins, TakesFresh, TakesSession, TakesQuiet, TakesParked, Takes
<1>8. ASSUME NEW e \in Disp, Works(e), disp[e].sess \in Session, disp[e].sess # s
      PROVE  HeldRow(s)
  <2>1. CASE Quit(e) \/ Abandons(e) \/ \E p \in DispPc : Pass(e, p)
    BY <1>3, <1>8, <2>1 DEF Quit, Abandons, Pass
  <2>2. CASE Persists(e)
    BY <1>3, <1>4, <1>8, <2>2 DEF Persists, casSessionLive
  <2>3. CASE Replaces(e)
    BY <1>2, <1>3, <1>8, <2>3 DEF Replaces
  <2>4. CASE \E r \in Run : Admits(e, r)
    BY <1>8, <2>4 DEF Admits, HeldRow
  <2>5. CASE Enters(e) \/ Flips(e) \/ Arms(e) \/ Accepted(e) \/ Follows(e) \/ Retires(e)
    BY <1>3, <2>5 DEF Enters, Flips, Arms, Accepted, Follows, Retires
  <2> QED
    BY <1>8, <2>1, <2>2, <2>3, <2>4, <2>5 DEF Works
<1> QED
  BY <1>1, <1>5, <1>6, <1>7, <1>8, Foreign

LEMMA HeldRunsStep ==
  ASSUME Shape, Step, NEW d \in Disp, disp[d].pc # "idle", disp'[d] = disp[d]
  PROVE  HeldRuns(disp[d].sess)
<1>1. PICK s \in Session : s = disp[d].sess
  BY Foreign
<1> SUFFICES HeldRuns(s)
  BY <1>1
<1>2. ASSUME RunsKept, NoneParks
      PROVE  HeldRuns(s)
  BY <1>2 DEF RunsKept, NoneParks, HeldRuns, LiveStatus, Terminal
<1>3. UNCHANGED run => RunsKept /\ NoneParks
  BY RunsSame
<1>4. CASE Settles \/ EveActs
  BY <1>2, <1>3, <1>4 DEF Settles, EveActs, EveStarts, EveEnds, EveAcceptsLate, others, database
<1>5. CASE Reconciles
  BY <1>2, <1>3, <1>5 DEF Reconciles, ReconSelects, ReconSelectsEveless, Sweeps, Heals,
     database
<1>6. ASSUME NEW r \in Run, TailMove(r)
      PROVE  HeldRuns(s)
  <2>1. RunsKept
    BY <1>6 DEF TailMove
  <2>2. \A q \in Run : run'[q].st = "waiting" =>
         \/ run[q].st = "waiting"
         \/ tail[q].st = "ended" /\ tail'[q].st = "mark"
    BY <1>6 DEF TailMove
  <2> QED
    BY <2>1, <2>2 DEF RunsKept, HeldRuns, LiveStatus, Terminal
<1>7. ASSUME NEW e \in Disp, Begins(e)
      PROVE  HeldRuns(s)
  BY <1>2, <1>3, <1>7 DEF Begins, TakesFresh, TakesSession, TakesQuiet, TakesParked, Takes
<1>8. ASSUME NEW e \in Disp, Works(e), disp[e].sess \in Session, disp[e].sess # s
      PROVE  HeldRuns(s)
  <2>1. CASE Quit(e) \/ Abandons(e) \/ Replaces(e) \/ \E p \in DispPc : Pass(e, p)
    BY <1>2, <2>1 DEF Quit, Abandons, Replaces, Pass
  <2>2. CASE Enters(e) \/ Accepted(e) \/ Persists(e) \/ Follows(e) \/ Retires(e)
    BY <1>2, <1>3, <2>2 DEF Enters, Accepted, Persists, Follows, Retires
  <2>3. CASE Flips(e)
    BY <1>2, <2>3 DEF Flips
  <2>4. ASSUME NEW r \in Run, Admits(e, r)
        PROVE  HeldRuns(s)
    <3>1. run'[r].sess = disp[e].sess
      BY <2>4 DEF Admits, NoRun
    <3>2. \A q \in Run \ {r} : run'[q] = run[q]
      BY <2>4 DEF Admits
    <3> QED
      BY <1>8, <3>1, <3>2 DEF HeldRuns
  <2>5. CASE Arms(e)
    <3>1. Owner(e)
      BY <2>5 DEF Arms, Owner, OwnPc
    <3>2. /\ disp[e].run \in Run /\ run'[disp[e].run].sess # s
          /\ \A q \in Run \ {disp[e].run} : run'[q] = run[q]
      BY <1>8, <2>5, <3>1, Request DEF Arms, Owner, OwnPc
    <3> QED
      BY <3>2 DEF HeldRuns
  <2> QED
    BY <1>8, <2>1, <2>2, <2>3, <2>4, <2>5 DEF Works
<1> QED
  BY <1>1, <1>4, <1>5, <1>6, <1>7, <1>8, Foreign

LEMMA HeldTailsStep ==
  ASSUME Shape, Step, NEW d \in Disp, disp[d].pc # "idle", disp'[d] = disp[d]
  PROVE  HeldTails(disp[d].sess)
<1>1. PICK s \in Session : s = disp[d].sess
  BY Foreign
<1> SUFFICES HeldTails(s)
  BY <1>1
<1>2. lock[s] # None
  BY <1>1, Foreign
<1>3. ASSUME UNCHANGED tail
      PROVE  HeldTails(s)
  BY <1>3 DEF HeldTails
<1>4. CASE Settles \/ EveActs
  BY <1>3, <1>4 DEF Settles, EveActs, EveStarts, EveEnds, EveAcceptsLate, others
<1>5. CASE Reconciles
  <2>1. CASE UNCHANGED tail
    BY <1>3, <2>1
  <2>2. ASSUME NEW row \in recon.rows, Sweeps(row), tail' # tail
        PROVE  HeldTails(s)
    <3>1. TailsStart(row.run) /\ recon.pc = "runs"
      BY <2>2 DEF Sweeps
    <3> QED
      BY <3>1, RunRows DEF TailsStart, HeldTails
  <2> QED
    BY <1>5, <2>1, <2>2 DEF Reconciles, ReconSelects, ReconSelectsEveless, Heals
<1>6. ASSUME NEW r \in Run, TailMove(r)
      PROVE  HeldTails(s)
  <2>1. \A q \in Run \ {r} : tail'[q] = tail[q]
    BY <1>6 DEF TailMove
  <2>2. tail[r].st = "none" => \/ tail'[r].st = "none"
                               \/ lock[run[r].sess] = None
    BY <1>6 DEF TailMove, TailTurn
  <2> QED
    BY <1>2, <2>1, <2>2 DEF HeldTails
<1>7. ASSUME NEW e \in Disp, Begins(e)
      PROVE  HeldTails(s)
  BY <1>3, <1>7 DEF Begins, TakesFresh, TakesSession, TakesQuiet, TakesParked, Takes
<1>8. ASSUME NEW e \in Disp, Works(e), disp[e].sess \in Session, disp[e].sess # s
      PROVE  HeldTails(s)
  <2>1. CASE UNCHANGED tail
    BY <1>3, <2>1
  <2>2. CASE Abandons(e) \/ Follows(e)
    <3>1. disp[e].run \in Run /\ run[disp[e].run].sess # s
      BY <1>8, <2>2, Request DEF Abandons, Follows, Owner, OwnPc
    <3>2. \A q \in Run : q # disp[e].run =>
            tail'[q] = tail[q] \/ tail'[q] = NoTail
      BY <2>2 DEF Abandons, Follows, TailsStart
    <3> QED
      BY <3>1, <3>2, RunRows DEF HeldTails
  <2> QED
    BY <1>8, <2>1, <2>2 DEF Works, Quit, Replaces, Pass, Enters, Accepted, Persists,
       Retires, Flips, Admits, Arms
<1> QED
  BY <1>1, <1>4, <1>5, <1>6, <1>7, <1>8, Foreign

LEMMA HeldLimboStep ==
  ASSUME Shape, Step, NEW d \in Disp, disp[d].pc # "idle", disp'[d] = disp[d]
  PROVE  HeldLimbo(disp[d].sess)
<1>1. PICK s \in Session : s = disp[d].sess
  BY Foreign
<1> SUFFICES HeldLimbo(s)
  BY <1>1
<1>2. ASSUME limbo' \subseteq limbo
      PROVE  HeldLimbo(s)
  BY <1>2 DEF HeldLimbo
<1>3. CASE Settles \/ EveActs \/ Reconciles \/ \E r \in Run : TailMove(r)
  BY <1>2, <1>3 DEF Settles, EveActs, EveStarts, EveEnds, EveAcceptsLate, others,
     Reconciles, ReconSelects, ReconSelectsEveless, Sweeps, Heals, TailMove
<1>4. ASSUME NEW e \in Disp, Begins(e)
      PROVE  HeldLimbo(s)
  BY <1>2, <1>4 DEF Begins, TakesFresh, TakesSession, TakesQuiet, TakesParked, Takes
<1>5. ASSUME NEW e \in Disp, Works(e), disp[e].sess \in Session, disp[e].sess # s
      PROVE  HeldLimbo(s)
  <2>1. CASE UNCHANGED limbo
    BY <1>2, <2>1
  <2>2. CASE \E p \in DispPc : Pass(e, p)
    <3>1. Owner(e)
      BY <2>2 DEF Pass, Moves, Owner, OwnPc
    <3>2. run[disp[e].run].sess # s
      BY <1>5, <3>1, Request DEF Owner, OwnPc
    <3>3. limbo' = limbo \/ limbo' = limbo \cup {disp[e].run}
      BY <2>2 DEF Pass
    <3> QED
      BY <3>2, <3>3 DEF HeldLimbo
  <2> QED
    BY <1>5, <2>1, <2>2 DEF Works, Quit, Replaces, Abandons, Follows, Enters, Accepted,
       Persists, Retires, Flips, Admits, Arms
<1> QED
  BY <1>1, <1>3, <1>4, <1>5, Foreign
LEMMA Held ==
  ASSUME Shape, Step, NEW d \in Disp, disp[d].pc # "idle", disp'[d] = disp[d]
  PROVE  /\ HeldRow(disp[d].sess) /\ HeldRuns(disp[d].sess)
         /\ HeldTails(disp[d].sess) /\ HeldLimbo(disp[d].sess)
BY HeldRowStep, HeldRunsStep, HeldTailsStep, HeldLimboStep

-----------------------------------------------------------------------------
(* The invariant, when no request arrives during the first sweep.          *)

\* No request is at work while the first sweep is.
BootQuiet ==
    /\ recon.pc # "done" => \A d \in Disp : disp[d].pc = "idle"
    /\ recon.rows # {} => recon.pc = "runs"

\* Nothing of a session is live or read while it is being reset.
ResetHeld == \A d \in Disp : disp[d].pc \in {"quiet", "resetting"} =>
    \A r \in RunsOf(disp[d].sess) : run[r].st \notin LiveStatus /\ tail[r].st = "none"

\* Who knows that the session has an eve id.
KnownByRequests == \A d \in Disp :
    /\ disp[d].pc \in {"admit", "ensure", "arm", "send", "inflight", "persist"} =>
         (disp[d].id <=> sess[disp[d].sess].id)
    /\ disp[d].pc \in {"recheck", "tail", "quiet", "resetting", "gone"} =>
         sess[disp[d].sess].id
    /\ disp[d].pc # "idle" /\ disp[d].kind = "resume" => sess[disp[d].sess].id
KnownByTails == \A r \in Run :
    run[r].st # "none" /\ (tail[r].st # "none" \/ run[r].st = "waiting")
      => sess[run[r].sess].id
KnownByRows == \A row \in recon.rows : row.id => sess[run[row.run].sess].id
Known == KnownByRequests /\ KnownByTails /\ KnownByRows

\* Which tails a run may have.
TailOfRun == \A r \in Run :
    /\ run[r].owed => run[r].st \in Terminal
    /\ run[r].st = "waiting" => tail[r].st \in {"none", "mark"}
    /\ tail[r].st \in {"observe", "stopping"} => run[r].st \in Terminal
TailOfOwned == \A d \in Disp : Owner(d) =>
    run[disp[d].run].st # "waiting" /\ tail[disp[d].run].st \in {"none", "mark"}
TailOfRows ==
    /\ recon.pc = "boot" => \A r \in Run : tail[r].st \in {"none", "observe"}
    /\ \A row \in recon.rows : /\ run[row.run].st # "waiting"
                               /\ tail[row.run].st \in {"none", "observe"}
    /\ \A x, y \in recon.rows : x.run = y.run => x = y
TailMode == TailOfRun /\ TailOfOwned /\ TailOfRows

\* What tells that eve has ended a session.
Dying == {"session.completed", "session.failed"}
DeadEve == \A s \in Session :
    /\ eve[s].dead => eve[s].open = None /\ eve[s].queue = <<>>
    /\ \A i \in 1 .. Len(eve[s].log) :
         eve[s].log[i].type = "end" /\ eve[s].log[i].out \in Dying => eve[s].dead
DeadTails == \A r \in Run : run[r].st # "none" =>
    /\ tail[r].st = "ended" /\ tail[r].out \in Dying => eve[run[r].sess].dead
    /\ tail[r].st = "mark" /\ tail[r].out \in Dead => eve[run[r].sess].dead
Deaths == DeadEve /\ DeadTails

\* Before eve answers, only eve's own word can have closed the session; once it
\* has accepted the turn, nothing closes it before the id is written.
LandingOf(d) ==
    /\ disp[d].pc \in {"admit", "ensure", "arm", "send"}
         /\ sess[disp[d].sess].st \in Dead => eve[disp[d].sess].dead
    /\ disp[d].pc \in {"inflight", "persist"} =>
         /\ sess[disp[d].sess].st \notin Dead
         /\ \A r \in RunsOf(disp[d].sess) : ~(tail[r].st = "mark" /\ tail[r].out \in Dead)
Landing == \A d \in Disp : LandingOf(d)

\* The run that was armed on a session without an eve id: there is one, and it
\* is the newest; while the session is open no other run is live, and somebody
\* has yet to settle it or to close the session.
SoleArmed ==
    \A r, q \in Run : run[r].armed /\ run[q].armed /\ run[r].sess = run[q].sess
                        /\ ~sess[run[r].sess].id => r = q
Ahead(r) ==
    \/ \E d \in Disp : disp[d].run = r /\ disp[d].pc \in SendPc
    \/ run[r].st \in Terminal
    \/ recon.pc = "boot"
    \/ \E row \in recon.rows : row.run = r
ArmedAhead == \A r \in Run :
    run[r].armed /\ ~sess[run[r].sess].id /\ sess[run[r].sess].st \notin Dead =>
      /\ \A q \in RunsOf(run[r].sess) : q <= r /\ (run[q].st \in LiveStatus => q = r)
      /\ Ahead(r)
UnarmedBefore == \A d \in Disp :
    disp[d].pc \in {"admit", "ensure", "arm"} /\ ~sess[disp[d].sess].id =>
      \A r \in RunsOf(disp[d].sess) : ~run[r].armed
OwnedNewest == \A d \in Disp : Owner(d) /\ disp[d].kind # "resume" =>
    \A q \in RunsOf(disp[d].sess) : q <= disp[d].run
Eveless == SoleArmed /\ ArmedAhead /\ UnarmedBefore /\ OwnedNewest

\* The creates of a session, and the sends that may still make one.
CreatesOnce == \A s \in Session :
    /\ eve[s].creates <= 1
    /\ sess[s].id => eve[s].creates = 1
    /\ eve[s].creates = 0 => /\ ~eve[s].dead /\ eve[s].queue = <<>>
                             /\ eve[s].open = None /\ eve[s].log = <<>>
    /\ eve[s].creates = 1 => \E r \in RunsOf(s) : run[r].armed
LimboArmed == \A r \in limbo :
    run[r].armed /\ (~sess[run[r].sess].id => eve[run[r].sess].creates = 0)
SendArmed == \A d \in Disp :
    /\ disp[d].pc = "send" => run[disp[d].run].armed
    /\ disp[d].pc = "send" /\ ~sess[disp[d].sess].id =>
         eve[disp[d].sess].creates = 0 /\ \A q \in limbo : run[q].sess # disp[d].sess
    /\ disp[d].pc \in {"inflight", "persist"} => eve[disp[d].sess].creates = 1
Creates == CreatesOnce /\ LimboArmed /\ SendArmed

Inv == /\ Shape /\ SoleLive /\ BootQuiet /\ ResetHeld /\ Known /\ TailMode
       /\ Deaths /\ Landing /\ Eveless /\ Creates

\* No request is at work, or the first sweep is over.
LEMMA BootQuietStep ==
  ASSUME Inv, ~EarlyTraffic, Step
  PROVE  BootQuiet'
<1>1. BootQuiet /\ Shape
  BY DEF Inv
<1>2. recon \in ReconRec
  BY <1>1, Tables
<1>3. ASSUME UNCHANGED <<disp, recon>>
      PROVE  BootQuiet'
  BY <1>1, <1>3 DEF BootQuiet
<1>4. CASE Settles \/ EveActs \/ \E r \in Run : TailMove(r)
  BY <1>3, <1>4 DEF Settles, EveActs, EveStarts, EveEnds, EveAcceptsLate, others, TailMove
<1>5. CASE Reboots
  BY <1>5 DEF Reboots, BootQuiet, Idle
<1>6. CASE ReconSelects
  BY <1>1, <1>2, <1>6 DEF ReconSelects, BootQuiet, ReconRec
<1>7. CASE ReconSelectsEveless
  BY <1>1, <1>2, <1>7 DEF ReconSelectsEveless, BootQuiet, ReconRec
<1>8. CASE \/ \E row \in recon.rows : Sweeps(row)
           \/ \E s \in Session : Heals(s)
  BY <1>1, <1>8 DEF Sweeps, Heals, BootQuiet
<1>9. CASE \E d \in Disp : Works(d) \/ Begins(d)
  <2>1. UNCHANGED recon /\ recon.pc = "done"
    BY <1>1, <1>9, Movers DEF BootQuiet
  <2> QED
    BY <1>1, <2>1 DEF BootQuiet
<1> QED
  BY <1>4, <1>5, <1>6, <1>7, <1>8, <1>9, Sorts DEF Reconciles

\* The first sweep does not work beside a request.
LEMMA SweepOver ==
  ASSUME Inv, NEW d \in Disp, disp[d].pc # "idle"
  PROVE  recon.pc = "done" /\ recon.rows = {}
BY DEF Inv, BootQuiet

\* What holds of a request's rows while others work.
LEMMA Beside ==
  ASSUME Inv, Step, NEW d \in Disp, disp[d].pc # "idle", disp'[d] = disp[d]
  PROVE  /\ HeldRow(disp[d].sess) /\ HeldRuns(disp[d].sess) /\ HeldLimbo(disp[d].sess)
         /\ \A r \in RunsOf(disp[d].sess) : tail[r].st = "none" => tail'[r].st = "none"
         /\ RunsOf(disp[d].sess)' \subseteq RunsOf(disp[d].sess)
<1>1. Shape /\ recon.rows = {}
  BY SweepOver DEF Inv
<1>2. /\ HeldRow(disp[d].sess) /\ HeldRuns(disp[d].sess)
      /\ HeldTails(disp[d].sess) /\ HeldLimbo(disp[d].sess)
  BY <1>1, Held
<1>3. \A r \in RunsOf(disp[d].sess) : tail[r].st = "none" => tail'[r].st = "none"
  BY <1>1, <1>2 DEF HeldTails, RunsOf
<1>4. RunsOf(disp[d].sess)' \subseteq RunsOf(disp[d].sess)
  BY <1>2 DEF HeldRuns, RunsOf
<1> QED
  BY <1>2, <1>3, <1>4
\* What a step does to one request.
LEMMA Turn ==
  ASSUME Step, NEW d \in Disp
  PROVE  disp'[d] = disp[d] \/ disp'[d] = Idle \/ Works(d) \/ Begins(d)
<1>1. CASE Reboots
  BY <1>1 DEF Reboots
<1>2. ASSUME NEW e \in Disp, Works(e) \/ Begins(e)
      PROVE  e = d \/ disp'[d] = disp[d]
  BY <1>2, Movers DEF Others
<1> QED
  BY <1>1, <1>2, Sorts, Asides

\* What a request that starts relies on, by the step it goes to.
LEMMA Starts ==
  ASSUME Shape, NEW d \in Disp, Begins(d)
  PROVE  \E s \in Session :
           /\ disp'[d].sess = s /\ sess'[s] = sess[s]
           /\ UNCHANGED <<run, tail, recon, eve, limbo>>
           /\ disp'[d].pc \in {"admit", "reread", "quiet"}
           /\ \/ TakesFresh(d, s) \/ TakesSession(d, s) \/ TakesQuiet(d, s)
              \/ \E r \in Run : run[r].sess = s /\ TakesParked(d, r)
<1>1. CASE \E s \in Session : TakesFresh(d, s) \/ TakesSession(d, s) \/ TakesQuiet(d, s)
  <2>1. PICK s \in Session : TakesFresh(d, s) \/ TakesSession(d, s) \/ TakesQuiet(d, s)
    BY <1>1
  <2>2. \E p \in {"admit", "reread", "quiet"} : Takes(d, s, p)
    BY <2>1 DEF TakesFresh, TakesSession, TakesQuiet
  <2> QED
    BY <2>1, <2>2 DEF Takes
<1>2. CASE \E r \in Run : TakesParked(d, r)
  <2>1. PICK r \in Run : TakesParked(d, r)
    BY <1>2
  <2>2. Takes(d, run[r].sess, "admit") /\ run[r].st = "waiting"
    BY <2>1 DEF TakesParked
  <2>3. PICK s \in Session : s = run[r].sess
    BY <2>2 DEF Shape, RunShape
  <2>4. Takes(d, s, "admit")
    BY <2>2, <2>3
  <2> QED
    BY <2>1, <2>3, <2>4 DEF Takes
<1> QED
  BY <1>1, <1>2 DEF Begins

\* Which request goes to which step, by the kind of its step.
LEMMA Targets ==
  ASSUME NEW d \in Disp, Works(d)
  PROVE  /\ disp'[d].pc # "idle" =>
              disp'[d].kind = disp[d].kind /\ disp'[d].sess = disp[d].sess
         /\ disp'[d].pc = "admit" => Enters(d)
         /\ disp'[d].pc = "ensure" => Flips(d) \/ \E r \in Run : Admits(d, r)
         /\ disp'[d].pc = "arm" => disp[d].pc = "ensure" /\ Pass(d, "arm")
         /\ disp'[d].pc = "send" => Arms(d)
         /\ disp'[d].pc = "inflight" => Accepted(d)
         /\ disp'[d].pc = "persist" => disp[d].pc = "inflight" /\ Pass(d, "persist")
         /\ disp'[d].pc = "recheck" => Persists(d)
         /\ disp'[d].pc = "tail" => disp[d].pc = "recheck" /\ Pass(d, "tail")
         /\ disp'[d].pc = "gone" => disp[d].pc = "send" /\ Pass(d, "gone")
         /\ disp'[d].pc \in {"fail", "failrun", "failsess"} =>
              \E p \in DispPc : Pass(d, p)
         /\ disp'[d].pc \notin {"quiet", "reread"}
         /\ disp'[d].pc = "resetting" => Retires(d)
<1>1. CASE Quit(d) \/ Abandons(d) \/ Follows(d) \/ Replaces(d)
  BY <1>1 DEF Quit, Abandons, Follows, Replaces, Idle
<1>2. CASE Enters(d) \/ Flips(d) \/ Arms(d) \/ Accepted(d)
  BY <1>2 DEF Enters, Flips, Arms, Accepted, Moved
<1>3. CASE Persists(d) \/ Retires(d) \/ \E r \in Run : Admits(d, r)
  BY <1>3 DEF Persists, Retires, Admits, Moved
<1>4. ASSUME NEW p \in DispPc, Pass(d, p)
      PROVE  /\ disp'[d].pc = p /\ disp'[d].kind = disp[d].kind
             /\ disp'[d].sess = disp[d].sess /\ <<disp[d].pc, p>> \in Moves
  BY <1>4 DEF Pass, Moved
<1>5. ASSUME NEW p \in DispPc, Pass(d, p)
      PROVE  /\ p \in {"arm", "fail", "failrun", "failsess", "gone", "persist", "tail"}
             /\ p = "arm" => disp[d].pc = "ensure"
             /\ p = "persist" => disp[d].pc = "inflight"
             /\ p = "tail" => disp[d].pc = "recheck"
             /\ p = "gone" => disp[d].pc = "send"
  BY <1>4, <1>5 DEF Moves
<1> QED
  BY <1>1, <1>2, <1>3, <1>4, <1>5 DEF Works

\* A reset that has found its session quiet keeps it so.
LEMMA ResetHeldStep ==
  ASSUME Inv, ~EarlyTraffic, Step
  PROVE  ResetHeld'
<1>1. ResetHeld /\ Shape
  BY DEF Inv
<1> SUFFICES ASSUME NEW d \in Disp, disp'[d].pc \in {"quiet", "resetting"},
                    NEW r \in RunsOf(disp[d].sess)'
             PROVE  run'[r].st \notin LiveStatus /\ tail'[r].st = "none"
  BY DEF ResetHeld
<1>2. CASE disp'[d] = disp[d]
  <2>1. disp[d].pc \in {"quiet", "resetting"}
    BY <1>2
  <2>2. /\ \A q \in RunsOf(disp[d].sess) : tail[q].st = "none" => tail'[q].st = "none"
        /\ RunsOf(disp[d].sess)' \subseteq RunsOf(disp[d].sess)
        /\ HeldRuns(disp[d].sess)
    BY <1>2, <2>1, Beside
  <2>3. r \in RunsOf(disp[d].sess) /\ r \in Run /\ run'[r].sess = disp[d].sess
        /\ run'[r].st # "none"
    BY <1>2, <2>2 DEF RunsOf
  <2> QED
    BY <1>1, <2>1, <2>2, <2>3 DEF ResetHeld, HeldRuns
<1>3. CASE Works(d)
  <2>1. Retires(d)
    BY <1>3, Targets
  <2>2. /\ UNCHANGED <<run, tail>> /\ disp[d].pc = "quiet" /\ disp'[d].sess = disp[d].sess
    BY <2>1 DEF Retires, Moved
  <2> QED
    BY <1>1, <2>2 DEF ResetHeld, RunsOf
<1>4. CASE Begins(d)
  <2>1. PICK s \in Session : /\ disp'[d].sess = s /\ UNCHANGED <<run, tail>>
                             /\ TakesFresh(d, s) \/ TakesSession(d, s) \/ TakesQuiet(d, s)
                                \/ \E q \in Run : TakesParked(d, q)
    BY <1>1, <1>4, Starts
  <2>2. TakesQuiet(d, s)
    BY <2>1 DEF TakesFresh, TakesSession, TakesParked, Takes
  <2> QED
    BY <2>1, <2>2 DEF TakesQuiet, RunsOf
<1> QED
  BY <1>2, <1>3, <1>4, Turn DEF Idle
\* The eve id a request carries is the row's.
LEMMA KnownByRequestsStep ==
  ASSUME Inv, ~EarlyTraffic, Step
  PROVE  KnownByRequests'
<1>1. KnownByRequests /\ Shape /\ Landing
  BY DEF Inv, Known
<1>2. /\ sess \in [Session -> SessRec] /\ disp \in [Disp -> DispRec]
  BY <1>1, Tables
<1> SUFFICES ASSUME NEW d \in Disp
      PROVE  /\ disp'[d].pc \in {"admit", "ensure", "arm", "send", "inflight", "persist"} =>
                  (disp'[d].id <=> sess'[disp'[d].sess].id)
             /\ disp'[d].pc \in {"recheck", "tail", "quiet", "resetting", "gone"} =>
                  sess'[disp'[d].sess].id
             /\ disp'[d].pc # "idle" /\ disp'[d].kind = "resume" => sess'[disp'[d].sess].id
  BY DEF KnownByRequests
<1>3. CASE disp'[d].pc = "idle"
  BY <1>3
<1>4. CASE disp'[d] = disp[d] /\ disp[d].pc # "idle"
  <2>1. sess'[disp[d].sess].id <=> sess[disp[d].sess].id
    BY <1>4, Beside DEF HeldRow
  <2> QED
    BY <1>1, <1>4, <2>1 DEF KnownByRequests
<1>5. CASE Begins(d)
  <2>1. PICK s \in Session :
           /\ disp'[d].sess = s /\ sess'[s] = sess[s]
           /\ disp'[d].pc \in {"admit", "reread", "quiet"}
           /\ \/ TakesFresh(d, s) \/ TakesSession(d, s) \/ TakesQuiet(d, s)
              \/ \E r \in Run : run[r].sess = s /\ TakesParked(d, r)
    BY <1>1, <1>5, Starts
  <2>2. CASE TakesFresh(d, s)
    BY <1>1, <2>1, <2>2 DEF TakesFresh, Takes, Shape, SessShape, Fresh
  <2>3. CASE TakesSession(d, s)
    BY <2>1, <2>3 DEF TakesSession, Takes
  <2>4. CASE TakesQuiet(d, s)
    BY <2>1, <2>4 DEF TakesQuiet, Takes
  <2>5. CASE \E r \in Run : run[r].sess = s /\ TakesParked(d, r)
    BY <2>1, <2>5 DEF TakesParked, Takes
  <2> QED
    BY <2>1, <2>2, <2>3, <2>4, <2>5
<1>6. CASE Works(d) /\ disp'[d].pc # "idle"
  <2> DEFINE s == disp[d].sess
  <2>1. disp[d].pc # "idle" /\ s \in Session
    BY <1>1, <1>6, Movers, Request
  <2>2. /\ disp'[d].kind = disp[d].kind /\ disp'[d].sess = s
    BY <1>6, Targets
  <2>3. disp[d].kind = "resume" => sess'[s].id
    BY <1>1, <2>1, IdStays DEF KnownByRequests
  <2>4. ASSUME disp'[d].pc \in {"admit", "ensure", "arm", "send", "inflight", "persist"}
        PROVE  disp'[d].id <=> sess'[s].id
    <3>1. CASE disp'[d].pc = "admit"
      BY <1>6, <2>2, <3>1, Targets DEF Enters
    <3>2. CASE disp'[d].pc = "ensure"
      <4>1. Flips(d) \/ \E r \in Run : Admits(d, r)
        BY <1>6, <3>2, Targets
      <4> QED
        BY <1>1, <2>1, <2>2, <4>1 DEF Flips, Admits, KnownByRequests
    <3>3. CASE disp'[d].pc \in {"arm", "persist"}
      <4>1. /\ disp[d].pc \in {"ensure", "inflight"}
            /\ \E p \in DispPc : Pass(d, p)
        BY <1>6, <3>3, Targets DEF DispPc
      <4>2. (disp'[d].id <=> disp[d].id) /\ sess'[s] = sess[s]
        BY <2>1, <4>1 DEF Pass
      <4> QED
        BY <1>1, <2>2, <4>1, <4>2 DEF KnownByRequests
    <3>4. CASE disp'[d].pc \in {"send", "inflight"}
      <4>1. Arms(d) \/ Accepted(d)
        BY <1>6, <3>4, Targets
      <4> QED
        BY <1>1, <2>2, <4>1 DEF Arms, Accepted, KnownByRequests
    <3> QED
      BY <2>4, <3>1, <3>2, <3>3, <3>4
  <2>5. ASSUME disp'[d].pc \in {"recheck", "tail", "quiet", "resetting", "gone"}
        PROVE  sess'[s].id
    <3>1. CASE disp'[d].pc = "recheck"
      <4>1. Persists(d)
        BY <1>6, <3>1, Targets
      <4>2. sess[s].st \notin Dead /\ sess' = casSessionLive(sess, s)
        BY <1>1, <4>1 DEF Persists, Landing, LandingOf
      <4> QED
        BY <1>2, <2>1, <4>2 DEF casSessionLive, SessRec
    <3>2. CASE disp'[d].pc \in {"tail", "resetting"}
      <4>1. disp[d].pc \in {"recheck", "quiet"}
        BY <1>6, <3>2, Targets DEF Retires
      <4> QED
        BY <1>1, <2>1, <4>1, IdStays DEF KnownByRequests
    <3>3. CASE disp'[d].pc = "gone"
      <4>1. disp[d].pc = "send" /\ disp[d].id
        BY <1>6, <3>3, Targets DEF Pass
      <4> QED
        BY <1>1, <2>1, <4>1, IdStays DEF KnownByRequests
    <3> QED
      BY <1>6, <2>5, <3>1, <3>2, <3>3, Targets
  <2> QED
    BY <2>2, <2>3, <2>4, <2>5
<1> QED
  BY <1>3, <1>4, <1>5, <1>6, Turn DEF Idle

\* Rows of the sessions' runs keep their session.
LEMMA RunsOfStay ==
  ASSUME Shape, Step, NEW r \in Run, run[r].st # "none"
  PROVE  /\ run'[r].st # "none" /\ run'[r].sess = run[r].sess
         /\ run[r].armed => run'[r].armed
<1>1. CASE RunsKept
  BY <1>1, RunsStay DEF RunsKept
<1>2. CASE UNCHANGED run
  BY <1>2
<1>3. CASE Settles \/ Reboots \/ Reconciles \/ EveActs \/ \E q \in Run : TailMove(q)
  BY <1>1, <1>2, <1>3 DEF Settles, Reboots, Reconciles, EveActs, ReconSelects,
     ReconSelectsEveless, Sweeps, Heals, EveStarts, EveEnds, EveAcceptsLate, others,
     database, TailMove
<1>4. CASE \E d \in Disp : Begins(d)
  BY <1>2, <1>4, Starts
<1>5. ASSUME NEW d \in Disp, Works(d)
      PROVE  /\ run'[r].st # "none" /\ run'[r].sess = run[r].sess
             /\ run[r].armed => run'[r].armed
  <2>1. CASE Arms(d)
    BY <2>1 DEF Arms
  <2>2. CASE \E q \in Run : Admits(d, q)
    BY <2>2 DEF Admits
  <2>3. CASE RunsKept \/ UNCHANGED run
    BY <1>1, <1>2, <2>3
  <2> QED
    BY <1>5, <2>1, <2>2, <2>3 DEF Works, Quit, Enters, Flips, Accepted, Persists,
       Abandons, Follows, Replaces, Retires, Pass
<1> QED
  BY <1>3, <1>4, <1>5, Sorts
\* Who opens a tail.
LEMMA TailBirths ==
  ASSUME Shape, Step, NEW r \in Run, tail[r].st = "none", tail'[r].st # "none"
  PROVE  \/ \E d \in Disp : /\ Abandons(d) /\ r = disp[d].run
                            /\ tail'[r].st = "observe" /\ run'[r].st \in Terminal
         \/ \E d \in Disp : /\ Follows(d) /\ r = disp[d].run /\ tail'[r].st = "pre"
         \/ \E row \in recon.rows : /\ Sweeps(row) /\ r = row.run /\ row.id
                                    /\ tail'[r].st = "pre"
         \/ /\ TailMove(r) /\ tail'[r].st = "observe" /\ run[r].owed
            /\ lock[run[r].sess] = None /\ sess[run[r].sess].id
<1>1. tail'[r] # tail[r] /\ tail'[r] # NoTail
  BY DEF NoTail
<1>2. CASE Settles \/ EveActs
  BY <1>1, <1>2 DEF Settles, EveActs, EveStarts, EveEnds, EveAcceptsLate, others
<1>3. CASE Reboots
  BY <1>1, <1>3 DEF Reboots
<1>4. CASE Reconciles
  <2>1. PICK row \in recon.rows : Sweeps(row)
    BY <1>1, <1>4 DEF Reconciles, ReconSelects, ReconSelectsEveless, Heals
  <2>2. TailsStart(row.run) /\ row.id
    BY <1>1, <2>1 DEF Sweeps
  <2> QED
    BY <1>1, <2>1, <2>2 DEF TailsStart
<1>5. ASSUME NEW q \in Run, TailMove(q)
      PROVE  q = r /\ tail'[r].st = "observe" /\ run[r].owed
             /\ lock[run[r].sess] = None /\ sess[run[r].sess].id
  <2>1. q = r
    BY <1>1, <1>5 DEF TailMove
  <2>2. TailTurn(r)
    BY <1>5, <2>1 DEF TailMove
  <2> QED
    BY <2>1, <2>2 DEF TailTurn
<1>6. CASE \E d \in Disp : Begins(d)
  BY <1>1, <1>6, Starts
<1>7. ASSUME NEW d \in Disp, Works(d)
      PROVE  \/ /\ Abandons(d) /\ r = disp[d].run
                /\ tail'[r].st = "observe" /\ run'[r].st \in Terminal
             \/ Follows(d) /\ r = disp[d].run /\ tail'[r].st = "pre"
  <2>1. CASE Abandons(d)
    BY <1>1, <2>1 DEF Abandons
  <2>2. CASE Follows(d)
    BY <1>1, <2>2 DEF Follows, TailsStart
  <2>3. CASE UNCHANGED tail
    BY <1>1, <2>3
  <2> QED
    BY <1>7, <2>1, <2>2, <2>3 DEF Works, Quit, Replaces, Pass, Enters, Accepted,
       Persists, Retires, Flips, Admits, Arms
<1> QED
  BY <1>2, <1>3, <1>4, <1>5, <1>6, <1>7, Sorts

\* Who parks a run.
LEMMA Parks ==
  ASSUME Shape, Step, NEW r \in Run, run'[r].st = "waiting"
  PROVE  \/ run[r].st = "waiting"
         \/ TailMove(r) /\ tail[r].st = "ended" /\ tail'[r].st = "mark"
<1>1. NoneParks => run[r].st = "waiting"
  BY DEF NoneParks
<1>2. UNCHANGED run => run[r].st = "waiting"
  OBVIOUS
<1>3. CASE Settles \/ Reboots \/ Reconciles \/ EveActs
  BY <1>1, <1>2, <1>3 DEF Settles, Reboots, Reconciles, EveActs, ReconSelects,
     ReconSelectsEveless, Sweeps, Heals, EveStarts, EveEnds, EveAcceptsLate, others,
     database
<1>4. CASE \E q \in Run : TailMove(q)
  BY <1>4 DEF TailMove
<1>5. CASE \E d \in Disp : Begins(d)
  BY <1>2, <1>5, Starts
<1>6. ASSUME NEW d \in Disp, Works(d)
      PROVE  run[r].st = "waiting"
  <2>1. CASE Arms(d)
    BY <2>1 DEF Arms
  <2>2. CASE \E q \in Run : Admits(d, q)
    BY <2>2 DEF Admits, NoRun
  <2>3. CASE NoneParks \/ UNCHANGED run
    BY <1>1, <1>2, <2>3
  <2> QED
    BY <1>6, <2>1, <2>2, <2>3 DEF Works, Quit, Enters, Flips, Accepted, Persists,
       Abandons, Follows, Replaces, Retires, Pass
<1> QED
  BY <1>3, <1>4, <1>5, <1>6, Sorts

\* A session that is read has an eve id.
LEMMA KnownByTailsStep ==
  ASSUME Inv, Step
  PROVE  KnownByTails'
<1>1. KnownByTails /\ KnownByRequests /\ KnownByRows /\ Shape
  BY DEF Inv, Known
<1> SUFFICES ASSUME NEW r \in Run, run'[r].st # "none",
                    tail'[r].st # "none" \/ run'[r].st = "waiting"
             PROVE  sess'[run'[r].sess].id
  BY DEF KnownByTails
<1>2. CASE run[r].st = "none"
  <2>1. tail[r].st = "none"
    BY <1>1, <1>2, RunRows
  <2>2. run'[r].st # "waiting"
    BY <1>1, <1>2, <2>1, Parks
  <2>3. ~run[r].owed
    BY <1>1, <1>2, RunRows
  <2>4. \A d \in Disp : Abandons(d) \/ Follows(d) => r # disp[d].run
    BY <1>1, <1>2, RunRows DEF Abandons, Follows, Owner, OwnPc
  <2>5. \A row \in recon.rows : r # row.run
    BY <1>1, <1>2 DEF Shape, RowsShape
  <2> QED
    BY <1>1, <2>1, <2>2, <2>3, <2>4, <2>5, TailBirths
<1>3. CASE run[r].st # "none"
  <2>1. run[r].sess \in Session /\ run'[r].sess = run[r].sess
    BY <1>1, <1>3, RunsOfStay DEF Shape, RunShape
  <2>2. CASE tail[r].st # "none" \/ run[r].st = "waiting"
    BY <1>1, <1>3, <2>1, <2>2, IdStays DEF KnownByTails
  <2>3. CASE tail[r].st = "none" /\ run[r].st # "waiting"
    <3>1. tail'[r].st # "none"
      BY <1>1, <2>3, Parks
    <3>2. ASSUME NEW d \in Disp, Abandons(d) \/ Follows(d), r = disp[d].run
          PROVE  sess[run[r].sess].id
      <4>1. disp[d].pc \in {"recheck", "tail"} /\ Owner(d)
        BY <3>2 DEF Abandons, Follows, Owner, OwnPc
      <4> QED
        BY <1>1, <3>2, <4>1, Request DEF KnownByRequests
    <3>3. ASSUME NEW row \in recon.rows, r = row.run, row.id
          PROVE  sess[run[r].sess].id
      BY <1>1, <3>3 DEF KnownByRows
    <3>4. sess[run[r].sess].id
      BY <1>1, <2>3, <3>1, <3>2, <3>3, TailBirths
    <3> QED
      BY <1>1, <2>1, <3>4, IdStays
  <2> QED
    BY <2>2, <2>3
<1> QED
  BY <1>2, <1>3

\* What the first sweep has still to treat.
LEMMA RowsStep ==
  ASSUME Shape, Step
  PROVE  \/ recon'.rows \subseteq recon.rows
         \/ /\ ReconSelects
            /\ recon'.rows =
                 {[run |-> r, armed |-> run[r].armed, id |-> sess[run[r].sess].id] :
                    r \in {q \in Run : run[q].st \in {"queued", "running"}}}
<1>1. recon \in ReconRec
  BY Tables
<1>2. CASE Settles \/ EveActs \/ \E r \in Run : TailMove(r)
  BY <1>2 DEF Settles, EveActs, EveStarts, EveEnds, EveAcceptsLate, others, TailMove
<1>3. CASE Reboots
  BY <1>3 DEF Reboots
<1>4. CASE ReconSelects
  BY <1>1, <1>4 DEF ReconSelects, ReconRec
<1>5. CASE ReconSelectsEveless
  BY <1>1, <1>5 DEF ReconSelectsEveless, ReconRec
<1>6. CASE \/ \E row \in recon.rows : Sweeps(row)
           \/ \E s \in Session : Heals(s)
  BY <1>6 DEF Sweeps, Heals
<1>7. CASE \E d \in Disp : Works(d) \/ Begins(d)
  BY <1>7, Movers
<1> QED
  BY <1>2, <1>3, <1>4, <1>5, <1>6, <1>7, Sorts DEF Reconciles

LEMMA KnownByRowsStep ==
  ASSUME Inv, Step
  PROVE  KnownByRows'
<1>1. KnownByRows /\ Shape
  BY DEF Inv, Known
<1>2. CASE recon'.rows \subseteq recon.rows
  <2> SUFFICES ASSUME NEW row \in recon.rows, row.id
               PROVE  sess'[run'[row.run].sess].id
    BY <1>2 DEF KnownByRows
  <2>1. row.run \in Run
    BY <1>1, Tables DEF ReconRec, RowRec
  <2>2. run[row.run].st # "none" /\ sess[run[row.run].sess].id
    BY <1>1 DEF Shape, RowsShape, KnownByRows
  <2>3. run[row.run].sess \in Session /\ run'[row.run].sess = run[row.run].sess
    BY <1>1, <2>1, <2>2, RunsOfStay DEF Shape, RunShape
  <2> QED
    BY <1>1, <2>2, <2>3, IdStays
<1>3. CASE /\ ReconSelects
           /\ recon'.rows =
                 {[run |-> r, armed |-> run[r].armed, id |-> sess[run[r].sess].id] :
                    r \in {q \in Run : run[q].st \in {"queued", "running"}}}
  <2>1. UNCHANGED <<sess, run>>
    BY <1>3 DEF ReconSelects, database
  <2> QED
    BY <1>3, <2>1 DEF KnownByRows
<1> QED
  BY <1>1, <1>2, <1>3, RowsStep
\* Who moves a tail that is open.
LEMMA TailNext ==
  ASSUME Shape, Step, NEW r \in Run, tail[r].st # "none"
  PROVE  \/ tail'[r] = tail[r] \/ tail'[r].st = "none"
         \/ TailMove(r) /\ TailTurn(r)
<1>1. NoTail.st = "none"
  BY DEF NoTail
<1>2. CASE Settles \/ EveActs
  BY <1>2 DEF Settles, EveActs, EveStarts, EveEnds, EveAcceptsLate, others
<1>3. CASE Reboots
  BY <1>1, <1>3 DEF Reboots
<1>4. CASE Reconciles
  BY <1>1, <1>4 DEF Reconciles, ReconSelects, ReconSelectsEveless, Heals, Sweeps, TailsStart
<1>5. CASE \E q \in Run : TailMove(q)
  BY <1>5 DEF TailMove
<1>6. CASE \E d \in Disp : Begins(d)
  BY <1>6, Starts
<1>7. ASSUME NEW d \in Disp, Works(d)
      PROVE  tail'[r] = tail[r] \/ tail'[r].st = "none"
  BY <1>1, <1>7 DEF Works, Abandons, Follows, TailsStart, Quit, Replaces, Pass, Enters,
     Accepted, Persists, Retires, Flips, Admits, Arms
<1> QED
  BY <1>2, <1>3, <1>4, <1>5, <1>6, <1>7, Sorts

\* A settled run stays settled; what a run owes, it owes after it was settled.
LEMMA SettledStays ==
  ASSUME Shape, Step, NEW r \in Run
  PROVE  /\ run[r].st \in Terminal => run'[r].st = run[r].st
         /\ run'[r].owed => run'[r].st \in Terminal \/ (run[r].owed /\ run'[r].st = run[r].st)
                            \/ (run[r].owed /\ run[r].st \in LiveStatus)
<1> DEFINE P == /\ run[r].st \in Terminal => run'[r].st = run[r].st
                /\ run'[r].owed => \/ run'[r].st \in Terminal
                                   \/ run[r].owed /\ run'[r].st = run[r].st
                                   \/ run[r].owed /\ run[r].st \in LiveStatus
<1>1. RunsKept => P
  BY DEF RunsKept, LiveStatus, Terminal
<1>2. UNCHANGED run => P
  OBVIOUS
<1> SUFFICES P
  OBVIOUS
<1>3. CASE Settles \/ Reboots \/ Reconciles \/ EveActs \/ \E q \in Run : TailMove(q)
  <2> HIDE DEF P
  <2> QED
    BY <1>1, <1>2, <1>3 DEF Settles, Reboots, Reconciles, EveActs, ReconSelects,
       ReconSelectsEveless, Sweeps, Heals, EveStarts, EveEnds, EveAcceptsLate, others,
       database, TailMove
<1>4. CASE \E d \in Disp : Begins(d)
  BY <1>2, <1>4, Starts
<1>5. ASSUME NEW d \in Disp, Works(d)
      PROVE  P
  <2>1. CASE Arms(d)
    BY <2>1 DEF Arms, LiveStatus, Terminal
  <2>2. CASE \E q \in Run : Admits(d, q)
    BY <2>2 DEF Admits, NoRun, Terminal
  <2>3. CASE RunsKept \/ UNCHANGED run
    BY <1>1, <1>2, <2>3
  <2> HIDE DEF P
  <2> QED
    BY <1>5, <2>1, <2>2, <2>3 DEF Works, Quit, Enters, Flips, Accepted, Persists,
       Abandons, Follows, Replaces, Retires, Pass
<1> QED
  BY <1>3, <1>4, <1>5, Sorts

\* The tails a run may have.
LEMMA TailOfRunStep ==
  ASSUME Inv, Step
  PROVE  TailOfRun'
<1>1. TailOfRun /\ TailOfOwned /\ TailOfRows /\ Shape
  BY DEF Inv, TailMode
<1> SUFFICES ASSUME NEW r \in Run
             PROVE  /\ run'[r].owed => run'[r].st \in Terminal
                    /\ run'[r].st = "waiting" => tail'[r].st \in {"none", "mark"}
                    /\ tail'[r].st \in {"observe", "stopping"} => run'[r].st \in Terminal
  BY DEF TailOfRun
<1>2. /\ run[r].owed => run[r].st \in Terminal
      /\ run[r].st = "waiting" => tail[r].st \in {"none", "mark"}
      /\ tail[r].st \in {"observe", "stopping"} => run[r].st \in Terminal
  BY <1>1 DEF TailOfRun
<1>3. run[r].st \in Terminal => run'[r].st \in Terminal
  BY <1>1, SettledStays
<1>4. run'[r].owed => run'[r].st \in Terminal
  BY <1>1, <1>2, <1>3, SettledStays DEF LiveStatus, Terminal
<1>5. ASSUME run'[r].st = "waiting", run[r].st = "waiting"
      PROVE  tail'[r].st \in {"none", "mark"}
  <2>1. run[r].st \notin Terminal /\ ~run[r].owed /\ run'[r].st \notin Terminal
    BY <1>2, <1>5 DEF Terminal
  <2>2. CASE tail[r].st = "none"
    <3>1. \A d \in Disp : ~(Follows(d) /\ r = disp[d].run)
      BY <1>1, <1>5 DEF TailOfOwned, Follows, Owner, OwnPc
    <3>2. \A row \in recon.rows : r # row.run
      BY <1>1, <1>5 DEF TailOfRows
    <3> QED
      BY <1>1, <2>1, <2>2, <3>1, <3>2, TailBirths
  <2>3. CASE tail[r].st = "mark"
    BY <1>1, <2>3, TailNext DEF TailTurn
  <2> QED
    BY <1>2, <1>5, <2>2, <2>3
<1>6. run'[r].st = "waiting" => tail'[r].st \in {"none", "mark"}
  BY <1>1, <1>5, Parks
<1>7. ASSUME tail'[r].st \in {"observe", "stopping"}
      PROVE  run'[r].st \in Terminal
  <2>1. CASE tail[r].st = "none"
    BY <1>1, <1>2, <1>3, <1>7, <2>1, TailBirths
  <2>2. CASE tail[r].st # "none"
    <3>1. CASE tail'[r] = tail[r]
      BY <1>2, <1>3, <1>7, <3>1
    <3>2. CASE TailTurn(r)
      BY <1>2, <1>3, <1>7, <2>2, <3>2 DEF TailTurn
    <3> QED
      BY <1>1, <1>7, <2>2, <3>1, <3>2, TailNext
  <2> QED
    BY <2>1, <2>2
<1> QED
  BY <1>4, <1>6, <1>7

\* How a request comes to own a run, or keeps the one it owns.
LEMMA Owners ==
  ASSUME NEW d \in Disp, Works(d), Owner(d)'
  PROVE  \/ Flips(d) \/ \E r \in Run : Admits(d, r)
         \/ Arms(d) \/ Accepted(d) \/ Persists(d) \/ \E p \in DispPc : Pass(d, p)
<1>1. disp'[d].pc \in OwnPc
  BY DEF Owner
<1>2. {"arm", "persist", "tail", "gone"} \subseteq DispPc
  BY DEF DispPc
<1>3. CASE disp'[d].pc \in {"ensure", "send", "inflight", "recheck"}
  BY <1>3, Targets
<1>4. CASE disp'[d].pc \in {"arm", "persist", "tail", "gone"}
  BY <1>2, <1>4, Targets
<1>5. CASE disp'[d].pc \in {"fail", "failrun", "failsess"}
  BY <1>5, Targets
<1> QED
  BY <1>1, <1>3, <1>4, <1>5 DEF OwnPc

\* The run a request owns has no reader.
LEMMA TailOfOwnedStep ==
  ASSUME Inv, ~EarlyTraffic, Step
  PROVE  TailOfOwned'
<1>1. TailOfRun /\ TailOfOwned /\ Shape
  BY DEF Inv, TailMode
<1> SUFFICES ASSUME NEW d \in Disp, Owner(d)'
             PROVE  run'[disp'[d].run].st # "waiting"
                    /\ tail'[disp'[d].run].st \in {"none", "mark"}
  BY DEF TailOfOwned
<1>2. ASSUME Owner(d), disp'[d].run = disp[d].run
      PROVE  run'[disp'[d].run].st # "waiting"
  <2>1. /\ disp[d].run \in Run /\ run[disp[d].run].st # "waiting"
        /\ tail[disp[d].run].st \in {"none", "mark"}
    BY <1>1, <1>2, Request DEF TailOfOwned, Owner, OwnPc
  <2>2. PICK r \in Run : r = disp[d].run
    BY <2>1
  <2> QED
    BY <1>1, <1>2, <2>1, <2>2, Parks
<1>3. CASE disp'[d] = disp[d]
  <2>1. Owner(d) /\ disp[d].pc # "idle"
    BY <1>3 DEF Owner, OwnPc
  <2>2. /\ disp[d].run \in RunsOf(disp[d].sess)
        /\ tail[disp[d].run].st \in {"none", "mark"}
    BY <1>1, <2>1, Request DEF TailOfOwned, RunsOf
  <2>3. PICK r \in RunsOf(disp[d].sess) : r = disp[d].run
    BY <2>2
  <2>4. CASE tail[r].st = "none"
    BY <1>2, <1>3, <2>1, <2>3, <2>4, Beside
  <2>5. CASE tail[r].st = "mark"
    <3>1. tail'[r].st \in {"none", "mark"}
      BY <1>1, <2>3, <2>5, TailNext DEF TailTurn, RunsOf
    <3> QED
      BY <1>2, <1>3, <2>1, <2>3, <3>1
  <2> QED
    BY <2>2, <2>3, <2>4, <2>5
<1>4. CASE Begins(d)
  <2>1. disp'[d].pc \in {"admit", "reread", "quiet"}
    BY <1>1, <1>4, Starts
  <2> QED
    BY <2>1 DEF Owner, OwnPc
<1>5. CASE Works(d)
  <2>1. CASE Flips(d)
    <3>1. /\ disp[d].run \in Run /\ disp'[d].run = disp[d].run
          /\ run[disp[d].run].st = "waiting" /\ run'[disp[d].run].st = "queued"
          /\ UNCHANGED tail
      BY <1>1, <2>1 DEF Flips, Shape, RequestShape, RequestOf
    <3> QED
      BY <1>1, <3>1 DEF TailOfRun
  <2>2. ASSUME NEW r \in Run, Admits(d, r)
        PROVE  run'[disp'[d].run].st # "waiting"
               /\ tail'[disp'[d].run].st \in {"none", "mark"}
    <3>1. run[r].st = "none" /\ disp'[d].run = r /\ run'[r].st = "queued" /\ UNCHANGED tail
      BY <2>2 DEF Admits, NoRun
    <3> QED
      BY <1>1, <3>1, RunRows
  <2>3. CASE Arms(d) \/ Accepted(d) \/ Persists(d) \/ \E p \in DispPc : Pass(d, p)
    <3>1. Owner(d) /\ disp'[d].run = disp[d].run /\ UNCHANGED tail
      BY <2>3 DEF Arms, Accepted, Persists, Pass, Moves, Owner, OwnPc
    <3> QED
      BY <1>1, <1>2, <3>1 DEF TailOfOwned
  <2> QED
    BY <1>5, <2>1, <2>2, <2>3, Owners
<1> QED
  BY <1>3, <1>4, <1>5, Turn DEF Owner, OwnPc, Idle
\* The rows of the first sweep, and the tails while it works.
LEMMA TailOfRowsStep ==
  ASSUME Inv, Step
  PROVE  TailOfRows'
<1>1. TailOfRun /\ TailOfRows /\ BootQuiet /\ Shape
  BY DEF Inv, TailMode
<1>2. recon \in ReconRec
  BY <1>1, Tables
<1>3. ASSUME NEW d \in Disp, Abandons(d) \/ Follows(d)
      PROVE  recon.pc = "done" /\ recon.rows = {}
  BY <1>3, SweepOver DEF Abandons, Follows
<1>4. ASSUME NEW r \in Run, tail[r].st \in {"none", "observe"}, recon.pc # "done",
             \A row \in recon.rows : Sweeps(row) => row.run # r
      PROVE  tail'[r].st \in {"none", "observe"}
  <2>1. CASE tail[r].st = "none"
    BY <1>1, <1>3, <1>4, <2>1, TailBirths
  <2>2. CASE tail[r].st = "observe"
    BY <1>1, <2>2, TailNext DEF TailTurn
  <2> QED
    BY <1>4, <2>1, <2>2
<1>5. recon'.pc = "boot" => \A r \in Run : tail'[r].st \in {"none", "observe"}
  <2> SUFFICES ASSUME recon'.pc = "boot", NEW r \in Run
               PROVE  tail'[r].st \in {"none", "observe"}
    OBVIOUS
  <2>1. CASE Reboots
    BY <2>1 DEF Reboots, NoTail
  <2>2. CASE ~Reboots
    <3>1. recon.pc = "boot"
      <4>1. CASE Settles \/ EveActs \/ \E q \in Run : TailMove(q)
        BY <4>1 DEF Settles, EveActs, EveStarts, EveEnds, EveAcceptsLate, others, TailMove
      <4>2. CASE Reconciles
        BY <1>2, <4>2 DEF Reconciles, ReconSelects, ReconSelectsEveless, Sweeps, Heals,
           ReconRec
      <4>3. CASE \E d \in Disp : Works(d) \/ Begins(d)
        BY <4>3, Movers
      <4> QED
        BY <2>2, <4>1, <4>2, <4>3, Sorts
    <3>2. tail[r].st \in {"none", "observe"}
      BY <1>1, <3>1 DEF TailOfRows
    <3>3. \A row \in recon.rows : ~Sweeps(row)
      BY <3>1 DEF Sweeps
    <3> QED
      BY <1>4, <3>1, <3>2, <3>3
  <2> QED
    BY <2>1, <2>2
<1>6. CASE /\ ReconSelects
           /\ recon'.rows =
                 {[run |-> r, armed |-> run[r].armed, id |-> sess[run[r].sess].id] :
                    r \in {q \in Run : run[q].st \in {"queued", "running"}}}
  <2>1. UNCHANGED <<run, tail>> /\ recon.pc = "boot"
    BY <1>6 DEF ReconSelects, database
  <2>2. \A r \in Run : tail[r].st \in {"none", "observe"}
    BY <1>1, <2>1 DEF TailOfRows
  <2>3. \A row \in recon'.rows : /\ run'[row.run].st # "waiting"
                                 /\ tail'[row.run].st \in {"none", "observe"}
    BY <1>6, <2>1, <2>2
  <2>4. \A x, y \in recon'.rows : x.run = y.run => x = y
    BY <1>6
  <2> QED
    BY <1>5, <2>3, <2>4 DEF TailOfRows
<1>7. CASE recon'.rows \subseteq recon.rows
  <2>1. ASSUME NEW row \in recon'.rows
        PROVE  /\ run'[row.run].st # "waiting"
               /\ tail'[row.run].st \in {"none", "observe"}
    <3>1. /\ row \in recon.rows /\ row.run \in Run /\ recon.pc = "runs"
          /\ run[row.run].st # "waiting" /\ tail[row.run].st \in {"none", "observe"}
      BY <1>1, <1>2, <1>7, <2>1 DEF TailOfRows, BootQuiet, ReconRec, RowRec
    <3>2. \A x \in recon.rows : Sweeps(x) => x.run # row.run
      <4>1. \A x \in recon.rows : Sweeps(x) => x # row
        BY <2>1 DEF Sweeps
      <4> QED
        BY <1>1, <3>1, <4>1 DEF TailOfRows
    <3>3. PICK r \in Run : r = row.run
      BY <3>1
    <3>4. tail'[r].st \in {"none", "observe"}
      BY <1>4, <3>1, <3>2, <3>3
    <3>5. run'[r].st # "waiting"
      BY <1>1, <3>1, <3>3, Parks
    <3> QED
      BY <3>3, <3>4, <3>5
  <2>2. \A x, y \in recon'.rows : x.run = y.run => x = y
    BY <1>1, <1>7 DEF TailOfRows
  <2> QED
    BY <1>5, <2>1, <2>2 DEF TailOfRows
<1> QED
  BY <1>1, <1>6, <1>7, RowsStep

-----------------------------------------------------------------------------
(* eve.                                                                    *)

\* What a step does to the eve session behind a row.
EveSteady(s) ==
    /\ eve'[s].creates = eve[s].creates /\ (eve'[s].dead <=> eve[s].dead)
    /\ eve'[s].queue = eve[s].queue /\ eve'[s].open = eve[s].open
    /\ eve'[s].log = eve[s].log
    /\ \/ eve'[s].cur = eve[s].cur
       \/ eve[s].cur < Len(eve[s].log) /\ eve'[s].cur = eve[s].cur + 1
EveTakes(s, r, n) ==
    /\ eve'[s].creates = eve[s].creates + n
    /\ (eve'[s].dead <=> eve[s].dead) /\ eve'[s].log = eve[s].log
    /\ eve'[s].open = eve[s].open /\ eve'[s].queue = Append(eve[s].queue, r)
    /\ eve'[s].cur = eve[s].cur
EveOpens(s) ==
    /\ eve[s].queue # <<>> /\ eve[s].open = None
    /\ eve'[s].creates = eve[s].creates /\ (eve'[s].dead <=> eve[s].dead)
    /\ eve'[s].open = Head(eve[s].queue) /\ eve'[s].queue = Tail(eve[s].queue)
    /\ eve'[s].cur = eve[s].cur
    /\ \E e \in Event : /\ e.type = "start" /\ e.run = Head(eve[s].queue)
                        /\ eve'[s].log = Append(eve[s].log, e)
EveCloses(s) ==
    /\ eve[s].open # None
    /\ eve'[s].creates = eve[s].creates /\ eve'[s].open = None
    /\ eve'[s].queue = IF eve'[s].dead THEN <<>> ELSE eve[s].queue
    /\ eve'[s].cur = eve[s].cur
    /\ \E e \in Event : /\ e.type = "end" /\ e.run = eve[s].open
                        /\ eve'[s].log = Append(eve[s].log, e)
                        /\ eve'[s].dead <=> e.out \in Dying
EveRetired(s) ==
    /\ eve'[s].creates = eve[s].creates /\ eve'[s].log = eve[s].log
    /\ eve'[s].dead /\ eve'[s].open = None /\ eve'[s].queue = <<>>
    /\ eve'[s].cur = eve[s].cur

LEMMA EveTurn ==
  ASSUME Inv, Step, NEW s \in Session
  PROVE  \/ EveSteady(s)
         \/ EveOpens(s) /\ EveActs
         \/ EveCloses(s) /\ EveActs
         \/ \E d \in Disp : Accepted(d) /\ disp[d].sess = s
                            /\ EveTakes(s, disp[d].run, IF disp[d].id THEN 0 ELSE 1)
         \/ \E r \in limbo : /\ EveAcceptsLate(r) /\ run[r].sess = s /\ ~eve[s].dead
                             /\ limbo' = limbo \ {r}
                             /\ EveTakes(s, r, IF sess[s].id THEN 0 ELSE 1)
         \/ \E d \in Disp : Retires(d) /\ disp[d].sess = s /\ EveRetired(s)
<1>1. Shape
  BY DEF Inv
<1>2. eve \in [Session -> EveRec] /\ sess \in [Session -> SessRec]
      /\ disp \in [Disp -> DispRec]
  BY <1>1, Tables
<1>3. eve'[s] = eve[s] => EveSteady(s)
  BY DEF EveSteady
<1>4. CASE Settles \/ Reboots \/ Reconciles \/ \E d \in Disp : Begins(d)
  BY <1>1, <1>3, <1>4, Starts DEF Settles, Reboots, Reconciles, ReconSelects,
     ReconSelectsEveless, Sweeps, Heals
<1>5. CASE \E r \in Run : TailMove(r)
  BY <1>5 DEF TailMove, EveSteady
<1>6. ASSUME NEW x \in Session, EveStarts(x)
      PROVE  EveSteady(s) \/ (EveOpens(s) /\ EveActs)
  <2>1. EveActs
    BY <1>6 DEF EveActs
  <2>2. CASE x # s
    BY <1>1, <1>3, <1>6, <2>2, EveStartsStep
  <2>3. CASE x = s
    <3> DEFINE e == [type |-> "start", out |-> "none", run |-> Head(eve[s].queue)]
    <3>1. /\ eve[s].queue # <<>> /\ eve[s].open = None
          /\ eve'[s].creates = eve[s].creates /\ (eve'[s].dead <=> eve[s].dead)
          /\ eve'[s].open = Head(eve[s].queue) /\ eve'[s].queue = Tail(eve[s].queue)
          /\ eve'[s].cur = eve[s].cur
          /\ eve'[s].log = Append(eve[s].log, e)
      BY <1>1, <1>6, <2>3, EveStartsStep
    <3>2. eve[s].queue \in Seq(Run)
      BY <1>2 DEF EveRec
    <3>3. e \in Event /\ e.type = "start" /\ e.run = Head(eve[s].queue)
      BY <3>1, <3>2 DEF Event
    <3> HIDE DEF e
    <3> QED
      BY <2>1, <3>1, <3>3 DEF EveOpens
  <2> QED
    BY <2>2, <2>3
<1>7. ASSUME NEW x \in Session, NEW out \in Outcome, EveEnds(x, out)
      PROVE  EveSteady(s) \/ (EveCloses(s) /\ EveActs)
  <2>1. EveActs
    BY <1>7 DEF EveActs
  <2>2. CASE x # s
    BY <1>1, <1>3, <1>7, <2>2, EveEndsStep
  <2>3. CASE x = s
    <3> DEFINE e == [type |-> "end", out |-> out, run |-> eve[s].open]
    <3>1. /\ eve[s].open # None
          /\ eve'[s].creates = eve[s].creates /\ eve'[s].open = None
          /\ eve'[s].dead <=> out \in Dying
          /\ eve'[s].queue = IF eve'[s].dead THEN <<>> ELSE eve[s].queue
          /\ eve'[s].cur = eve[s].cur
          /\ eve'[s].log = Append(eve[s].log, e)
      BY <1>1, <1>7, <2>3, EveEndsStep DEF Dying
    <3>2. eve[s].open \in Run /\ out \in AllOutcomes
      BY <1>2, <3>1, DispatchAssumption DEF EveRec
    <3>3. out \in Outcome \cup {"none"}
      OBVIOUS
    <3>4. e \in Event /\ e.type = "end" /\ e.out = out /\ e.run = eve[s].open
      BY <3>2, <3>3 DEF Event
    <3> HIDE DEF e
    <3> QED
      BY <2>1, <3>1, <3>4 DEF EveCloses
  <2> QED
    BY <2>2, <2>3
<1>8. ASSUME NEW r \in Run, EveAcceptsLate(r)
      PROVE  \/ EveSteady(s)
             \/ /\ r \in limbo /\ run[r].sess = s /\ ~eve[s].dead
                /\ limbo' = limbo \ {r}
                /\ EveTakes(s, r, IF sess[s].id THEN 0 ELSE 1)
  <2>1. PICK x \in Session : x = run[r].sess
    BY <1>1, <1>8, EveAcceptsLateStep
  <2>2. CASE UNCHANGED eve
    BY <1>3, <2>2
  <2>3. CASE ~eve[x].dead /\ Accept(x, r, ~sess[x].id)
    <3>1. (~sess[x].id) \in BOOLEAN
      BY <1>2 DEF SessRec
    <3>2. PICK c \in BOOLEAN : c = ~sess[x].id
      BY <3>1
    <3>3. Accept(x, r, c)
      BY <2>3, <3>2
    <3>4. /\ \A y \in Session \ {x} : eve'[y] = eve[y]
          /\ eve'[x].creates = eve[x].creates + (IF c THEN 1 ELSE 0)
          /\ (eve'[x].dead <=> eve[x].dead) /\ eve'[x].log = eve[x].log
          /\ eve'[x].open = eve[x].open /\ eve'[x].queue = Append(eve[x].queue, r)
          /\ eve'[x].cur = eve[x].cur
      BY <1>1, <3>3, AcceptRow
    <3>5. (IF c THEN 1 ELSE 0) = IF sess[x].id THEN 0 ELSE 1
      BY <3>2
    <3> QED
      BY <1>3, <1>8, <2>1, <2>3, <3>4, <3>5 DEF EveTakes, EveAcceptsLate
  <2> QED
    BY <1>8, <2>1, <2>2, <2>3 DEF EveAcceptsLate
<1>9. ASSUME NEW d \in Disp, Works(d)
      PROVE  \/ EveSteady(s)
             \/ /\ Accepted(d) /\ disp[d].sess = s
                /\ EveTakes(s, disp[d].run, IF disp[d].id THEN 0 ELSE 1)
             \/ Retires(d) /\ disp[d].sess = s /\ EveRetired(s)
  <2>1. disp[d].sess \in Session
    BY <1>1, <1>9, Movers, Request
  <2>2. PICK x \in Session : x = disp[d].sess
    BY <2>1
  <2>3. CASE Accepted(d)
    <3>1. disp[d].run \in Run /\ (~disp[d].id) \in BOOLEAN
      BY <1>1, <1>2, <2>3, Request DEF Accepted, Owner, OwnPc, DispRec
    <3>2. PICK r \in Run, c \in BOOLEAN : r = disp[d].run /\ c = ~disp[d].id
      BY <3>1
    <3>3. Accept(x, r, c)
      BY <2>2, <2>3, <3>2 DEF Accepted
    <3>4. /\ \A y \in Session \ {x} : eve'[y] = eve[y]
          /\ eve'[x].creates = eve[x].creates + (IF c THEN 1 ELSE 0)
          /\ (eve'[x].dead <=> eve[x].dead) /\ eve'[x].log = eve[x].log
          /\ eve'[x].open = eve[x].open /\ eve'[x].queue = Append(eve[x].queue, r)
          /\ eve'[x].cur = eve[x].cur
      BY <1>1, <3>3, AcceptRow
    <3>5. (IF c THEN 1 ELSE 0) = IF disp[d].id THEN 0 ELSE 1
      BY <3>2
    <3> QED
      BY <1>3, <2>2, <2>3, <3>2, <3>4, <3>5 DEF EveTakes
  <2>4. CASE Retires(d)
    <3>1. eve' = [eve EXCEPT ![x].dead = TRUE, ![x].queue = <<>>, ![x].open = None]
      BY <2>2, <2>4 DEF Retires
    <3> QED
      BY <1>1, <1>3, <2>2, <2>4, <3>1, RetireRow DEF EveRetired
  <2>5. CASE UNCHANGED eve
    BY <1>3, <2>5
  <2> QED
    BY <1>9, <2>3, <2>4, <2>5 DEF Works, Quit, Replaces, Pass, Enters,
       Persists, Flips, Admits, Arms, Abandons, Follows
<1> QED
  BY <1>4, <1>5, <1>6, <1>7, <1>8, <1>9, Sorts DEF EveActs
\* The creating send goes to a session eve has never seen.
LEMMA AcceptedAlive ==
  ASSUME Inv, NEW d \in Disp, Accepted(d)
  PROVE  ~eve[disp[d].sess].dead
<1>1. disp[d].pc = "send" /\ (disp[d].id => ~eve[disp[d].sess].dead)
  BY DEF Accepted
<1>2. disp[d].sess \in Session
  BY <1>1, Request DEF Inv
<1>3. disp[d].id <=> sess[disp[d].sess].id
  BY <1>1 DEF Inv, Known, KnownByRequests
<1>4. ~sess[disp[d].sess].id => eve[disp[d].sess].creates = 0
  BY <1>1 DEF Inv, Creates, SendArmed
<1>5. eve[disp[d].sess].creates = 0 => ~eve[disp[d].sess].dead
  BY <1>2 DEF Inv, Creates, CreatesOnce
<1> QED
  BY <1>1, <1>3, <1>4, <1>5

LEMMA DeadEveStep ==
  ASSUME Inv, Step
  PROVE  DeadEve' /\ \A s \in Session : eve[s].dead => eve'[s].dead
<1>1. DeadEve /\ Shape
  BY DEF Inv, Deaths
<1> SUFFICES ASSUME NEW s \in Session
             PROVE  /\ eve'[s].dead => eve'[s].open = None /\ eve'[s].queue = <<>>
                    /\ \A i \in 1 .. Len(eve'[s].log) :
                         eve'[s].log[i].type = "end" /\ eve'[s].log[i].out \in Dying
                           => eve'[s].dead
                    /\ eve[s].dead => eve'[s].dead
  BY DEF DeadEve
<1>2. /\ eve[s].dead => eve[s].open = None /\ eve[s].queue = <<>>
      /\ \A i \in 1 .. Len(eve[s].log) :
           eve[s].log[i].type = "end" /\ eve[s].log[i].out \in Dying => eve[s].dead
  BY <1>1 DEF DeadEve
<1>3. eve[s].log \in Seq(Event)
  BY <1>1, Tables DEF EveRec
<1>4. ASSUME NEW e \in Event, eve'[s].log = Append(eve[s].log, e)
      PROVE  \A i \in 1 .. Len(eve'[s].log) :
               \/ i \in 1 .. Len(eve[s].log) /\ eve'[s].log[i] = eve[s].log[i]
               \/ eve'[s].log[i] = e
  BY <1>3, <1>4
<1>5. CASE EveSteady(s)
  BY <1>2, <1>5 DEF EveSteady
<1>6. CASE EveOpens(s)
  BY <1>2, <1>4, <1>6 DEF EveOpens
<1>7. CASE EveCloses(s)
  <2>1. ~eve[s].dead
    BY <1>2, <1>7 DEF EveCloses
  <2>2. PICK e \in Event : /\ e.type = "end" /\ eve'[s].log = Append(eve[s].log, e)
                           /\ eve'[s].dead <=> e.out \in Dying
    BY <1>7 DEF EveCloses
  <2> QED
    BY <1>2, <1>4, <1>7, <2>1, <2>2 DEF EveCloses
<1>8. ASSUME NEW r, NEW n, EveTakes(s, r, n), ~eve[s].dead
      PROVE  /\ ~eve'[s].dead /\ eve'[s].log = eve[s].log
  BY <1>8 DEF EveTakes
<1>9. CASE EveRetired(s)
  BY <1>9 DEF EveRetired
<1>10. CASE \E d \in Disp : Accepted(d) /\ disp[d].sess = s
                            /\ EveTakes(s, disp[d].run, IF disp[d].id THEN 0 ELSE 1)
  BY <1>2, <1>8, <1>10, AcceptedAlive
<1>11. CASE \E r \in limbo : ~eve[s].dead /\ EveTakes(s, r, IF sess[s].id THEN 0 ELSE 1)
  BY <1>2, <1>8, <1>11
<1> QED
  BY <1>5, <1>6, <1>7, <1>9, <1>10, <1>11, EveTurn

LEMMA DeadTailsStep ==
  ASSUME Inv, Step
  PROVE  DeadTails'
<1>1. DeadTails /\ DeadEve /\ Shape
  BY DEF Inv, Deaths
<1> SUFFICES ASSUME NEW r \in Run, run'[r].st # "none",
                    \/ tail'[r].st = "ended" /\ tail'[r].out \in Dying
                    \/ tail'[r].st = "mark" /\ tail'[r].out \in Dead
             PROVE  eve'[run'[r].sess].dead
  BY DEF DeadTails
<1>2. tail[r].st # "none"
  BY <1>1, TailBirths
<1>3. run[r].st # "none"
  BY <1>1, <1>2, RunRows
<1>4. run[r].sess \in Session /\ run'[r].sess = run[r].sess
  BY <1>1, <1>3, RunsOfStay DEF Shape, RunShape
<1>5. eve[run[r].sess].dead
  <2>1. CASE tail'[r].st = tail[r].st /\ tail'[r].out = tail[r].out
    BY <1>1, <1>3, <2>1 DEF DeadTails
  <2>2. CASE /\ tail[r].st = "follow" /\ tail'[r].st = "ended"
             /\ \E i \in 1 .. Len(eve[run[r].sess].log) :
                  /\ eve[run[r].sess].log[i].type = "end"
                  /\ eve[run[r].sess].log[i].out = tail'[r].out
    BY <1>1, <1>4, <2>2 DEF DeadEve
  <2>3. CASE tail[r].st = "ended" /\ tail'[r].st = "mark"
             /\ tail'[r].out = SessionStatusAt(tail[r].out)
    <3>1. tail[r].out \in Dying
      BY <2>3 DEF SessionStatusAt, Dead, Dying
    <3> QED
      BY <1>1, <1>3, <2>3, <3>1 DEF DeadTails
  <2>4. tail'[r].out = "active" => tail'[r].st # "mark"
    BY DEF Dead
  <2> QED
    BY <1>1, <1>2, <2>1, <2>2, <2>3, <2>4, TailNext DEF TailTurn
<1> QED
  BY <1>4, <1>5, DeadEveStep

\* A session that is dead before eve answers was ended by eve.
LEMMA LandingStep ==
  ASSUME Inv, ~EarlyTraffic, Step
  PROVE  Landing'
<1>1. Landing /\ DeadTails /\ Shape
  BY DEF Inv, Deaths
<1> SUFFICES ASSUME NEW d \in Disp
             PROVE  LandingOf(d)'
  BY DEF Landing
<1>2. LandingOf(d)
  BY <1>1 DEF Landing
<1>3. CASE disp'[d] = disp[d] /\ disp[d].pc # "idle"
  <2>1. PICK s \in Session : s = disp[d].sess
    BY <1>1, <1>3, Request
  <2>2. /\ HeldRow(s) /\ HeldRuns(s)
        /\ \A r \in RunsOf(s) : tail[r].st = "none" => tail'[r].st = "none"
        /\ \A r \in Run : run'[r].st # "none" /\ run'[r].sess = s => r \in RunsOf(s)
    BY <1>3, <2>1, Beside DEF RunsOf
  <2>3. ASSUME sess'[s].st \in Dead, sess[s].st \notin Dead
        PROVE  \E r \in RunsOf(s) : tail[r].st = "mark" /\ tail[r].out \in Dead
    <3>1. PICK r \in Run : /\ run[r].st # "none" /\ run[r].sess = s
                           /\ tail[r].st \in {"mark", "stopping"}
                           /\ sess'[s].st = tail[r].out
      BY <2>2, <2>3 DEF HeldRow
    <3>2. tail[r].st # "stopping"
      BY <1>1, <2>3, <3>1 DEF Shape, TailShape, Dead
    <3> QED
      BY <2>3, <3>1, <3>2 DEF RunsOf
  <2>4. CASE disp[d].pc \in {"admit", "ensure", "arm", "send"}
    <3>1. sess'[s].st \in Dead => eve[s].dead
      BY <1>1, <1>2, <2>1, <2>3, <2>4 DEF LandingOf, DeadTails, RunsOf
    <3>2. sess'[s].st \in Dead => eve'[s].dead
      BY <3>1, DeadEveStep
    <3> QED
      BY <1>3, <2>1, <2>4, <3>2 DEF LandingOf
  <2>5. CASE disp[d].pc \in {"inflight", "persist"}
    <3>1. /\ sess[s].st \notin Dead
          /\ \A r \in RunsOf(s) : ~(tail[r].st = "mark" /\ tail[r].out \in Dead)
      BY <1>2, <2>1, <2>5 DEF LandingOf
    <3>2. sess'[s].st \notin Dead
      BY <2>3, <3>1
    <3>3. ASSUME NEW r \in Run, run'[r].st # "none", run'[r].sess = s,
                 tail'[r].st = "mark", tail'[r].out \in Dead
          PROVE  FALSE
      <4>1. r \in RunsOf(s) /\ tail[r].st # "none"
        BY <2>2, <3>3
      <4>2. CASE tail'[r].st = tail[r].st /\ tail'[r].out = tail[r].out
        BY <3>1, <3>3, <4>1, <4>2
      <4>3. CASE tail[r].st = "ended" /\ run[r].st \in LiveStatus
        <5>1. r = disp[d].run
          BY <1>3, <2>1, <2>5, <4>1, <4>3 DEF Inv, SoleLive, SoleOwned, Owner, OwnPc, RunsOf
        <5>2. tail[r].st \in {"none", "mark"}
          BY <2>5, <5>1 DEF Inv, TailMode, TailOfOwned, Owner, OwnPc
        <5> QED
          BY <4>3, <5>2
      <4>4. tail'[r].out # "active"
        BY <3>3 DEF Dead
      <4> QED
        BY <1>1, <3>3, <4>1, <4>2, <4>3, <4>4, TailNext DEF TailTurn
    <3> QED
      BY <1>3, <2>1, <2>5, <3>2, <3>3 DEF LandingOf, RunsOf
  <2> QED
    BY <1>3, <2>4, <2>5 DEF LandingOf
<1>4. CASE disp'[d].pc = "idle"
  BY <1>4 DEF LandingOf
<1>5. CASE Begins(d)
  <2>1. PICK s \in Session :
           /\ disp'[d].sess = s /\ sess'[s] = sess[s]
           /\ disp'[d].pc \in {"admit", "reread", "quiet"}
           /\ \/ TakesFresh(d, s) \/ TakesSession(d, s) \/ TakesQuiet(d, s)
              \/ \E r \in Run : run[r].sess = s /\ TakesParked(d, r)
    BY <1>1, <1>5, Starts
  <2>2. disp'[d].pc = "admit" => sess[s].st \notin Dead
    BY <2>1 DEF TakesFresh, TakesSession, TakesQuiet, TakesParked, Takes, Dead
  <2> QED
    BY <2>1, <2>2 DEF LandingOf
<1>6. CASE Works(d) /\ disp'[d].pc # "idle"
  <2>1. disp'[d].sess = disp[d].sess /\ disp[d].sess \in Session
    BY <1>1, <1>6, Movers, Targets, Request
  <2>2. PICK s \in Session : s = disp[d].sess
    BY <2>1
  <2>3. CASE disp'[d].pc \in {"admit", "ensure", "arm", "send"}
    <3>1. sess'[s].st \in Dead => sess[s].st \in Dead /\ disp[d].pc \in {"admit", "ensure", "arm"}
      <4>1. CASE disp'[d].pc = "admit"
        BY <1>6, <2>2, <4>1, Targets DEF Enters
      <4>2. CASE disp'[d].pc = "ensure"
        <5>1. Flips(d) \/ \E r \in Run : Admits(d, r)
          BY <1>6, <4>2, Targets
        <5> QED
          BY <2>2, <5>1 DEF Flips, Admits, Dead
      <4>3. CASE disp'[d].pc = "arm"
        BY <1>6, <2>2, <4>3, Targets DEF Pass
      <4>4. CASE disp'[d].pc = "send"
        BY <1>6, <2>2, <4>4, Targets DEF Arms
      <4> QED
        BY <2>3, <4>1, <4>2, <4>3, <4>4
    <3>2. sess'[s].st \in Dead => eve'[s].dead
      BY <1>2, <2>2, <3>1, DeadEveStep DEF LandingOf
    <3> QED
      BY <2>1, <2>2, <2>3, <3>2 DEF LandingOf
  <2>4. CASE disp'[d].pc = "inflight"
    <3>1. Accepted(d)
      BY <1>6, <2>4, Targets
    <3>2. ~eve[s].dead /\ disp[d].pc = "send" /\ UNCHANGED <<sess, run, tail>>
      BY <2>2, <3>1, AcceptedAlive DEF Accepted
    <3>3. sess[s].st \notin Dead
      BY <1>2, <2>2, <3>2 DEF LandingOf
    <3>4. \A r \in RunsOf(s) : ~(tail[r].st = "mark" /\ tail[r].out \in Dead)
      BY <1>1, <3>2 DEF DeadTails, RunsOf
    <3> QED
      BY <2>1, <2>2, <2>4, <3>2, <3>3, <3>4 DEF LandingOf, RunsOf
  <2>5. CASE disp'[d].pc = "persist"
    <3>1. disp[d].pc = "inflight" /\ Pass(d, "persist")
      BY <1>6, <2>5, Targets
    <3>2. sess'[s] = sess[s] /\ RunsKept /\ UNCHANGED tail
      BY <2>2, <3>1 DEF Pass
    <3>3. \A r \in Run : run'[r].st # "none" /\ run'[r].sess = s => r \in RunsOf(s)
      BY <3>2 DEF RunsKept, RunsOf, LiveStatus
    <3> QED
      BY <1>2, <2>1, <2>2, <2>5, <3>1, <3>2, <3>3 DEF LandingOf, RunsOf
  <2> QED
    BY <2>3, <2>4, <2>5 DEF LandingOf
<1> QED
  BY <1>3, <1>4, <1>5, <1>6, Turn DEF Idle
-----------------------------------------------------------------------------
(* Sessions without an eve id.                                             *)

\* The newest run is the one no other exceeds.
LEMMA NewestIs ==
  ASSUME NEW s, NEW r \in RunsOf(s), \A q \in RunsOf(s) : q <= r
  PROVE  Newest(s) = r
<1>1. \A q \in RunsOf(s) : q \in Nat
  BY Numbers DEF RunsOf
<1>2. \A q \in RunsOf(s) : (\A p \in RunsOf(s) : p <= q) => q = r
  BY <1>1
<1> QED
  BY <1>2 DEF Newest

\* Who writes the marker.
LEMMA Armings ==
  ASSUME Shape, Step, NEW r \in Run, run'[r].armed
  PROVE  \/ run[r].armed
         \/ \E d \in Disp : Arms(d) /\ r = disp[d].run
<1>1. RunsKept => run[r].armed
  BY DEF RunsKept
<1>2. UNCHANGED run => run[r].armed
  OBVIOUS
<1>3. CASE Settles \/ Reboots \/ Reconciles \/ EveActs \/ \E q \in Run : TailMove(q)
  BY <1>1, <1>2, <1>3 DEF Settles, Reboots, Reconciles, EveActs, ReconSelects,
     ReconSelectsEveless, Sweeps, Heals, EveStarts, EveEnds, EveAcceptsLate, others,
     database, TailMove
<1>4. CASE \E d \in Disp : Begins(d)
  BY <1>2, <1>4, Starts
<1>5. ASSUME NEW d \in Disp, Works(d)
      PROVE  run[r].armed \/ (Arms(d) /\ r = disp[d].run)
  <2>1. CASE Arms(d)
    BY <2>1 DEF Arms
  <2>2. CASE \E q \in Run : Admits(d, q)
    BY <2>2 DEF Admits, NoRun
  <2>3. CASE RunsKept \/ UNCHANGED run
    BY <1>1, <1>2, <2>3
  <2> QED
    BY <1>5, <2>1, <2>2, <2>3 DEF Works, Quit, Enters, Flips, Accepted, Persists,
       Abandons, Follows, Replaces, Retires, Pass
<1> QED
  BY <1>3, <1>4, <1>5, Sorts

\* Who makes a run live.
LEMMA Births ==
  ASSUME Shape, Step, NEW r \in Run, run'[r].st # "none"
  PROVE  \/ \E d \in Disp : Admits(d, r) /\ run[r].st = "none"
         \/ run[r].st # "none" /\ (run'[r].st \in LiveStatus => run[r].st \in LiveStatus)
<1>1. RunsKept => run[r].st # "none" /\ (run'[r].st \in LiveStatus => run[r].st \in LiveStatus)
  BY DEF RunsKept, LiveStatus, Terminal
<1>2. UNCHANGED run => run[r].st # "none" /\ (run'[r].st \in LiveStatus => run[r].st \in LiveStatus)
  OBVIOUS
<1>3. CASE Settles \/ Reboots \/ Reconciles \/ EveActs \/ \E q \in Run : TailMove(q)
  BY <1>1, <1>2, <1>3 DEF Settles, Reboots, Reconciles, EveActs, ReconSelects,
     ReconSelectsEveless, Sweeps, Heals, EveStarts, EveEnds, EveAcceptsLate, others,
     database, TailMove
<1>4. CASE \E d \in Disp : Begins(d)
  BY <1>2, <1>4, Starts
<1>5. ASSUME NEW d \in Disp, Works(d)
      PROVE  \/ Admits(d, r) /\ run[r].st = "none"
             \/ run[r].st # "none" /\ (run'[r].st \in LiveStatus => run[r].st \in LiveStatus)
  <2>1. CASE Arms(d)
    BY <2>1 DEF Arms, LiveStatus
  <2>2. CASE \E q \in Run : Admits(d, q)
    BY <2>2 DEF Admits
  <2>3. CASE RunsKept \/ UNCHANGED run
    BY <1>1, <1>2, <2>3
  <2> QED
    BY <1>5, <2>1, <2>2, <2>3 DEF Works, Quit, Enters, Flips, Accepted, Persists,
       Abandons, Follows, Replaces, Retires, Pass
<1> QED
  BY <1>3, <1>4, <1>5, Sorts

\* A dead session without an eve id is never revived.
LEMMA EvelessDead ==
  ASSUME Inv, Step, NEW s \in Session, ~sess'[s].id, sess[s].st \in Dead
  PROVE  sess'[s].st \in Dead
<1>1. Shape /\ KnownByTails
  BY DEF Inv, Known
<1>2. sess \in [Session -> SessRec]
  BY <1>1, Tables
<1>3. sess'[s] = sess[s] => sess'[s].st \in Dead
  OBVIOUS
<1>4. CASE Settles \/ Reboots \/ Reconciles \/ EveActs
  BY <1>3, <1>4 DEF Settles, Reboots, Reconciles, EveActs, ReconSelects,
     ReconSelectsEveless, Sweeps, Heals, Closing, EveStarts, EveEnds, EveAcceptsLate,
     others, database
<1>5. ASSUME NEW r \in Run, TailMove(r)
      PROVE  sess'[s].st \in Dead
  <2>1. tail[r].st # "none" => sess[run[r].sess].id
    BY <1>1, RunRows DEF KnownByTails
  <2>2. s = run[r].sess => ~sess[s].id \/ sess'[s].id
    BY <1>1, IdStays
  <2> QED
    BY <1>3, <1>5, <2>1, <1>1, IdStays DEF TailMove
<1>6. CASE \E d \in Disp : Begins(d)
  BY <1>3, <1>6 DEF Begins, TakesFresh, TakesSession, TakesQuiet, TakesParked, Takes,
     Closing
<1>7. ASSUME NEW d \in Disp, Works(d)
      PROVE  sess'[s].st \in Dead
  <2>1. CASE Persists(d)
    BY <1>2, <2>1 DEF Persists, casSessionLive
  <2>2. CASE Replaces(d)
    BY <1>3, <2>2 DEF Replaces, Closing, Dead
  <2>3. CASE Quit(d) \/ Abandons(d) \/ \E p \in DispPc : Pass(d, p)
    BY <1>3, <2>3 DEF Quit, Abandons, Pass, Closing
  <2>4. ASSUME NEW r \in Run, Admits(d, r)
        PROVE  sess'[s].st \in Dead
    <3>1. disp[d].pc = "admit" /\ (disp[d].kind \in Fresh <=> sess[disp[d].sess].st = "none")
      BY <1>1, <2>4 DEF Admits, Shape, RequestShape, RequestOf
    <3> QED
      BY <2>4, <3>1 DEF Admits, Dead
  <2>5. CASE Enters(d) \/ Flips(d) \/ Arms(d) \/ Accepted(d) \/ Follows(d) \/ Retires(d)
    BY <1>3, <2>5 DEF Enters, Flips, Arms, Accepted, Follows, Retires
  <2> QED
    BY <1>7, <2>1, <2>2, <2>3, <2>4, <2>5 DEF Works
<1> QED
  BY <1>4, <1>5, <1>6, <1>7, Sorts

\* The rows of the first sweep: how one leaves, and how the sweep begins.
LEMMA SweepTurn ==
  ASSUME Inv, Step, ~Reboots
  PROVE  /\ recon.pc = "boot" => recon'.pc = "boot" \/ ReconSelects
         /\ \A row \in recon.rows : row \in recon'.rows \/ Sweeps(row)
<1>1. Shape /\ BootQuiet
  BY DEF Inv
<1>2. recon \in ReconRec
  BY <1>1, Tables
<1>3. CASE Settles \/ EveActs \/ \E r \in Run : TailMove(r)
  BY <1>3 DEF Settles, EveActs, EveStarts, EveEnds, EveAcceptsLate, others, TailMove
<1>4. CASE ReconSelects
  BY <1>1, <1>4 DEF ReconSelects, BootQuiet
<1>5. CASE ReconSelectsEveless
  BY <1>5 DEF ReconSelectsEveless
<1>6. CASE \/ \E row \in recon.rows : Sweeps(row)
           \/ \E s \in Session : Heals(s)
  BY <1>6 DEF Sweeps, Heals
<1>7. CASE \E d \in Disp : Works(d) \/ Begins(d)
  BY <1>7, Movers
<1> QED
  BY <1>3, <1>4, <1>5, <1>6, <1>7, Sorts DEF Reconciles

\* One run of a session without an eve id is armed.
LEMMA SoleArmedStep ==
  ASSUME Inv, Step
  PROVE  SoleArmed'
<1>1. SoleArmed /\ UnarmedBefore /\ Shape
  BY DEF Inv, Eveless
<1>2. \A r \in Run : run[r].armed => run[r].st # "none" /\ run[r].sess \in Session
  BY <1>1 DEF Shape, RunShape
<1> SUFFICES ASSUME NEW r \in Run, NEW q \in Run, run'[r].armed, run'[q].armed,
                    run'[r].sess = run'[q].sess, ~sess'[run'[r].sess].id
             PROVE  r = q
  BY DEF SoleArmed
<1>3. CASE run[r].armed /\ run[q].armed
  <2>1. /\ run[r].sess = run[q].sess /\ run[r].sess \in Session
        /\ run'[r].sess = run[r].sess
    BY <1>1, <1>2, <1>3, RunsOfStay
  <2>2. ~sess[run[r].sess].id
    BY <1>1, <2>1, IdStays
  <2> QED
    BY <1>1, <1>3, <2>1, <2>2 DEF SoleArmed
<1>4. ASSUME NEW d \in Disp, Arms(d), NEW x \in Run, NEW y \in Run, x = disp[d].run,
             run'[y].armed, run'[x].sess = run'[y].sess, ~sess'[run'[x].sess].id
      PROVE  x = y
  <2>1. /\ disp[d].sess \in Session /\ run[x].sess = disp[d].sess /\ disp[d].pc = "arm"
        /\ run'[x].sess = run[x].sess /\ UNCHANGED sess
        /\ \A z \in Run \ {x} : run'[z] = run[z]
    BY <1>1, <1>4, Request DEF Arms, Owner, OwnPc
  <2>2. \A z \in RunsOf(disp[d].sess) : ~run[z].armed
    BY <1>1, <1>4, <2>1 DEF UnarmedBefore
  <2>3. y # x => run[y].armed /\ run[y].sess = disp[d].sess /\ run[y].st # "none"
    BY <1>2, <1>4, <2>1
  <2> QED
    BY <2>2, <2>3 DEF RunsOf
<1> QED
  BY <1>1, <1>3, <1>4, Armings

\* A process that goes on: what a step does to one of its requests.
LEMMA TurnOn ==
  ASSUME Step, NEW d \in Disp
  PROVE  Reboots \/ disp'[d] = disp[d] \/ Works(d) \/ Begins(d)
<1>1. ASSUME NEW e \in Disp, Works(e) \/ Begins(e)
      PROVE  e = d \/ disp'[d] = disp[d]
  BY <1>1, Movers DEF Others
<1> QED
  BY <1>1, Sorts, Asides

\* A session with an armed run and still no eve id: before the step it was
\* open too, and the run was armed, or its request arms it now.
LEMMA EvelessArmed ==
  ASSUME Inv, Step, NEW r \in Run, run'[r].armed,
         ~sess'[run'[r].sess].id, sess'[run'[r].sess].st \notin Dead
  PROVE  \E s \in Session :
           /\ run[r].st # "none" /\ run[r].sess = s /\ run'[r].sess = s
           /\ ~sess[s].id /\ sess[s].st \notin Dead
           /\ run[r].armed \/ \E d \in Disp : Arms(d) /\ r = disp[d].run
<1>1. Shape
  BY DEF Inv
<1>2. run[r].st # "none"
  <2>1. CASE run[r].armed
    BY <1>1, <2>1 DEF Shape, RunShape
  <2>2. CASE \E d \in Disp : Arms(d) /\ r = disp[d].run
    BY <1>1, <2>2, RunRows DEF Arms, Owner, OwnPc
  <2> QED
    BY <1>1, <2>1, <2>2, Armings
<1>3. PICK s \in Session : s = run[r].sess
  BY <1>1, <1>2 DEF Shape, RunShape
<1>4. run'[r].sess = s
  BY <1>1, <1>2, <1>3, RunsOfStay
<1>5. ~sess[s].id
  BY <1>1, <1>4, IdStays
<1>6. sess[s].st \notin Dead
  BY <1>4, EvelessDead
<1> QED
  BY <1>1, <1>2, <1>3, <1>4, <1>5, <1>6, Armings

\* The armed run of such a session is its newest, and no other is live.
LEMMA ArmedNewest ==
  ASSUME Inv, Step, NEW r \in Run, run'[r].armed,
         ~sess'[run'[r].sess].id, sess'[run'[r].sess].st \notin Dead,
         NEW q \in RunsOf(run[r].sess)'
  PROVE  q <= r /\ (run'[q].st \in LiveStatus => q = r)
<1>1. Shape /\ ArmedAhead /\ UnarmedBefore /\ OwnedNewest /\ SoleOwned /\ KnownByRequests
  BY DEF Inv, Eveless, SoleLive, Known
<1>2. PICK s \in Session :
           /\ run[r].st # "none" /\ run[r].sess = s /\ run'[r].sess = s
           /\ ~sess[s].id /\ sess[s].st \notin Dead
           /\ run[r].armed \/ \E d \in Disp : Arms(d) /\ r = disp[d].run
  BY EvelessArmed
<1>3. q \in Run /\ run'[q].st # "none" /\ run'[q].sess = s
  BY <1>2 DEF RunsOf
<1>4. CASE run[r].armed
  <2>1. ~ \E d \in Disp : Admits(d, q) /\ run[q].st = "none"
    <3> SUFFICES ASSUME NEW d \in Disp, Admits(d, q)
                 PROVE  FALSE
      OBVIOUS
    <3>1. disp[d].pc = "admit" /\ disp[d].sess = s
      BY <1>3 DEF Admits, NoRun
    <3>2. r \in RunsOf(s)
      BY <1>2 DEF RunsOf
    <3> QED
      BY <1>1, <1>2, <1>4, <3>1, <3>2 DEF UnarmedBefore
  <2>2. run[q].st # "none" /\ (run'[q].st \in LiveStatus => run[q].st \in LiveStatus)
    BY <1>1, <1>3, <2>1, Births
  <2>3. q \in RunsOf(s)
    BY <1>1, <1>3, <2>2, RunsOfStay DEF RunsOf
  <2> QED
    BY <1>1, <1>2, <1>4, <2>2, <2>3 DEF ArmedAhead
<1>5. ASSUME NEW d \in Disp, Arms(d), r = disp[d].run
      PROVE  q <= r /\ (run'[q].st \in LiveStatus => q = r)
  <2>1. disp[d].sess = s /\ Owner(d) /\ disp[d].pc = "arm"
    BY <1>1, <1>2, <1>5, Request DEF Arms, Owner, OwnPc
  <2>2. disp[d].kind # "resume"
    BY <1>1, <1>2, <2>1 DEF KnownByRequests
  <2>3. q = r \/ run'[q] = run[q]
    BY <1>3, <1>5 DEF Arms
  <2>4. q # r => q \in RunsOf(s) /\ run[q].sess = s
    BY <1>3, <2>3 DEF RunsOf
  <2>5. q # r => q <= disp[d].run
    BY <1>1, <2>1, <2>2, <2>4 DEF OwnedNewest
  <2>6. q # r => run[q].st \notin LiveStatus
    BY <1>1, <1>3, <1>5, <2>1, <2>4 DEF SoleOwned
  <2>7. q \in Nat
    BY <1>3, Numbers
  <2> QED
    BY <1>5, <2>3, <2>5, <2>6, <2>7
<1> QED
  BY <1>2, <1>4, <1>5

\* Somebody has still to settle an armed run or to close its session.
LEMMA AheadStep ==
  ASSUME Inv, Step, NEW s \in Session, NEW r \in Run,
         run[r].st # "none", run[r].sess = s, run[r].armed,
         ~sess'[s].id, sess[s].st \notin Dead, sess'[s].st \notin Dead
  PROVE  Ahead(r)'
<1>1. Shape /\ ArmedAhead /\ KnownByRequests /\ KnownByTails /\ KnownByRows
  BY DEF Inv, Eveless, Known
<1>2. ~sess[s].id
  BY <1>1, IdStays
<1>3. Ahead(r)
  BY <1>1, <1>2 DEF ArmedAhead
<1>4. run \in [Run -> RunRec] /\ sess \in [Session -> SessRec]
  BY <1>1, Tables
<1>5. CASE Reboots
  BY <1>5 DEF Reboots, Ahead
<1>6. CASE run[r].st \in Terminal
  BY <1>1, <1>6, SettledStays DEF Ahead
<1>7. run[r].st # "waiting" /\ tail[r].st = "none"
  BY <1>1, <1>2 DEF KnownByTails
<1>8. CASE recon.pc = "boot" /\ ~Reboots
  <2>1. CASE ReconSelects
    <3>1. run[r].st \in {"queued", "running"} \/ run[r].st \in Terminal
      BY <1>4, <1>7 DEF RunRec, LiveStatus, Terminal
    <3>2. CASE run[r].st \in {"queued", "running"}
      <4>1. recon \in ReconRec
        BY <1>1, Tables
      <4>2. [run |-> r, armed |-> run[r].armed, id |-> sess[run[r].sess].id] \in recon'.rows
        BY <2>1, <3>2, <4>1 DEF ReconSelects, ReconRec
      <4> QED
        BY <4>2 DEF Ahead
    <3> QED
      BY <1>6, <3>1, <3>2
  <2> QED
    BY <1>8, <2>1, SweepTurn DEF Ahead
<1>9. ASSUME NEW row \in recon.rows, row.run = r, ~Reboots
      PROVE  Ahead(r)'
  <2>1. CASE Sweeps(row)
    <3>1. ~row.id
      BY <1>1, <1>2, <1>9 DEF KnownByRows
    <3>2. RunsKept /\ run'[r].st \notin LiveStatus
      BY <1>7, <1>9, <2>1, <3>1 DEF Sweeps
    <3>3. run'[r].st \in Terminal
      BY <1>4, <3>2 DEF RunsKept, RunRec, LiveStatus, Terminal
    <3> QED
      BY <3>3 DEF Ahead
  <2> QED
    BY <1>9, <2>1, SweepTurn DEF Ahead
<1>10. ASSUME NEW d \in Disp, disp[d].run = r, disp[d].pc \in SendPc, ~Reboots
       PROVE  Ahead(r)'
  <2>1. disp[d].sess = s /\ Owner(d) /\ disp[d].pc # "idle"
    BY <1>1, <1>10, Request DEF SendPc, Owner, OwnPc
  <2>2. CASE disp'[d] = disp[d]
    BY <1>10, <2>2 DEF Ahead
  <2>3. ~Begins(d)
    BY <2>1, Movers
  <2>4. CASE Works(d)
    <3>1. CASE Quit(d)
      BY <1>10, <2>1, <3>1 DEF Quit, Ahead
    <3>2. CASE Accepted(d)
      BY <1>10, <3>2 DEF Accepted, Moved, Ahead, SendPc
    <3>3. CASE Persists(d)
      BY <1>4, <2>1, <3>3 DEF Persists, casSessionLive, SessRec
    <3>4. ASSUME NEW p \in DispPc, Pass(d, p)
          PROVE  Ahead(r)'
      <4>1. p = "gone" => disp[d].pc = "send" /\ disp[d].id
        BY <3>4 DEF Pass, Moves
      <4>2. p # "gone"
        BY <1>1, <1>2, <2>1, <4>1 DEF KnownByRequests
      <4>3. p \in SendPc
        BY <1>10, <3>4, <4>2 DEF Pass, Moves, SendPc
      <4> QED
        BY <1>10, <3>4, <4>3 DEF Pass, Moved, Ahead
    <3>5. ~(Enters(d) \/ Flips(d) \/ Arms(d) \/ Abandons(d) \/ Follows(d) \/ Replaces(d)
            \/ Retires(d) \/ \E q \in Run : Admits(d, q))
      BY <1>10 DEF Enters, Flips, Arms, Abandons, Follows, Replaces, Retires, Admits, SendPc
    <3> QED
      BY <2>4, <3>1, <3>2, <3>3, <3>4, <3>5 DEF Works
  <2> QED
    BY <1>10, <2>2, <2>3, <2>4, TurnOn
<1> QED
  BY <1>3, <1>5, <1>6, <1>8, <1>9, <1>10 DEF Ahead

\* The armed run of an open session without an eve id.
LEMMA ArmedAheadStep ==
  ASSUME Inv, Step
  PROVE  ArmedAhead'
<1> SUFFICES ASSUME NEW r \in Run, run'[r].armed, ~sess'[run'[r].sess].id,
                    sess'[run'[r].sess].st \notin Dead
             PROVE  /\ \A q \in RunsOf(run[r].sess)' : q <= r /\ (run'[q].st \in LiveStatus => q = r)
                    /\ run'[r].sess = run[r].sess
                    /\ Ahead(r)'
  BY DEF ArmedAhead, RunsOf
<1>1. PICK s \in Session :
           /\ run[r].st # "none" /\ run[r].sess = s /\ run'[r].sess = s
           /\ ~sess[s].id /\ sess[s].st \notin Dead
           /\ run[r].armed \/ \E d \in Disp : Arms(d) /\ r = disp[d].run
  BY EvelessArmed
<1>2. ASSUME NEW d \in Disp, Arms(d), r = disp[d].run
      PROVE  Ahead(r)'
  BY <1>2 DEF Arms, Moved, Ahead, SendPc
<1>3. Ahead(r)'
  BY <1>1, <1>2, AheadStep
<1> QED
  BY <1>1, <1>3, ArmedNewest

\* No step but an admission gives a session another run.
LEMMA RunsOfKept ==
  ASSUME NEW s \in Session, RunsKept \/ UNCHANGED run \/ \E d \in Disp : Arms(d)
                                                           /\ run[disp[d].run].st # "none"
  PROVE  \A r \in RunsOf(s)' : r \in RunsOf(s)
<1>1. CASE RunsKept
  BY <1>1 DEF RunsKept, RunsOf, LiveStatus
<1>2. CASE UNCHANGED run
  BY <1>2 DEF RunsOf
<1>3. CASE \E d \in Disp : Arms(d) /\ run[disp[d].run].st # "none"
  <2>1. PICK d \in Disp : Arms(d) /\ run[disp[d].run].st # "none"
    BY <1>3
  <2>2. \A q \in Run : run'[q].st # "none" => run[q].st # "none" /\ run'[q].sess = run[q].sess
    BY <2>1 DEF Arms
  <2> QED
    BY <2>2 DEF RunsOf
<1> QED
  BY <1>1, <1>2, <1>3

\* A request that may still create finds no armed run before it.
LEMMA UnarmedBeforeStep ==
  ASSUME Inv, ~EarlyTraffic, Step
  PROVE  UnarmedBefore'
<1>1. UnarmedBefore /\ ArmedAhead /\ KnownByRequests /\ Shape
  BY DEF Inv, Eveless, Known
<1> SUFFICES ASSUME NEW d \in Disp, disp'[d].pc \in {"admit", "ensure", "arm"},
                    NEW s, disp'[d].sess = s,
                    ~sess'[s].id, NEW r \in RunsOf(s)'
             PROVE  ~run'[r].armed
  BY DEF UnarmedBefore
<1>2. CASE disp'[d] = disp[d]
  <2>1. disp[d].pc \in {"admit", "ensure", "arm"} /\ disp[d].sess = s /\ s \in Session
    BY <1>1, <1>2, Request
  <2>2. HeldRow(s) /\ HeldRuns(s) /\ RunsOf(s)' \subseteq RunsOf(s)
    BY <1>2, <2>1, Beside
  <2>3. ~sess[s].id /\ r \in RunsOf(s) /\ (run'[r].armed <=> run[r].armed)
    BY <2>2 DEF HeldRow, HeldRuns, RunsOf
  <2> QED
    BY <1>1, <2>1, <2>3 DEF UnarmedBefore
<1>3. CASE Begins(d)
  <2>1. /\ s \in Session /\ sess'[s] = sess[s] /\ UNCHANGED run
        /\ \/ TakesFresh(d, s) \/ TakesSession(d, s) \/ TakesQuiet(d, s)
           \/ \E q \in Run : run[q].sess = s /\ TakesParked(d, q)
    BY <1>1, <1>3, Starts
  <2>2. TakesFresh(d, s)
    BY <2>1 DEF TakesParked, TakesSession, TakesQuiet, Takes
  <2>3. r \in Run /\ run[r].st # "none" /\ run[r].sess = s
    BY <2>1 DEF RunsOf
  <2> QED
    BY <1>1, <2>2, <2>3 DEF TakesFresh, Shape, RunShape
<1>4. CASE Works(d)
  <2>1. disp[d].sess = s /\ disp[d].pc # "idle" /\ s \in Session
    BY <1>1, <1>4, Targets, Movers, Request
  <2>2. CASE disp'[d].pc = "admit"
    <3>1. Enters(d) /\ UNCHANGED <<sess, run>> /\ disp[d].pc = "reread"
      BY <1>4, <2>2, Targets DEF Enters
    <3>2. ~sess[s].id /\ sess[s].st \notin Dead \cup {"none"} /\ ~Abandoned(s)
      BY <1>1, <2>1, <3>1, Request DEF Enters
    <3>3. r \in RunsOf(s) /\ r \in Run /\ run[r].sess = s /\ run[r].st # "none"
      BY <3>1 DEF RunsOf
    <3>4. SUFFICES ASSUME run[r].armed
                   PROVE  FALSE
      BY <3>1
    <3>5. /\ \A q \in RunsOf(s) : q <= r /\ (run[q].st \in LiveStatus => q = r)
          /\ Ahead(r)
      BY <1>1, <3>2, <3>3, <3>4 DEF ArmedAhead
    <3>6. Newest(s) = r
      BY <3>3, <3>5, NewestIs
    <3>7. run[r].st \notin Terminal
      <4>1. ASSUME run[r].st \in Terminal
            PROVE  LiveRuns(s) = {}
        BY <3>5, <4>1 DEF LiveRuns, LiveStatus, Terminal
      <4> QED
        BY <3>2, <3>3, <3>4, <3>6, <4>1 DEF Abandoned
    <3>8. recon.pc = "done" /\ recon.rows = {}
      BY <2>1, SweepOver
    <3>9. PICK e \in Disp : disp[e].run = r /\ disp[e].pc \in SendPc
      BY <3>5, <3>7, <3>8 DEF Ahead
    <3>10. lock[s] = e /\ lock[s] = d
      BY <1>1, <2>1, <3>3, <3>9, Request DEF SendPc, Owner, OwnPc
    <3> QED
      BY <3>1, <3>9, <3>10 DEF SendPc
  <2>3. CASE disp'[d].pc = "ensure"
    <3>1. CASE Flips(d)
      BY <1>1, <2>1, <3>1, IdStays DEF Flips, KnownByRequests
    <3>2. ASSUME NEW q \in Run, Admits(d, q)
          PROVE  ~run'[r].armed
      <4>1. disp[d].pc = "admit" /\ ~sess[s].id
        BY <2>1, <3>2 DEF Admits
      <4>2. CASE r = q
        BY <3>2, <4>2 DEF Admits, NoRun
      <4>3. CASE r # q
        BY <1>1, <2>1, <3>2, <4>1, <4>3 DEF Admits, RunsOf, UnarmedBefore
      <4> QED
        BY <4>2, <4>3
    <3> QED
      BY <1>4, <2>3, <3>1, <3>2, Targets
  <2>4. CASE disp'[d].pc = "arm"
    <3>1. disp[d].pc = "ensure" /\ RunsKept /\ sess'[s] = sess[s]
      BY <1>4, <2>1, <2>4, Targets DEF Pass
    <3>2. r \in RunsOf(s) /\ (run'[r].armed <=> run[r].armed)
      BY <2>1, <3>1, RunsOfKept DEF RunsKept, RunsOf
    <3> QED
      BY <1>1, <2>1, <3>1, <3>2 DEF UnarmedBefore
  <2> QED
    BY <2>2, <2>3, <2>4
<1> QED
  BY <1>2, <1>3, <1>4, Turn DEF Idle

\* The run a request has admitted is its session's newest.
LEMMA OwnedNewestStep ==
  ASSUME Inv, Step
  PROVE  OwnedNewest'
<1>1. OwnedNewest /\ Shape
  BY DEF Inv, Eveless
<1> SUFFICES ASSUME NEW d \in Disp, Owner(d)', disp'[d].kind # "resume",
                    NEW s, disp'[d].sess = s, NEW q \in RunsOf(s)'
             PROVE  q <= disp'[d].run
  BY DEF OwnedNewest
<1>2. CASE disp'[d] = disp[d]
  <2>1. Owner(d) /\ disp[d].sess = s /\ disp[d].pc # "idle"
    BY <1>2 DEF Owner, OwnPc
  <2>2. q \in RunsOf(s)
    BY <1>2, <2>1, Beside
  <2> QED
    BY <1>1, <1>2, <2>1, <2>2 DEF OwnedNewest
<1>3. CASE Begins(d)
  BY <1>1, <1>3, Starts DEF Owner, OwnPc
<1>4. CASE Works(d)
  <2>1. disp[d].sess = s /\ disp[d].kind = disp'[d].kind /\ s \in Session
    BY <1>1, <1>4, Targets, Movers, Request DEF Owner, OwnPc
  <2>2. ASSUME NEW r \in Run, Admits(d, r)
        PROVE  q <= disp'[d].run
    <3>1. disp'[d].run = r /\ run[r].st = "none" /\ q \in Run
      BY <2>2 DEF Admits, RunsOf
    <3>2. q = r \/ run[q].st # "none"
      BY <2>2 DEF Admits, RunsOf
    <3>3. ~(r < q)
      BY <1>1, <3>1, <3>2, Numbers DEF Shape, RunShape
    <3> QED
      BY <3>1, <3>3, Numbers
  <2>3. CASE Arms(d) \/ Accepted(d) \/ Persists(d) \/ \E p \in DispPc : Pass(d, p)
    <3>1. Owner(d) /\ disp'[d].run = disp[d].run
      BY <2>3 DEF Arms, Accepted, Persists, Pass, Moves, Owner, OwnPc
    <3>2. RunsKept \/ UNCHANGED run \/ (Arms(d) /\ run[disp[d].run].st # "none")
      BY <1>1, <2>3, RunRows DEF Accepted, Persists, Pass, Arms, Owner, OwnPc
    <3>3. q \in RunsOf(s)
      BY <2>1, <3>2, RunsOfKept
    <3> QED
      BY <1>1, <2>1, <3>1, <3>3 DEF OwnedNewest
  <2> QED
    BY <1>4, <2>1, <2>2, <2>3, Owners DEF Flips
<1> QED
  BY <1>2, <1>3, <1>4, Turn DEF Idle, Owner, OwnPc
-----------------------------------------------------------------------------
(* The creates of a session.                                               *)

\* A session has been created once, or not at all and the step is eve's
\* acceptance of the one send that creates it, or none of its business.
LEMMA CreateTurn ==
  ASSUME Inv, Step, NEW s \in Session
  PROVE  \/ eve[s].creates = 1 /\ eve'[s].creates = 1
         \/ eve[s].creates = 0 /\ EveSteady(s)
         \/ \E d \in Disp : /\ Accepted(d) /\ disp[d].sess = s /\ ~sess[s].id
                            /\ eve[s].creates = 0 /\ eve'[s].creates = 1
         \/ \E r \in limbo : /\ EveAcceptsLate(r) /\ run[r].sess = s /\ ~sess[s].id
                             /\ limbo' = limbo \ {r}
                             /\ eve[s].creates = 0 /\ eve'[s].creates = 1
<1>1. Shape /\ CreatesOnce /\ LimboArmed /\ SendArmed /\ KnownByRequests
  BY DEF Inv, Creates, Known
<1>2. eve[s].creates \in {0, 1}
  <2>1. eve \in [Session -> EveRec]
    BY <1>1, Tables
  <2>2. eve[s].creates \in Nat /\ eve[s].creates <= 1
    BY <1>1, <2>1 DEF EveRec, CreatesOnce
  <2> QED
    BY <2>2
<1>3. /\ sess[s].id => eve[s].creates = 1
      /\ eve[s].creates = 0 => eve[s].queue = <<>> /\ eve[s].open = None
  BY <1>1 DEF CreatesOnce
<1>4. CASE EveSteady(s)
  BY <1>2, <1>4 DEF EveSteady
<1>5. CASE EveOpens(s) \/ EveCloses(s)
  BY <1>2, <1>3, <1>5 DEF EveOpens, EveCloses
<1>6. ASSUME NEW d \in Disp, Accepted(d), disp[d].sess = s,
             EveTakes(s, disp[d].run, IF disp[d].id THEN 0 ELSE 1)
      PROVE  \/ eve[s].creates = 1 /\ eve'[s].creates = 1
             \/ ~sess[s].id /\ eve[s].creates = 0 /\ eve'[s].creates = 1
  <2>1. /\ disp[d].id <=> sess[s].id
        /\ ~sess[s].id => eve[s].creates = 0
    BY <1>1, <1>6 DEF Accepted, KnownByRequests, SendArmed
  <2> QED
    BY <1>3, <1>6, <2>1 DEF EveTakes
<1>7. ASSUME NEW r \in limbo, run[r].sess = s,
             EveTakes(s, r, IF sess[s].id THEN 0 ELSE 1)
      PROVE  \/ eve[s].creates = 1 /\ eve'[s].creates = 1
             \/ ~sess[s].id /\ eve[s].creates = 0 /\ eve'[s].creates = 1
  <2>1. ~sess[s].id => eve[s].creates = 0
    BY <1>1, <1>7 DEF LimboArmed
  <2> QED
    BY <1>3, <1>7, <2>1 DEF EveTakes
<1>8. ASSUME NEW d \in Disp, Retires(d), disp[d].sess = s, EveRetired(s)
      PROVE  eve[s].creates = 1 /\ eve'[s].creates = 1
  BY <1>1, <1>3, <1>8 DEF Retires, KnownByRequests, EveRetired
<1> QED
  BY <1>4, <1>5, <1>6, <1>7, <1>8, EveTurn

\* An eve id appears only when a request persists it.
LEMMA IdWritten ==
  ASSUME Shape, Step, NEW x \in Session, ~sess[x].id, sess'[x].id
  PROVE  \E d \in Disp : Persists(d) /\ x = disp[d].sess
<1>1. sess \in [Session -> SessRec]
  BY Tables
<1>2. CASE Settles \/ Reboots \/ Reconciles \/ EveActs
  BY <1>2 DEF Settles, Reboots, Reconciles, EveActs, ReconSelects, ReconSelectsEveless,
     Sweeps, Heals, Closing, EveStarts, EveEnds, EveAcceptsLate, others, database
<1>3. CASE \E r \in Run : TailMove(r)
  BY <1>3 DEF TailMove
<1>4. CASE \E d \in Disp : Begins(d)
  BY <1>4 DEF Begins, TakesFresh, TakesSession, TakesQuiet, TakesParked, Takes, Closing
<1>5. ASSUME NEW d \in Disp, Works(d)
      PROVE  Persists(d) /\ x = disp[d].sess
  <2> DEFINE P == Persists(d) /\ x = disp[d].sess
  <2> SUFFICES P
    OBVIOUS
  <2>1. CASE Persists(d)
    BY <1>1, <2>1 DEF Persists, casSessionLive, SessRec
  <2>2. CASE Replaces(d)
    <3>1. [sess[x] EXCEPT !.st = "active"].id = sess[x].id
      BY <1>1 DEF SessRec
    <3>2. sess'[x].id => sess[x].id
      BY <2>2, <3>1 DEF Replaces, Closing
    <3> QED
      BY <3>2
  <2>3. CASE Quit(d) \/ Abandons(d) \/ \E p \in DispPc : Pass(d, p)
    BY <2>3 DEF Quit, Abandons, Pass, Closing
  <2>4. CASE \E r \in Run : Admits(d, r)
    BY <2>4 DEF Admits
  <2>5. CASE Enters(d) \/ Flips(d) \/ Arms(d) \/ Accepted(d) \/ Follows(d) \/ Retires(d)
    BY <2>5 DEF Enters, Flips, Arms, Accepted, Follows, Retires
  <2> HIDE DEF P
  <2> QED
    BY <1>5, <2>1, <2>2, <2>3, <2>4, <2>5 DEF Works
<1> QED
  BY <1>2, <1>3, <1>4, <1>5, Sorts

\* A session opens one eve session at most.
LEMMA CreatesOnceStep ==
  ASSUME Inv, Step
  PROVE  CreatesOnce'
<1>1. Shape /\ CreatesOnce /\ LimboArmed /\ SendArmed
  BY DEF Inv, Creates
<1> SUFFICES ASSUME NEW s \in Session
             PROVE  /\ eve'[s].creates <= 1
                    /\ sess'[s].id => eve'[s].creates = 1
                    /\ eve'[s].creates = 0 => /\ ~eve'[s].dead /\ eve'[s].queue = <<>>
                                              /\ eve'[s].open = None /\ eve'[s].log = <<>>
                    /\ eve'[s].creates = 1 => \E r \in RunsOf(s)' : run'[r].armed
  BY DEF CreatesOnce
<1>2. ASSUME NEW r \in RunsOf(s), run[r].armed
      PROVE  \E q \in RunsOf(s)' : run'[q].armed
  BY <1>1, <1>2, RunsOfStay DEF RunsOf
<1>3. sess'[s].id => eve[s].creates = 1
  BY <1>1, IdWritten DEF CreatesOnce, SendArmed, Persists
<1>4. CASE eve[s].creates = 1 /\ eve'[s].creates = 1
  <2>1. PICK r \in RunsOf(s) : run[r].armed
    BY <1>1, <1>4 DEF CreatesOnce
  <2> QED
    BY <1>2, <1>4, <2>1
<1>5. CASE eve[s].creates = 0 /\ EveSteady(s)
  BY <1>1, <1>3, <1>5 DEF EveSteady, CreatesOnce
<1>6. ASSUME NEW d \in Disp, Accepted(d), disp[d].sess = s
      PROVE  \E r \in RunsOf(s) : run[r].armed
  <2>1. disp[d].pc = "send" /\ Owner(d)
    BY <1>6 DEF Accepted, Owner, OwnPc
  <2>2. disp[d].run \in RunsOf(s)
    BY <1>1, <1>6, <2>1, Request DEF RunsOf
  <2> QED
    BY <1>1, <2>1, <2>2 DEF SendArmed
<1>7. ASSUME NEW r \in limbo, run[r].sess = s
      PROVE  \E q \in RunsOf(s) : run[q].armed
  <2>1. r \in Run /\ run[r].st # "none" /\ run[r].armed
    BY <1>1, Tables, RunRows DEF LimboArmed
  <2> QED
    BY <1>7, <2>1 DEF RunsOf
<1>8. CASE eve'[s].creates = 1 /\ \E r \in RunsOf(s) : run[r].armed
  BY <1>2, <1>8
<1> QED
  BY <1>4, <1>5, <1>6, <1>7, <1>8, CreateTurn

\* Which sends lose their client.
LEMMA LimboBirths ==
  ASSUME Shape, Step, NEW r \in limbo'
  PROVE  \/ r \in limbo
         \/ \E d \in Disp : /\ disp[d].pc = "send" /\ disp[d].run = r
                            /\ UNCHANGED eve
                            /\ Reboots \/ \E p \in DispPc : Pass(d, p)
<1>1. CASE Settles \/ Reconciles \/ EveActs \/ \E q \in Run : TailMove(q)
  BY <1>1 DEF Settles, Reconciles, EveActs, ReconSelects, ReconSelectsEveless, Sweeps,
     Heals, EveStarts, EveEnds, EveAcceptsLate, TailMove
<1>2. CASE Reboots
  BY <1>2 DEF Reboots
<1>3. CASE \E d \in Disp : Begins(d)
  BY <1>3, Starts
<1>4. ASSUME NEW d \in Disp, Works(d)
      PROVE  \/ r \in limbo
             \/ /\ disp[d].pc = "send" /\ disp[d].run = r /\ UNCHANGED eve
                /\ \E p \in DispPc : Pass(d, p)
  <2>1. CASE \E p \in DispPc : Pass(d, p)
    BY <2>1 DEF Pass
  <2>2. CASE UNCHANGED limbo
    BY <2>2
  <2> QED
    BY <1>4, <2>1, <2>2 DEF Works, Quit, Enters, Flips, Arms, Accepted, Persists,
       Abandons, Follows, Replaces, Retires, Admits
<1> QED
  BY <1>1, <1>2, <1>3, <1>4, Sorts

\* A send still on its way creates a session only where there is none.
LEMMA LimboArmedStep ==
  ASSUME Inv, Step
  PROVE  LimboArmed'
<1>1. Shape /\ LimboArmed /\ SendArmed /\ SoleArmed
  BY DEF Inv, Creates, Eveless
<1> SUFFICES ASSUME NEW r \in limbo'
             PROVE  run'[r].armed /\ (~sess'[run'[r].sess].id => eve'[run'[r].sess].creates = 0)
  BY DEF LimboArmed
<1>2. CASE r \in limbo
  <2>1. r \in Run /\ run[r].st # "none" /\ run[r].armed
    BY <1>1, <1>2, Tables, RunRows DEF LimboArmed
  <2>2. PICK s \in Session : s = run[r].sess
    BY <1>1, <2>1 DEF Shape, RunShape
  <2>3. run'[r].armed /\ run'[r].sess = s
    BY <1>1, <2>1, <2>2, RunsOfStay
  <2>4. SUFFICES ASSUME ~sess'[s].id
                 PROVE  eve'[s].creates = 0
    BY <2>3
  <2>5. ~sess[s].id
    BY <1>1, <2>4, IdStays
  <2>6. eve[s].creates = 0
    BY <1>1, <1>2, <2>2, <2>5 DEF LimboArmed
  <2>7. ASSUME NEW d \in Disp, Accepted(d), disp[d].sess = s
        PROVE  FALSE
    BY <1>1, <1>2, <2>2, <2>5, <2>7 DEF Accepted, SendArmed
  <2>8. ASSUME NEW q \in limbo, run[q].sess = s, limbo' = limbo \ {q}
        PROVE  FALSE
    <3>1. q \in Run /\ run[q].armed
      BY <1>1, Tables DEF LimboArmed
    <3>2. q = r
      BY <1>1, <2>1, <2>2, <2>5, <2>8, <3>1 DEF SoleArmed
    <3> QED
      BY <2>8, <3>2
  <2> QED
    BY <2>6, <2>7, <2>8, CreateTurn DEF EveSteady
<1>3. ASSUME NEW d \in Disp, disp[d].pc = "send", disp[d].run = r, UNCHANGED eve
      PROVE  run'[r].armed /\ (~sess'[run'[r].sess].id => eve'[run'[r].sess].creates = 0)
  <2>1. Owner(d) /\ disp[d].pc # "idle"
    BY <1>3 DEF Owner, OwnPc
  <2>2. /\ r \in Run /\ run[r].st # "none" /\ run[r].armed
        /\ run[r].sess = disp[d].sess /\ disp[d].sess \in Session
    BY <1>1, <1>3, <2>1, Request DEF SendArmed
  <2>3. PICK s \in Session : s = disp[d].sess
    BY <2>2
  <2>4. run'[r].armed /\ run'[r].sess = s
    BY <1>1, <2>2, <2>3, RunsOfStay
  <2>5. ~sess'[s].id => ~sess[s].id
    BY <1>1, IdStays
  <2> QED
    BY <1>1, <1>3, <2>3, <2>4, <2>5 DEF SendArmed
<1> QED
  BY <1>1, <1>2, <1>3, LimboBirths

\* A request about to send, and one whose send eve has accepted.
LEMMA SendArmedStep ==
  ASSUME Inv, Step
  PROVE  SendArmed'
<1>1. Shape /\ CreatesOnce /\ LimboArmed /\ SendArmed /\ KnownByRequests /\ UnarmedBefore
  BY DEF Inv, Creates, Eveless, Known
<1> SUFFICES ASSUME NEW d \in Disp, disp'[d].pc \in {"send", "inflight", "persist"}
             PROVE  /\ disp'[d].pc = "send" => run'[disp'[d].run].armed
                    /\ disp'[d].pc = "send" /\ ~sess'[disp'[d].sess].id =>
                         /\ eve'[disp'[d].sess].creates = 0
                         /\ \A q \in limbo' : run'[q].sess # disp'[d].sess
                    /\ disp'[d].pc \in {"inflight", "persist"} =>
                         eve'[disp'[d].sess].creates = 1
  BY DEF SendArmed
<1>2. \A q \in limbo : q \in Run /\ run[q].st # "none" /\ run[q].armed
  BY <1>1, Tables, RunRows DEF LimboArmed
<1>3. CASE disp'[d] = disp[d]
  <2>1. disp[d].pc \in {"send", "inflight", "persist"} /\ Owner(d) /\ disp[d].pc # "idle"
    BY <1>3 DEF Owner, OwnPc
  <2>2. PICK s \in Session : s = disp[d].sess /\ lock[s] = d
    BY <1>1, <2>1, Request
  <2>3. PICK r \in Run : /\ r = disp[d].run /\ run[r].st # "none" /\ run[r].sess = s
    BY <1>1, <2>1, <2>2, Request
  <2>4. \A e \in Disp : disp[e].pc # "idle" /\ disp[e].sess = s => e = d
    BY <1>1, <2>2, Request
  <2>5. CASE disp[d].pc = "send"
    <3>1. run'[r].armed
      BY <1>1, <2>3, <2>5, RunsOfStay DEF SendArmed
    <3>2. SUFFICES ASSUME ~sess'[s].id
                   PROVE  eve'[s].creates = 0 /\ \A q \in limbo' : run'[q].sess # s
      BY <1>3, <2>2, <2>3, <2>5, <3>1
    <3>3. ~sess[s].id
      BY <1>1, <3>2, IdStays
    <3>4. eve[s].creates = 0 /\ \A q \in limbo : run[q].sess # s
      BY <1>1, <2>2, <2>5, <3>3 DEF SendArmed
    <3>5. ASSUME NEW e \in Disp, Accepted(e), disp[e].sess = s
          PROVE  FALSE
      BY <1>3, <2>4, <2>5, <3>5 DEF Accepted, Moved
    <3>6. eve'[s].creates = 0
      BY <3>4, <3>5, CreateTurn DEF EveSteady
    <3>7. ASSUME NEW q \in limbo', run'[q].sess = s
          PROVE  FALSE
      <4>1. CASE q \in limbo
        BY <1>1, <1>2, <3>4, <3>7, <4>1, RunsOfStay
      <4>2. ASSUME NEW e \in Disp, disp[e].pc = "send", disp[e].run = q,
                   Reboots \/ \E p \in DispPc : Pass(e, p)
            PROVE  FALSE
        <5>1. q \in Run /\ run[q].st # "none" /\ run[q].sess = disp[e].sess
          BY <1>1, <4>2, Request DEF Owner, OwnPc
        <5>2. e = d
          BY <1>1, <2>4, <3>7, <4>2, <5>1, RunsOfStay
        <5>3. ~Reboots
          BY <1>3, <2>5 DEF Reboots, Idle
        <5>4. PICK p \in DispPc : Pass(d, p)
          BY <4>2, <5>2, <5>3
        <5>5. disp'[d].pc = p /\ <<"send", p>> \in Moves
          BY <2>5, <5>4 DEF Pass, Moved
        <5> QED
          BY <1>3, <2>5, <5>5 DEF Moves
      <4> QED
        BY <1>1, <4>1, <4>2, LimboBirths
    <3> QED
      BY <3>6, <3>7
  <2>6. CASE disp[d].pc \in {"inflight", "persist"}
    <3>1. eve[s].creates = 1
      BY <1>1, <2>2, <2>6 DEF SendArmed
    <3>2. eve'[s].creates = 1
      BY <3>1, CreateTurn
    <3> QED
      BY <1>3, <2>2, <2>6, <3>2
  <2> QED
    BY <2>1, <2>5, <2>6
<1>4. CASE Works(d)
  <2>1. disp'[d].sess = disp[d].sess /\ disp[d].pc # "idle"
    BY <1>4, Targets, Movers
  <2>2. PICK s \in Session : s = disp[d].sess
    BY <1>1, <2>1, Request
  <2>3. CASE disp'[d].pc = "send"
    <3>1. /\ Arms(d) /\ disp[d].pc = "arm" /\ Owner(d)
          /\ disp'[d].run = disp[d].run /\ UNCHANGED <<sess, eve, limbo>>
      BY <1>4, <2>3, Targets DEF Arms, Owner, OwnPc
    <3>2. run'[disp'[d].run].armed
      BY <3>1 DEF Arms
    <3>3. SUFFICES ASSUME ~sess[s].id
                   PROVE  eve[s].creates = 0 /\ \A q \in limbo : run'[q].sess # s
      BY <2>1, <2>2, <2>3, <3>1, <3>2
    <3>4. \A q \in RunsOf(s) : ~run[q].armed
      BY <1>1, <2>2, <3>1, <3>3 DEF UnarmedBefore
    <3>5. eve[s].creates # 1 /\ eve[s].creates <= 1
      BY <1>1, <3>4 DEF CreatesOnce
    <3>6. eve[s].creates \in Nat
      BY <1>1, Tables DEF EveRec
    <3>7. \A q \in limbo : run'[q].sess # s
      BY <1>1, <1>2, <3>4, RunsOfStay DEF RunsOf
    <3> QED
      BY <3>5, <3>6, <3>7
  <2>4. CASE disp'[d].pc = "inflight"
    <3>1. Accepted(d) /\ disp[d].pc = "send"
      BY <1>4, <2>4, Targets DEF Accepted
    <3>2. CASE sess[s].id
      <4>1. eve[s].creates = 1
        BY <1>1, <3>2 DEF CreatesOnce
      <4> QED
        BY <2>1, <2>2, <2>4, <4>1, CreateTurn
    <3>3. CASE ~sess[s].id
      <4>1. /\ ~disp[d].id /\ eve[s].creates = 0
        BY <1>1, <2>2, <3>1, <3>3 DEF KnownByRequests, SendArmed
      <4>2. disp[d].run \in Run
        BY <1>1, <3>1, Request DEF Owner, OwnPc
      <4>3. PICK r \in Run : r = disp[d].run
        BY <4>2
      <4>4. Accept(s, r, TRUE)
        BY <2>2, <3>1, <4>1, <4>3 DEF Accepted
      <4>5. eve'[s].creates = eve[s].creates + (IF TRUE THEN 1 ELSE 0)
        BY <1>1, <4>4, AcceptRow
      <4> QED
        BY <2>1, <2>2, <2>4, <4>1, <4>5
    <3> QED
      BY <3>2, <3>3
  <2>5. CASE disp'[d].pc = "persist"
    <3>1. disp[d].pc = "inflight" /\ UNCHANGED eve
      BY <1>4, <2>5, Targets DEF Pass
    <3> QED
      BY <1>1, <2>1, <2>5, <3>1 DEF SendArmed
  <2> QED
    BY <2>3, <2>4, <2>5
<1>5. CASE Begins(d)
  <2>1. disp'[d].pc \in {"admit", "reread", "quiet"}
    BY <1>1, <1>5, Starts
  <2> QED
    BY <2>1
<1> QED
  BY <1>3, <1>4, <1>5, Turn DEF Idle
-----------------------------------------------------------------------------
(* The invariant, and what it is for.  These results hold of a control     *)
(* plane to which no request comes while its first sweep still works:      *)
(* ~EarlyTraffic.                                                          *)

LEMMA InvInit ==
  ASSUME Init
  PROVE  Inv
<1>1. Shape
  BY ShapeInit
<1>2. SoleLive
  BY DEF Init, SoleLive, Sole, SoleOwned, NoRun, LiveStatus, Idle, Owner, OwnPc
<1>3. /\ \A d \in Disp : disp[d].pc = "idle" /\ ~Owner(d)
      /\ \A r \in Run : ~run[r].armed /\ run[r].st = "none" /\ ~run[r].owed
                        /\ tail[r].st = "none" /\ r \notin limbo
      /\ \A s \in Session : ~sess[s].id /\ eve[s] = NoEve
      /\ recon.rows = {} /\ limbo = {}
  BY DEF Init, Idle, NoRun, NoTail, NoSession, Owner, OwnPc
<1>4. BootQuiet /\ ResetHeld
  BY <1>3 DEF BootQuiet, ResetHeld
<1>5. Known
  BY <1>3 DEF Known, KnownByRequests, KnownByTails, KnownByRows
<1>6. TailMode
  BY <1>3 DEF TailMode, TailOfRun, TailOfOwned, TailOfRows
<1>7. Deaths
  <2>1. \A s \in Session : ~eve[s].dead /\ eve[s].log = <<>>
    BY <1>3 DEF NoEve
  <2>2. \A s \in Session : 1 .. Len(eve[s].log) = {}
    BY <2>1
  <2> QED
    BY <1>3, <2>1, <2>2 DEF Deaths, DeadEve, DeadTails
<1>8. Landing
  BY <1>3 DEF Landing, LandingOf
<1>9. Eveless
  BY <1>3 DEF Eveless, SoleArmed, ArmedAhead, UnarmedBefore, OwnedNewest
<1>10. Creates
  BY <1>3 DEF Creates, CreatesOnce, LimboArmed, SendArmed, NoEve
<1> QED
  BY <1>1, <1>2, <1>4, <1>5, <1>6, <1>7, <1>8, <1>9, <1>10 DEF Inv

LEMMA InvStep ==
  ASSUME ~EarlyTraffic, Inv, [Next]_vars
  PROVE  Step /\ Inv'
<1>1. Shape /\ SoleLive
  BY DEF Inv
<1>2. Step /\ Shape' /\ TypeOK'
  BY <1>1, ShapeStep DEF Shape
<1>3. SoleLive'
  BY <1>1, <1>2, SoleLiveStep
<1>4. BootQuiet' /\ ResetHeld'
  BY <1>2, BootQuietStep, ResetHeldStep
<1>5. Known'
  BY <1>2, KnownByRequestsStep, KnownByTailsStep, KnownByRowsStep DEF Known
<1>6. TailMode'
  BY <1>2, TailOfRunStep, TailOfOwnedStep, TailOfRowsStep DEF TailMode
<1>7. Deaths'
  BY <1>2, DeadEveStep, DeadTailsStep DEF Deaths
<1>8. Landing'
  BY <1>2, LandingStep
<1>9. Eveless'
  BY <1>2, SoleArmedStep, ArmedAheadStep, UnarmedBeforeStep, OwnedNewestStep DEF Eveless
<1>10. Creates'
  BY <1>2, CreatesOnceStep, LimboArmedStep, SendArmedStep DEF Creates
<1> QED
  BY <1>2, <1>3, <1>4, <1>5, <1>6, <1>7, <1>8, <1>9, <1>10 DEF Inv

\* The invariant holds at every step.
THEOREM InvariantHolds ==
  ASSUME ~EarlyTraffic
  PROVE  Spec => []Inv
<1>1. Init => Inv
  BY InvInit
<1>2. Inv /\ [Next]_vars => Inv'
  BY InvStep
<1> QED
  BY <1>1, <1>2, PTL DEF Spec

\* OneEveSessionPerRow (routes.ts failEveDispatch, dispatch.ts): a session row
\* opens at most one eve session, however sends time out and processes die.
THEOREM CreatedOnce ==
  ASSUME ~EarlyTraffic
  PROVE  Spec => []OneEveSessionPerRow
<1>1. Inv => OneEveSessionPerRow
  BY DEF Inv, Creates, CreatesOnce, OneEveSessionPerRow
<1> QED
  BY <1>1, InvariantHolds, PTL

\* ResetStaysQuiet (routes.ts withQuietSessionControl): nothing is dispatched
\* and no reader is opened between a reset's quiet check and its close.
THEOREM ResetAlone ==
  ASSUME ~EarlyTraffic
  PROVE  Spec => []ResetStaysQuiet
<1>1. Inv => ResetStaysQuiet
  BY DEF Inv, ResetHeld, ResetStaysQuiet, LiveRuns, Tails, Reading, Draining
<1> QED
  BY <1>1, InvariantHolds, PTL

\* PersistLands (dispatch.ts casSessionLive): when eve has accepted a turn,
\* nobody has closed its session, so the eve id lands.
THEOREM IdLands ==
  ASSUME ~EarlyTraffic
  PROVE  Spec => []PersistLands
<1>1. Inv => PersistLands
  BY DEF Inv, Landing, LandingOf, PersistLands
<1> QED
  BY <1>1, InvariantHolds, PTL

\* Who takes a thread's key from a session that stays open.
LEMMA KeyTaken ==
  ASSUME Shape, Step, NEW x \in Session, sess[x].key, ~sess'[x].key,
         sess'[x].st \notin Dead
  PROVE  Evictable(x) /\ sess[x].st \notin Dead
<1>1. sess \in [Session -> SessRec] /\ sess[x].st # "none"
  BY Tables DEF Shape, SessShape
<1>2. ~Closing(x) /\ sess'[x] # sess[x]
  BY DEF Closing
<1>3. ~(Settles \/ Reboots \/ Reconciles \/ EveActs)
  BY <1>2 DEF Settles, Reboots, Reconciles, EveActs, ReconSelects, ReconSelectsEveless,
     Sweeps, Heals, EveStarts, EveEnds, EveAcceptsLate, others, database
<1>4. ~ \E r \in Run : TailMove(r)
  BY <1>2 DEF TailMove
<1>5. ~ \E d \in Disp : Begins(d)
  BY <1>2 DEF Begins, TakesFresh, TakesSession, TakesQuiet, TakesParked, Takes
<1>6. ASSUME NEW d \in Disp, Works(d)
      PROVE  \E r \in Run : Admits(d, r)
  <2>1. ~Persists(d)
    BY <1>1 DEF Persists, casSessionLive, SessRec
  <2>2. ~Replaces(d)
    BY <1>1, <1>2 DEF Replaces
  <2>3. ~(Quit(d) \/ Abandons(d) \/ \E p \in DispPc : Pass(d, p))
    BY <1>2 DEF Quit, Abandons, Pass
  <2>4. ~(Enters(d) \/ Flips(d) \/ Arms(d) \/ Accepted(d) \/ Follows(d) \/ Retires(d))
    BY <1>2 DEF Enters, Flips, Arms, Accepted, Follows, Retires
  <2> QED
    BY <1>6, <2>1, <2>2, <2>3, <2>4 DEF Works
<1>7. PICK d \in Disp, r \in Run : Admits(d, r)
  BY <1>3, <1>4, <1>5, <1>6, Sorts
<1>8. Evictable(x)
  BY <1>7 DEF Admits
<1>9. sess[x].st \notin Dead
  <2>1. disp[d].pc = "admit" /\ (disp[d].kind \in Fresh <=> sess[disp[d].sess].st = "none")
    BY <1>7 DEF Admits, Shape, RequestShape, RequestOf
  <2> QED
    BY <1>1, <1>7, <2>1 DEF Admits
<1> QED
  BY <1>8, <1>9

\* EvictionSparesDispatch (dispatch.ts claim transaction): a thread is taken
\* over from a session that stays open only when nothing was sent for it, no
\* run of it is live and no send is under way.
THEOREM EvictionSpares ==
  ASSUME ~EarlyTraffic
  PROVE  Spec => EvictionSparesDispatch
<1> DEFINE Spared(s) == /\ eve[s].creates = 0 /\ LiveRuns(s) = {}
                        /\ \A r \in RunsOf(s) : ~SendUnderWay(r)
<1>1. ASSUME Inv, [Next]_vars, NEW s \in Session, sess[s].key, ~sess'[s].key,
             sess'[s].st \notin Dead
      PROVE  Spared(s)
  <2>1. Shape /\ ArmedAhead /\ CreatesOnce /\ LimboArmed /\ SendArmed
    BY <1>1 DEF Inv, Eveless, Creates
  <2>2. Step
    BY <1>1, <2>1, ShapeStep
  <2>3. Evictable(s) /\ sess[s].st \notin Dead
    BY <1>1, <2>1, <2>2, KeyTaken
  <2>4. /\ ~sess[s].id /\ ~Busy(s, None)
        /\ RunsOf(s) # {} => ~run[Newest(s)].armed
    BY <2>3 DEF Evictable
  <2>5. LiveRuns(s) = {}
    BY <2>4, Numbers DEF Busy, LiveRuns, RunsOf
  <2>6. \A r \in RunsOf(s) : ~run[r].armed
    <3> SUFFICES ASSUME NEW r \in RunsOf(s), run[r].armed
                 PROVE  FALSE
      OBVIOUS
    <3>1. r \in Run /\ run[r].sess = s
      BY DEF RunsOf
    <3>2. \A q \in RunsOf(s) : q <= r
      BY <2>1, <2>3, <2>4, <3>1 DEF ArmedAhead
    <3>3. Newest(s) = r
      BY <3>2, NewestIs
    <3> QED
      BY <2>4, <3>3
  <2>7. eve[s].creates = 0
    <3>1. eve[s].creates # 1 /\ eve[s].creates <= 1
      BY <2>1, <2>6 DEF CreatesOnce
    <3>2. eve[s].creates \in Nat
      BY <2>1, Tables DEF EveRec
    <3> QED
      BY <3>1, <3>2
  <2>8. \A r \in RunsOf(s) : ~SendUnderWay(r)
    BY <2>1, <2>6 DEF SendUnderWay, LimboArmed, SendArmed
  <2> QED
    BY <2>5, <2>7, <2>8
<1>2. Inv /\ [Next]_vars =>
        [\A s \in Session : sess[s].key /\ ~sess'[s].key /\ sess'[s].st \notin Dead
           => Spared(s)]_vars
  BY <1>1
<1> QED
  BY <1>2, InvariantHolds, PTL DEF Spec, EvictionSparesDispatch

=============================================================================
