------------------------- MODULE SessionTurnProofs -------------------------
(***************************************************************************)
(* Whose turn comes when.  A reader who sees a turn start takes every      *)
(* older obligation of the session for settled, and a tail waits for the   *)
(* end of its own run's turn.  That both are right rests on the order in   *)
(* which turns pass from a request through eve's queue to the log and its  *)
(* reader (Order), which SessionDispatchProofs does not need.  From it     *)
(* follow the obligations of stopped runs (Stops) and the ends of the      *)
(* turns (Turns).                                                          *)
(***************************************************************************)
EXTENDS SessionDispatchProofs

-----------------------------------------------------------------------------
(* The turns of a session: from the request that sends one to the reader    *)
(* that sees it start, they keep the order their runs were admitted in.     *)

\* The starts nobody has read, and the runs whose turn has yet to be seen to
\* start.
Openings(s) ==
    {i \in eve[s].cur + 1 .. Len(eve[s].log) : eve[s].log[i].type = "start"}
Places(s) == 1 .. Len(eve[s].queue)
Pending(r) ==
    \/ r \in limbo
    \/ \E i \in Places(run[r].sess) : eve[run[r].sess].queue[i] = r
    \/ \E i \in Openings(run[r].sess) : eve[run[r].sess].log[i].run = r
Clear(r) == ~Pending(r) /\ eve[run[r].sess].open # r

\* eve works on turns the session was sent; the open one started last.
TracedOf(s) ==
    /\ eve[s].cur <= Len(eve[s].log)
    /\ \A i \in 1 .. Len(eve[s].log) :
         run[eve[s].log[i].run].armed /\ run[eve[s].log[i].run].sess = s
    /\ \A i \in Places(s) :
         run[eve[s].queue[i]].armed /\ run[eve[s].queue[i]].sess = s
    /\ eve[s].open # None =>
         /\ Len(eve[s].log) # 0
         /\ eve[s].log[Len(eve[s].log)].type = "start"
         /\ eve[s].log[Len(eve[s].log)].run = eve[s].open
Traced == \A s \in Session : TracedOf(s)

\* What is still to be read, queued or under way is in order.
OrderedOf(s) ==
    /\ \A i, j \in Openings(s) : i < j => eve[s].log[i].run < eve[s].log[j].run
    /\ \A i, j \in Places(s) : i < j => eve[s].queue[i] < eve[s].queue[j]
    /\ \A i \in Openings(s), j \in Places(s) : eve[s].log[i].run < eve[s].queue[j]
    /\ \A r \in limbo : run[r].sess = s =>
         /\ \A i \in Openings(s) : eve[s].log[i].run < r
         /\ \A j \in Places(s) : eve[s].queue[j] < r
Ordered == \A s \in Session : OrderedOf(s)

\* A live run, and one a request owns, is the newest of its session.
LiveNewest == \A r \in Run : run[r].st \in LiveStatus =>
    \A q \in Run : run[q].st # "none" /\ run[q].sess = run[r].sess => q <= r
OwnNewest == \A d \in Disp : Owner(d) =>
    \A q \in Run : run[q].st # "none" /\ run[q].sess = disp[d].sess => q <= disp[d].run

\* A run whose turn has been seen to start has no other on its way, and nothing
\* older is outstanding.
TurnKnown == \A q \in Run : run[q].turn =>
    /\ run[q].armed /\ ~Pending(q)
    /\ \A r \in Run : run[r].st # "none" /\ run[r].sess = run[q].sess /\ r < q => Clear(r)

\* Before it is sent, a turn is nowhere at eve.
SendClear == \A d \in Disp : disp[d].pc \in {"ensure", "arm", "send"} =>
    /\ Clear(disp[d].run)
    /\ disp[d].pc = "send" => ~run[disp[d].run].turn

\* A parked run, and a tail that read its run's boundary, know a turn that is
\* over; a tail that saw its turn knows it.
OverOf(r) == run[r].turn /\ eve[run[r].sess].open # r
Parked == \A r \in Run :
    /\ run[r].st = "waiting" => OverOf(r)
    /\ tail[r].st = "ended" /\ tail[r].out # "session.failed" => OverOf(r)
    /\ tail[r].st = "follow" /\ tail[r].saw => run[r].turn

Order == Traced /\ Ordered /\ LiveNewest /\ OwnNewest /\ TurnKnown /\ SendClear /\ Parked

-----------------------------------------------------------------------------
\* The log and the queue of a session.
LEMMA EveTypes ==
  ASSUME Shape, NEW s \in Session
  PROVE  /\ eve[s].log \in Seq(Event) /\ eve[s].queue \in Seq(Run)
         /\ eve[s].cur \in Nat /\ eve[s].open \in Run \cup {None}
         /\ Len(eve[s].log) \in Nat /\ Len(eve[s].queue) \in Nat
         /\ \A i \in 1 .. Len(eve[s].log) :
              eve[s].log[i] \in Event /\ eve[s].log[i].run \in Run
              /\ eve[s].log[i].type \in {"start", "end"}
         /\ \A i \in 1 .. Len(eve[s].queue) : eve[s].queue[i] \in Run
<1>1. eve \in [Session -> EveRec]
  BY Tables
<1>2. /\ eve[s].log \in Seq(Event) /\ eve[s].queue \in Seq(Run)
      /\ eve[s].cur \in Nat /\ eve[s].open \in Run \cup {None}
  BY <1>1 DEF EveRec
<1>3. PICK l \in Seq(Event), q \in Seq(Run) : l = eve[s].log /\ q = eve[s].queue
  BY <1>2
<1>4. /\ Len(l) \in Nat /\ Len(q) \in Nat
      /\ \A i \in 1 .. Len(l) : l[i] \in Event
      /\ \A i \in 1 .. Len(q) : q[i] \in Run
  OBVIOUS
<1>5. \A e \in Event : e.run \in Run /\ e.type \in {"start", "end"}
  BY DEF Event
<1> QED
  BY <1>2, <1>3, <1>4, <1>5

\* The store's statements write no turn.
LEMMA TurnsSame ==
  ASSUME Shape, NEW r \in Run, NEW st, NEW R
  PROVE  \A q \in Run :
           /\ markRun(run, r, st)[q].turn = run[q].turn
           /\ settleOwing(run, r, st)[q].turn = run[q].turn
           /\ clearRemoteCancelPending(run, R)[q].turn = run[q].turn
<1>1. run \in [Run -> RunRec]
  BY Tables
<1>2. \A q \in Run : markRun(run, r, st)[q].turn = run[q].turn
  BY <1>1 DEF markRun, RunRec
<1>3. \A q \in Run : settleOwing(run, r, st)[q].turn = run[q].turn
  BY <1>1 DEF settleOwing, RunRec
<1>4. \A q \in Run : clearRemoteCancelPending(run, R)[q].turn = run[q].turn
  BY <1>1 DEF clearRemoteCancelPending, RunRec
<1> QED
  BY <1>2, <1>3, <1>4

\* Nothing is read: no turn is attributed, no cursor moves.
Unattributed == \A r \in Run : run'[r].turn => run[r].turn
Unmoved == \A s \in Session : eve'[s].cur = eve[s].cur

\* None of the store's statements attributes a turn.
LEMMA WritesNoTurn ==
  ASSUME Shape, NEW r \in Run,
         \/ UNCHANGED run
         \/ \E st : run' = markRun(run, r, st) \/ run' = settleOwing(run, r, st)
         \/ \E R : run' = clearRemoteCancelPending(run, R)
         \/ \E st : run' = [run EXCEPT ![r].st = st]
         \/ \E b : run' = [run EXCEPT ![r].owed = b]
         \/ \E b : run' = [run EXCEPT ![r].unresolved = b]
  PROVE  Unattributed
<1>1. run \in [Run -> RunRec]
  BY Tables
<1>2. CASE UNCHANGED run
  BY <1>2 DEF Unattributed
<1>3. CASE \E st : run' = markRun(run, r, st) \/ run' = settleOwing(run, r, st)
  <2>1. PICK st : run' = markRun(run, r, st) \/ run' = settleOwing(run, r, st)
    BY <1>3
  <2>2. \A q \in Run : /\ markRun(run, r, st)[q].turn = run[q].turn
                       /\ settleOwing(run, r, st)[q].turn = run[q].turn
    BY TurnsSame
  <2> QED
    BY <2>1, <2>2 DEF Unattributed
<1>4. CASE \E R : run' = clearRemoteCancelPending(run, R)
  <2>1. PICK R : run' = clearRemoteCancelPending(run, R)
    BY <1>4
  <2>2. \A q \in Run : clearRemoteCancelPending(run, R)[q].turn = run[q].turn
    BY TurnsSame
  <2> QED
    BY <2>1, <2>2 DEF Unattributed
<1>5. CASE \E st : run' = [run EXCEPT ![r].st = st]
  BY <1>1, <1>5 DEF Unattributed, RunRec
<1>6. CASE \E b : run' = [run EXCEPT ![r].owed = b]
  BY <1>1, <1>6 DEF Unattributed, RunRec
<1>7. CASE \E b : run' = [run EXCEPT ![r].unresolved = b]
  BY <1>1, <1>7 DEF Unattributed, RunRec
<1> QED
  BY <1>2, <1>3, <1>4, <1>5, <1>6, <1>7

\* A request attributes no turn and reads nothing.
LEMMA RequestReadsNothing ==
  ASSUME Shape, NEW d \in Disp, Begin(d) \/ DispatchStep(d) \/ Abort(d)
  PROVE  Unattributed /\ Unmoved
<1>1. run \in [Run -> RunRec] /\ disp \in [Disp -> DispRec]
  BY Tables
<1>2. UNCHANGED run => Unattributed
  BY DEF Unattributed
<1>3. UNCHANGED eve => Unmoved
  BY DEF Unmoved
<1>4. Owner(d) => disp[d].run \in Run /\ disp[d].sess \in Session
  BY Request DEF Owner, OwnPc
<1>5. CASE Begin(d)
  BY <1>2, <1>3, <1>5 DEF Begin, LockFresh, LockSession, LockResume, LockReset, rest, database
<1>6. CASE Abort(d) \/ FailRun(d)
  <2>1. Owner(d) /\ UNCHANGED eve
    BY <1>6 DEF Abort, FailRun, Owner, OwnPc, rest
  <2>2. PICK r \in Run : r = disp[d].run
    BY <1>4, <2>1
  <2>3. run' = markRun(run, r, "canceled") \/ run' = markRun(run, r, "failed")
    BY <1>6, <2>2 DEF Abort, FailRun
  <2> QED
    BY <1>3, <2>1, <2>3, WritesNoTurn
<1>7. CASE Reread(d) \/ Ensure(d) \/ SendReturns(d) \/ Persist(d) \/ StartTail(d)
           \/ FailEve(d) \/ FailSession(d)
  BY <1>2, <1>3, <1>7 DEF Reread, Ensure, SendReturns, Persist, StartTail, FailEve,
     FailSession, rest, database
<1>8. CASE SendFails(d)
  BY <1>2, <1>3, <1>8 DEF SendFails, database
<1>9. CASE AdmitFresh(d) \/ AdmitMessage(d)
  <2>1. UNCHANGED eve
    BY <1>9 DEF AdmitFresh, AdmitMessage, rest
  <2>2. ASSUME NEW r \in Run, InsertRun(d, r)
        PROVE  Unattributed
    <3>1. run' = [run EXCEPT ![r] = [NoRun EXCEPT !.st = "queued", !.sess = disp[d].sess]]
      BY <2>2 DEF InsertRun
    <3> QED
      BY <1>1, <3>1 DEF NoRun, Unattributed
  <2> QED
    BY <1>2, <1>3, <1>9, <2>1, <2>2 DEF AdmitFresh, AdmitMessage
<1>10. CASE AdmitResume(d)
  <2>1. UNCHANGED eve
    BY <1>10 DEF AdmitResume, rest
  <2>2. disp[d].run \in Run
    BY <1>10 DEF AdmitResume, Shape, RequestShape, RequestOf
  <2>3. UNCHANGED run \/ run' = [run EXCEPT ![disp[d].run].st = "queued"]
    BY <1>10 DEF AdmitResume
  <2> QED
    BY <1>3, <2>1, <2>2, <2>3, WritesNoTurn
<1>11. CASE Arm(d)
  <2>1. UNCHANGED eve
    BY <1>11 DEF Arm, rest
  <2>2. ASSUME run' = [run EXCEPT ![disp[d].run].st = "queued", ![disp[d].run].armed = TRUE,
                                  ![disp[d].run].turn = FALSE,
                                  ![disp[d].run].hitl = disp[d].kind = "resume"]
        PROVE  Unattributed
    BY <1>1, <2>2 DEF Unattributed, RunRec
  <2> QED
    BY <1>2, <1>3, <1>11, <2>1, <2>2 DEF Arm
<1>12. CASE Recheck(d)
  <2>1. UNCHANGED eve /\ Owner(d)
    BY <1>12 DEF Recheck, Owner, OwnPc
  <2>2. PICK r \in Run : r = disp[d].run
    BY <1>4, <2>1
  <2>3. \/ UNCHANGED run
        \/ run' = clearRemoteCancelPending(run, {r})
        \/ run' = [run EXCEPT ![r].owed = run[r].owed \/ run[r].st = "canceled"]
    BY <1>12, <2>2 DEF Recheck, database
  <2>4. Unattributed
    BY <2>3, WritesNoTurn
  <2> QED
    BY <1>3, <2>1, <2>4
<1>13. CASE FailGone(d) \/ ResetClose(d)
  <2>1. UNCHANGED eve
    BY <1>13 DEF FailGone, ResetClose, rest
  <2>2. PICK R : run' = clearRemoteCancelPending(run, R)
    BY <1>13 DEF FailGone, ResetClose
  <2>3. \A q \in Run : clearRemoteCancelPending(run, R)[q].turn = run[q].turn
    BY TurnsSame
  <2> QED
    BY <1>3, <2>1, <2>2, <2>3 DEF Unattributed
<1>14. CASE EveAnswers(d)
  <2>1. UNCHANGED run
    BY <1>14 DEF EveAnswers, others, database
  <2>2. Owner(d)
    BY <1>14 DEF EveAnswers, Owner, OwnPc
  <2>3. disp[d].id \in BOOLEAN
    BY <1>1 DEF DispRec
  <2>4. PICK s \in Session, r \in Run, c \in BOOLEAN :
           s = disp[d].sess /\ r = disp[d].run /\ c = ~disp[d].id
    BY <1>4, <2>2, <2>3
  <2>5. Accept(s, r, c) \/ UNCHANGED eve
    BY <1>14, <2>4 DEF EveAnswers
  <2>6. ASSUME Accept(s, r, c)
        PROVE  Unmoved
    BY <2>6, AcceptRow DEF Unmoved
  <2> QED
    BY <1>2, <1>3, <2>1, <2>5, <2>6
<1>15. CASE EveResets(d)
  <2>1. UNCHANGED run
    BY <1>15 DEF EveResets, others, database
  <2>2. disp[d].sess \in Session
    BY <1>15, Request DEF EveResets
  <2>3. PICK s \in Session : s = disp[d].sess
    BY <2>2
  <2>4. eve' = [eve EXCEPT ![s].dead = TRUE, ![s].queue = <<>>, ![s].open = None]
    BY <1>15, <2>3 DEF EveResets
  <2>5. Unmoved
    BY <2>4, RetireRow DEF Unmoved
  <2> QED
    BY <1>2, <2>1, <2>5
<1> QED
  BY <1>5, <1>6, <1>7, <1>8, <1>9, <1>10, <1>11, <1>12, <1>13, <1>14, <1>15 DEF DispatchStep

\* The reading of an event is the only step that attributes a turn or moves a
\* cursor.
LEMMA Readings ==
  ASSUME Shape, [Next]_vars
  PROVE  (\E r \in Run : TailReads(r)) \/ (Unattributed /\ Unmoved)
<1>1. run \in [Run -> RunRec]
  BY Tables
<1>2. UNCHANGED run => Unattributed
  BY DEF Unattributed
<1>3. UNCHANGED eve => Unmoved
  BY DEF Unmoved
<1>4. CASE UNCHANGED vars
  BY <1>2, <1>3, <1>4 DEF vars
<1>5. CASE \E d \in Disp : Begin(d) \/ DispatchStep(d) \/ Abort(d)
  BY <1>5, RequestReadsNothing
<1>6. CASE \E s \in Session : EveStarts(s)
  BY <1>2, <1>6, EveStartsStep DEF Unmoved
<1>7. CASE \E s \in Session, out \in Outcome : EveEnds(s, out)
  BY <1>2, <1>7, EveEndsStep DEF Unmoved
<1>8. ASSUME NEW r \in Run, EveAcceptsLate(r)
      PROVE  Unattributed /\ Unmoved
  <2>1. run[r].sess \in Session /\ UNCHANGED run
    BY <1>8, EveAcceptsLateStep
  <2>2. (~sess[run[r].sess].id) \in BOOLEAN
    BY <2>1, Tables DEF SessRec
  <2>3. CASE Accept(run[r].sess, r, ~sess[run[r].sess].id)
    BY <1>2, <2>1, <2>2, <2>3, AcceptRow DEF Unmoved
  <2> QED
    BY <1>2, <1>3, <1>8, <2>1, <2>3 DEF EveAcceptsLate
<1>9. ASSUME NEW r \in Run,
             \/ TailAdopt(r) \/ TailFinish(r) \/ TailMarksSession(r) \/ TailCap(r)
             \/ TailLost(r) \/ StopLive(r) \/ StopBegins(r) \/ StopSettles(r)
             \/ SettleMet(r) \/ SettleObserves(r)
      PROVE  Unattributed /\ Unmoved
  <2>1. UNCHANGED eve
    BY <1>9 DEF TailAdopt, TailFinish, TailMarksSession, TailCap, TailLost, StopLive,
       StopBegins, StopSettles, SettleMet, SettleObserves
  <2>2. CASE TailAdopt(r) \/ TailFinish(r) \/ TailLost(r) \/ StopLive(r)
    <3>1. UNCHANGED run \/ \E st : run' = markRun(run, r, st) \/ run' = settleOwing(run, r, st)
      BY <2>2 DEF TailAdopt, TailFinish, TailLost, StopLive
    <3> QED
      BY <1>3, <2>1, <3>1, WritesNoTurn
  <2>3. CASE TailCap(r) \/ StopSettles(r) \/ SettleMet(r)
    <3>1. \/ \E st : run' = settleOwing(run, r, st)
          \/ \E R : run' = clearRemoteCancelPending(run, R)
      BY <2>3 DEF TailCap, StopSettles, SettleMet
    <3> QED
      BY <1>3, <2>1, <3>1, WritesNoTurn
  <2>4. CASE TailMarksSession(r) \/ StopBegins(r) \/ SettleObserves(r)
    <3>1. UNCHANGED run
      BY <2>4 DEF TailMarksSession, StopBegins, SettleObserves, database
    <3> QED
      BY <1>2, <1>3, <2>1, <3>1
  <2> QED
    BY <1>9, <2>2, <2>3, <2>4
<1>10. ASSUME NEW r \in Run, ObserveExpires(r) \/ SettleUnresolved(r)
       PROVE  Unattributed /\ Unmoved
  <2>1. UNCHANGED eve /\ \E b : run' = [run EXCEPT ![r].unresolved = b]
    BY <1>10 DEF ObserveExpires, SettleUnresolved
  <2> QED
    BY <1>3, <2>1, WritesNoTurn
<1>11. ASSUME NEW S \in SUBSET Run, Restart(S)
       PROVE  Unattributed /\ Unmoved
  <2>1. /\ UNCHANGED eve
        /\ \A r \in Run : run'[r] = IF r \in S THEN settleOwing(run, r, "failed")[r]
                                    ELSE run[r]
    BY <1>11 DEF Restart
  <2> QED
    BY <1>3, <2>1, TurnsSame DEF Unattributed
<1>12. CASE Reconcile
  <2>1. UNCHANGED eve
    BY <1>12 DEF Reconcile, ReconSelects, ReconSelectsEveless, ReconRow, ReconEveless
  <2>2. UNCHANGED run \/ \E row \in recon.rows : run' = markRun(run, row.run, "failed")
    BY <1>12 DEF Reconcile, ReconSelects, ReconSelectsEveless, ReconRow, ReconEveless,
       database
  <2>3. CASE \E row \in recon.rows : run' = markRun(run, row.run, "failed")
    <3>1. PICK row \in recon.rows : run' = markRun(run, row.run, "failed")
      BY <2>3
    <3>2. row.run \in Run
      BY Tables DEF ReconRec, RowRec
    <3> QED
      BY <1>3, <2>1, <3>1, <3>2, WritesNoTurn
  <2> QED
    BY <1>2, <1>3, <2>1, <2>2, <2>3
<1> QED
  BY <1>4, <1>5, <1>6, <1>7, <1>8, <1>9, <1>10, <1>11, <1>12 DEF Next, TailStep

\* The sequences a turn passes through, element by element.
LEMMA SeqFacts ==
  ASSUME NEW S, NEW l \in Seq(S), NEW e \in S
  PROVE  /\ Len(l) \in Nat
         /\ Append(l, e) \in Seq(S) /\ Len(Append(l, e)) = Len(l) + 1
         /\ \A i \in 1 .. Len(l) : Append(l, e)[i] = l[i]
         /\ Append(l, e)[Len(l) + 1] = e
         /\ l # <<>> => /\ Len(l) >= 1 /\ Head(l) = l[1]
                        /\ Len(Tail(l)) = Len(l) - 1
                        /\ \A i \in 1 .. Len(l) - 1 : Tail(l)[i] = l[i + 1]
OBVIOUS

\* eve's log and queue once a turn is taken up, entry by entry,
LEMMA Opened ==
  ASSUME Shape, NEW s \in Session, EveOpens(s)
  PROVE  /\ Len(eve'[s].log) = Len(eve[s].log) + 1
         /\ \A i \in 1 .. Len(eve[s].log) : eve'[s].log[i] = eve[s].log[i]
         /\ eve'[s].log[Len(eve[s].log) + 1].type = "start"
         /\ eve'[s].log[Len(eve[s].log) + 1].run = eve[s].queue[1]
         /\ Len(eve[s].queue) >= 1 /\ eve'[s].open = eve[s].queue[1]
         /\ Len(eve'[s].queue) = Len(eve[s].queue) - 1
         /\ \A j \in 1 .. Len(eve[s].queue) - 1 : eve'[s].queue[j] = eve[s].queue[j + 1]
         /\ eve'[s].cur = eve[s].cur /\ eve[s].open = None
         /\ (eve'[s].dead <=> eve[s].dead)
<1>1. eve[s].log \in Seq(Event) /\ eve[s].queue \in Seq(Run)
  BY EveTypes
<1>2. PICK l \in Seq(Event), q \in Seq(Run) : l = eve[s].log /\ q = eve[s].queue
  BY <1>1
<1>3. PICK e \in Event : /\ e.type = "start" /\ e.run = Head(q)
                         /\ eve'[s].log = Append(l, e)
  BY <1>2 DEF EveOpens
<1>4. q # <<>> /\ eve'[s].queue = Tail(q) /\ eve'[s].open = Head(q)
  BY <1>2 DEF EveOpens
<1>5. /\ Len(Append(l, e)) = Len(l) + 1
      /\ \A i \in 1 .. Len(l) : Append(l, e)[i] = l[i]
      /\ Append(l, e)[Len(l) + 1] = e
  BY SeqFacts
<1>6. /\ Len(q) >= 1 /\ Head(q) = q[1] /\ Len(Tail(q)) = Len(q) - 1
      /\ \A i \in 1 .. Len(q) - 1 : Tail(q)[i] = q[i + 1]
  BY <1>4
<1> QED
  BY <1>2, <1>3, <1>4, <1>5, <1>6 DEF EveOpens

\* once it has ended,
LEMMA Closed ==
  ASSUME Shape, NEW s \in Session, EveCloses(s)
  PROVE  /\ Len(eve'[s].log) = Len(eve[s].log) + 1
         /\ \A i \in 1 .. Len(eve[s].log) : eve'[s].log[i] = eve[s].log[i]
         /\ eve'[s].log[Len(eve[s].log) + 1].type = "end"
         /\ eve'[s].log[Len(eve[s].log) + 1].run = eve[s].open
         /\ eve[s].open # None /\ eve'[s].open = None
         /\ eve'[s].cur = eve[s].cur
         /\ eve'[s].queue = eve[s].queue \/ Len(eve'[s].queue) = 0
<1>1. eve[s].log \in Seq(Event)
  BY EveTypes
<1>2. PICK l \in Seq(Event) : l = eve[s].log
  BY <1>1
<1>3. PICK e \in Event : /\ e.type = "end" /\ e.run = eve[s].open
                         /\ eve'[s].log = Append(l, e)
  BY <1>2 DEF EveCloses
<1>4. /\ Len(Append(l, e)) = Len(l) + 1
      /\ \A i \in 1 .. Len(l) : Append(l, e)[i] = l[i]
      /\ Append(l, e)[Len(l) + 1] = e
  BY SeqFacts
<1>5. Len(<<>>) = 0
  OBVIOUS
<1> QED
  BY <1>2, <1>3, <1>4, <1>5 DEF EveCloses

\* and once a send is accepted.
LEMMA Taken ==
  ASSUME Shape, NEW s \in Session, NEW r \in Run, NEW n, EveTakes(s, r, n)
  PROVE  /\ Len(eve'[s].queue) = Len(eve[s].queue) + 1
         /\ \A j \in 1 .. Len(eve[s].queue) : eve'[s].queue[j] = eve[s].queue[j]
         /\ eve'[s].queue[Len(eve[s].queue) + 1] = r
         /\ eve'[s].log = eve[s].log /\ eve'[s].cur = eve[s].cur
         /\ eve'[s].open = eve[s].open /\ (eve'[s].dead <=> eve[s].dead)
<1>1. eve[s].queue \in Seq(Run)
  BY EveTypes
<1>2. PICK q \in Seq(Run) : q = eve[s].queue
  BY <1>1
<1>3. /\ Len(Append(q, r)) = Len(q) + 1
      /\ \A i \in 1 .. Len(q) : Append(q, r)[i] = q[i]
      /\ Append(q, r)[Len(q) + 1] = r
  BY SeqFacts
<1> QED
  BY <1>2, <1>3 DEF EveTakes

\* The request at whose send the run r is sends it, or gives up waiting.
Leaves(r) == \E d \in Disp : disp[d].pc = "send" /\ disp[d].run = r /\ disp'[d].pc # "send"

\* What eve and the wire may still open comes from a request at its send.
LEMMA OutGrows ==
  ASSUME Inv, Traced, Step, NEW r \in Run, run[r].st # "none"
  PROVE  /\ Pending(r)' => Pending(r) \/ Leaves(r)
         /\ eve'[run[r].sess].open = r => eve[run[r].sess].open = r \/ Pending(r)
<1>1. Shape
  BY DEF Inv
<1>2. PICK s \in Session : s = run[r].sess /\ run'[r].sess = s
  BY <1>1, RunsOfStay DEF Shape, RunShape
<1>3. r # None
  BY Numbers
<1>4. ASSUME r \in limbo'
      PROVE  Pending(r) \/ Leaves(r)
  <2>1. CASE r \in limbo
    BY <2>1 DEF Pending
  <2>2. ASSUME NEW d \in Disp, disp[d].pc = "send", disp[d].run = r,
               Reboots \/ \E p \in DispPc : Pass(d, p)
        PROVE  Leaves(r)
    <3>1. disp'[d].pc # "send"
      BY <2>2 DEF Reboots, Idle, Pass, Moves, Moved
    <3> QED
      BY <2>2, <3>1 DEF Leaves
  <2> QED
    BY <1>1, <1>4, <2>1, <2>2, LimboBirths
<1> DEFINE Waits == \/ \E i \in Places(s) : eve[s].queue[i] = r
                    \/ \E i \in Openings(s) : eve[s].log[i].run = r
           Waits1 == \/ \E i \in 1 .. Len(eve'[s].queue) : eve'[s].queue[i] = r
                     \/ \E i \in eve'[s].cur + 1 .. Len(eve'[s].log) :
                          eve'[s].log[i].type = "start" /\ eve'[s].log[i].run = r
<1>5. (Pending(r) <=> r \in limbo \/ Waits) /\ (Pending(r)' <=> r \in limbo' \/ Waits1)
  BY <1>2 DEF Pending, Openings, Places
<1>6. /\ eve[s].cur \in Nat /\ Len(eve[s].log) \in Nat /\ Len(eve[s].queue) \in Nat
  BY <1>1, EveTypes
<1>7. CASE EveSteady(s)
  <2>1. Waits1 => Waits
    BY <1>6, <1>7 DEF EveSteady, Openings, Places
  <2> QED
    BY <1>2, <1>4, <1>5, <1>7, <2>1 DEF EveSteady
<1>8. CASE EveOpens(s)
  <2>1. Waits1 => Waits
    <3>1. ASSUME NEW i \in 1 .. Len(eve'[s].queue), eve'[s].queue[i] = r
          PROVE  \E j \in Places(s) : eve[s].queue[j] = r
      <4>1. i + 1 \in Places(s) /\ eve'[s].queue[i] = eve[s].queue[i + 1]
        BY <1>1, <1>6, <1>8, <3>1, Opened DEF Places
      <4> QED
        BY <3>1, <4>1
    <3>2. ASSUME NEW i \in eve'[s].cur + 1 .. Len(eve'[s].log),
                 eve'[s].log[i].type = "start", eve'[s].log[i].run = r
          PROVE  Waits
      <4>1. CASE i \in 1 .. Len(eve[s].log)
        <5>1. eve'[s].log[i] = eve[s].log[i] /\ eve'[s].cur = eve[s].cur
          BY <1>1, <1>8, <4>1, Opened
        <5>2. i \in Openings(s)
          BY <1>6, <3>2, <4>1, <5>1 DEF Openings
        <5> QED
          BY <3>2, <5>1, <5>2
      <4>2. CASE i = Len(eve[s].log) + 1
        <5>1. 1 \in Places(s) /\ eve[s].queue[1] = r
          BY <1>1, <1>6, <1>8, <3>2, <4>2, Opened DEF Places
        <5> QED
          BY <5>1
      <4>3. i \in 1 .. Len(eve[s].log) + 1
        BY <1>1, <1>6, <1>8, Opened
      <4> QED
        BY <1>6, <4>1, <4>2, <4>3
    <3> QED
      BY <3>1, <3>2
  <2>2. eve'[s].open = r => Waits
    <3>1. 1 \in Places(s) /\ eve'[s].open = eve[s].queue[1]
      BY <1>1, <1>6, <1>8, Opened DEF Places
    <3> QED
      BY <3>1
  <2> QED
    BY <1>2, <1>4, <1>5, <2>1, <2>2
<1>9. CASE EveCloses(s)
  <2>1. Waits1 => Waits
    <3>1. ASSUME NEW i \in 1 .. Len(eve'[s].queue), eve'[s].queue[i] = r
          PROVE  \E j \in Places(s) : eve[s].queue[j] = r
      BY <1>1, <1>6, <1>9, <3>1, Closed DEF Places
    <3>2. ASSUME NEW i \in eve'[s].cur + 1 .. Len(eve'[s].log),
                 eve'[s].log[i].type = "start", eve'[s].log[i].run = r
          PROVE  Waits
      <4>1. i \in 1 .. Len(eve[s].log)
        BY <1>1, <1>6, <1>9, <3>2, Closed
      <4> QED
        BY <1>1, <1>6, <1>9, <3>2, <4>1, Closed DEF Openings
    <3> QED
      BY <3>1, <3>2
  <2>2. eve'[s].open = None
    BY <1>9 DEF EveCloses
  <2> QED
    BY <1>2, <1>3, <1>4, <1>5, <2>1, <2>2
<1>10. ASSUME NEW x \in Run, NEW n, EveTakes(s, x, n), x = r => Pending(r) \/ Leaves(r)
       PROVE  /\ Pending(r)' => Pending(r) \/ Leaves(r)
              /\ eve'[run[r].sess].open = r => eve[run[r].sess].open = r \/ Pending(r)
  <2>1. ASSUME NEW i \in 1 .. Len(eve'[s].queue), eve'[s].queue[i] = r
        PROVE  x = r \/ \E j \in Places(s) : eve[s].queue[j] = r
    <3>1. i \in 1 .. Len(eve[s].queue) \/ i = Len(eve[s].queue) + 1
      BY <1>1, <1>6, <1>10, Taken
    <3> QED
      BY <1>1, <1>10, <2>1, <3>1, Taken DEF Places
  <2>2. Waits1 => Waits \/ x = r
    BY <1>1, <1>10, <2>1, Taken DEF Openings
  <2> QED
    BY <1>1, <1>2, <1>4, <1>5, <1>10, <2>2, Taken
<1>11. ASSUME NEW d \in Disp, Accepted(d), disp[d].sess = s,
              EveTakes(s, disp[d].run, IF disp[d].id THEN 0 ELSE 1)
       PROVE  /\ Pending(r)' => Pending(r) \/ Leaves(r)
              /\ eve'[run[r].sess].open = r => eve[run[r].sess].open = r \/ Pending(r)
  <2>1. disp[d].pc = "send" /\ disp'[d].pc # "send"
    BY <1>11 DEF Accepted, Moved
  <2>2. disp[d].run \in Run
    BY <1>1, <2>1, Request DEF Owner, OwnPc
  <2>3. disp[d].run = r => Leaves(r)
    BY <2>1 DEF Leaves
  <2> QED
    BY <1>10, <1>11, <2>2, <2>3
<1>12. ASSUME NEW q \in limbo, EveTakes(s, q, IF sess[s].id THEN 0 ELSE 1)
       PROVE  /\ Pending(r)' => Pending(r) \/ Leaves(r)
              /\ eve'[run[r].sess].open = r => eve[run[r].sess].open = r \/ Pending(r)
  <2>1. q \in Run
    BY <1>1, Tables
  <2>2. q = r => Pending(r)
    BY DEF Pending
  <2> QED
    BY <1>10, <1>12, <2>1, <2>2
<1>13. CASE EveRetired(s)
  <2>1. Waits1 => Waits
    <3>1. Len(eve'[s].queue) = 0
      BY <1>13 DEF EveRetired
    <3> QED
      BY <1>6, <1>13, <3>1 DEF EveRetired, Openings
  <2> QED
    BY <1>2, <1>3, <1>4, <1>5, <1>13, <2>1 DEF EveRetired
<1> QED
  BY <1>2, <1>7, <1>8, <1>9, <1>11, <1>12, <1>13, EveTurn

-----------------------------------------------------------------------------
(* What the actions write to the rows' status, turn and obligation.         *)

Untouched == \A q \in Run :
    /\ run'[q].st = run[q].st /\ (run'[q].turn <=> run[q].turn)
    /\ run'[q].owed <=> run[q].owed
Marked(r, st) == \A q \in Run :
    /\ run'[q].st = (IF q = r /\ run[r].st \in LiveStatus THEN st ELSE run[q].st)
    /\ (run'[q].turn <=> run[q].turn) /\ (run'[q].owed <=> run[q].owed)
Charged(r, st) == \A q \in Run :
    /\ run'[q].st = (IF q = r /\ run[r].st \in LiveStatus THEN st ELSE run[q].st)
    /\ run'[q].turn <=> run[q].turn
    /\ run'[q].owed <=> run[q].owed \/ (q = r /\ run[r].st \in LiveStatus)
Freed(R) == \A q \in Run :
    /\ run'[q].st = run[q].st /\ (run'[q].turn <=> run[q].turn)
    /\ run'[q].owed <=> run[q].owed /\ q \notin R
Queued(r) ==
    /\ run'[r].st = "queued" /\ (run'[r].turn => run[r].turn)
    /\ run'[r].owed => run[r].owed
    /\ \A q \in Run \ {r} : run'[q] = run[q]
Recharged(r) == \A q \in Run :
    /\ run'[q].st = run[q].st /\ (run'[q].turn <=> run[q].turn)
    /\ run'[q].owed <=> run[q].owed \/ (q = r /\ run[r].st = "canceled")
Settled(S) == \A q \in Run :
    /\ run'[q].turn <=> run[q].turn
    /\ run'[q].st = (IF q \in S /\ run[q].st \in LiveStatus THEN "failed" ELSE run[q].st)
    /\ run'[q].owed <=> run[q].owed \/ (q \in S /\ run[q].st \in LiveStatus)

\* markRun, settleOwing and clearRemoteCancelPending in these words.
LEMMA Marking ==
  ASSUME Shape, NEW r \in Run, NEW st \in LiveStatus \cup Terminal,
         run' = markRun(run, r, st)
  PROVE  Marked(r, st)
<1>1. run \in [Run -> RunRec]
  BY Tables
<1>2. \A q \in Run :
           /\ markRun(run, r, st)[q].turn = run[q].turn
           /\ markRun(run, r, st)[q].owed = run[q].owed
           /\ markRun(run, r, st)[q].st =
                IF q = r /\ run[r].st \in LiveStatus THEN st ELSE run[q].st
  BY <1>1, MarkRun
<1> QED
  BY <1>2 DEF Marked

\* The settlement that charges the obligation with the status.
LEMMA Charging ==
  ASSUME Shape, NEW r \in Run, NEW st \in LiveStatus \cup Terminal,
         run' = settleOwing(run, r, st)
  PROVE  Charged(r, st)
<1>1. run \in [Run -> RunRec]
  BY Tables
<1>2. \A q \in Run :
           /\ settleOwing(run, r, st)[q].turn = run[q].turn
           /\ (settleOwing(run, r, st)[q].owed
                    <=> run[q].owed \/ (q = r /\ run[r].st \in LiveStatus))
           /\ settleOwing(run, r, st)[q].st =
                IF q = r /\ run[r].st \in LiveStatus THEN st ELSE run[q].st
  BY <1>1, SettleOwing
<1> QED
  BY <1>2 DEF Charged

\* The statement that drops obligations.
LEMMA Freeing ==
  ASSUME Shape, NEW R, run' = clearRemoteCancelPending(run, R)
  PROVE  Freed(R)
<1>1. run \in [Run -> RunRec]
  BY Tables
<1>2. \A q \in Run :
           /\ clearRemoteCancelPending(run, R)[q].st = run[q].st
           /\ clearRemoteCancelPending(run, R)[q].turn = run[q].turn
           /\ clearRemoteCancelPending(run, R)[q].owed <=> run[q].owed /\ q \notin R
  BY <1>1 DEF clearRemoteCancelPending, RunRec
<1> QED
  BY <1>2 DEF Freed

\* A request's write to the runs.
RequestWrites(d) ==
    \/ Untouched
    \/ \E r \in Run : r = disp[d].run /\
         \/ FailRun(d) /\ Marked(r, "failed")
         \/ Abort(d) /\ Marked(r, "canceled")
         \/ AdmitResume(d) /\ run[r].st = "waiting" /\ Queued(r)
                           /\ run'[r].owed = run[r].owed /\ run'[r].turn = run[r].turn
         \/ Arm(d) /\ run[r].st \in LiveStatus /\ Queued(r)
                   /\ run'[r].owed = run[r].owed
         \/ Recheck(d) /\ Superseded(r) /\ Freed({r})
         \/ Recheck(d) /\ run[r].st \in Terminal /\ Recharged(r)
    \/ (FailGone(d) \/ ResetClose(d)) /\ Freed(OwedRuns(disp[d].sess))
    \/ \E r \in Run : /\ run[r].st = "none" /\ Queued(r)
                      /\ ~run'[r].turn /\ ~run'[r].owed

\* A request writes nothing else to the runs.
LEMMA RequestsWrite ==
  ASSUME Shape, NEW d \in Disp, Begin(d) \/ DispatchStep(d) \/ Abort(d)
  PROVE  RequestWrites(d)
<1>1. run \in [Run -> RunRec]
  BY Tables
<1>2. UNCHANGED run => RequestWrites(d)
  BY DEF RequestWrites, Untouched
<1>3. Owner(d) => disp[d].run \in Run
  BY Request DEF Owner, OwnPc
<1>4. {"failed", "canceled"} \subseteq LiveStatus \cup Terminal
  BY DEF Terminal
<1>5. CASE Begin(d)
  BY <1>2, <1>5 DEF Begin, LockFresh, LockSession, LockResume, LockReset, database
<1>6. CASE Abort(d) \/ FailRun(d)
  <2>1. Owner(d)
    BY <1>6 DEF Abort, FailRun, Owner, OwnPc
  <2>2. PICK r \in Run : r = disp[d].run
    BY <1>3, <2>1
  <2>3. Abort(d) => Marked(r, "canceled")
    BY <1>4, <2>2, Marking DEF Abort
  <2>4. FailRun(d) => Marked(r, "failed")
    BY <1>4, <2>2, Marking DEF FailRun
  <2> QED
    BY <1>6, <2>2, <2>3, <2>4 DEF RequestWrites
<1>7. CASE Reread(d) \/ Ensure(d) \/ SendReturns(d) \/ Persist(d) \/ StartTail(d)
           \/ FailEve(d) \/ FailSession(d)
  BY <1>2, <1>7 DEF Reread, Ensure, SendReturns, Persist, StartTail, FailEve,
     FailSession, database
<1>8. CASE SendFails(d) \/ EveAnswers(d) \/ EveResets(d)
  BY <1>2, <1>8 DEF SendFails, EveAnswers, EveResets, others, database
<1>9. CASE AdmitFresh(d) \/ AdmitMessage(d)
  <2>1. ASSUME NEW r \in Run, InsertRun(d, r)
        PROVE  RequestWrites(d)
    <3>1. /\ run' = [run EXCEPT ![r] = [NoRun EXCEPT !.st = "queued", !.sess = disp[d].sess]]
          /\ run[r].st = "none"
      BY <2>1 DEF InsertRun, FreeRuns
    <3>2. Queued(r) /\ ~run'[r].turn /\ ~run'[r].owed
      BY <1>1, <3>1 DEF NoRun, Queued
    <3> QED
      BY <3>1, <3>2 DEF RequestWrites
  <2> QED
    BY <1>2, <1>9, <2>1 DEF AdmitFresh, AdmitMessage
<1>10. CASE AdmitResume(d)
  <2>1. disp[d].run \in Run
    BY <1>10 DEF AdmitResume, Shape, RequestShape, RequestOf
  <2>2. PICK r \in Run : r = disp[d].run
    BY <2>1
  <2>3. ASSUME run' = [run EXCEPT ![r].st = "queued"]
        PROVE  Queued(r) /\ run'[r].owed = run[r].owed /\ run'[r].turn = run[r].turn
    BY <1>1, <2>3 DEF Queued, RunRec
  <2> QED
    BY <1>2, <1>10, <2>2, <2>3 DEF AdmitResume, RequestWrites
<1>11. CASE Arm(d)
  <2>1. Owner(d)
    BY <1>11 DEF Arm, Owner, OwnPc
  <2>2. PICK r \in Run : r = disp[d].run
    BY <1>3, <2>1
  <2>3. ASSUME run' = [run EXCEPT ![r].st = "queued", ![r].armed = TRUE, ![r].turn = FALSE,
                                  ![r].hitl = disp[d].kind = "resume"]
        PROVE  Queued(r) /\ run'[r].owed = run[r].owed
    BY <1>1, <2>3 DEF Queued, RunRec
  <2> QED
    BY <1>2, <1>11, <2>2, <2>3 DEF Arm, RequestWrites
<1>12. CASE Recheck(d)
  <2>1. Owner(d)
    BY <1>12 DEF Recheck, Owner, OwnPc
  <2>2. PICK r \in Run : r = disp[d].run
    BY <1>3, <2>1
  <2>3. ASSUME run' = [run EXCEPT ![r].owed = run[r].owed \/ run[r].st = "canceled"]
        PROVE  Recharged(r)
    BY <1>1, <2>3 DEF Recharged, RunRec
  <2>4. ASSUME run' = clearRemoteCancelPending(run, {r})
        PROVE  Freed({r})
    BY <2>4, Freeing
  <2>5. \/ UNCHANGED run
        \/ Superseded(r) /\ run' = clearRemoteCancelPending(run, {r})
        \/ /\ run[r].st \in Terminal
           /\ run' = [run EXCEPT ![r].owed = run[r].owed \/ run[r].st = "canceled"]
    BY <1>12, <2>2 DEF Recheck, database
  <2> QED
    BY <1>2, <1>12, <2>2, <2>3, <2>4, <2>5 DEF RequestWrites
<1>13. CASE FailGone(d) \/ ResetClose(d)
  <2>1. run' = clearRemoteCancelPending(run, OwedRuns(disp[d].sess))
    BY <1>13 DEF FailGone, ResetClose
  <2> QED
    BY <1>13, <2>1, Freeing DEF RequestWrites
<1> QED
  BY <1>5, <1>6, <1>7, <1>8, <1>9, <1>10, <1>11, <1>12, <1>13 DEF DispatchStep

\* The write of a tail, a Stop or a settlement.
TailWrites(r) ==
    \/ Untouched
    \/ TailAdopt(r) /\ Marked(r, "running")
    \/ TailFinish(r) /\ Marked(r, RunStatusAt(tail[r].out))
    \/ TailLost(r) /\ Marked(r, "failed")
    \/ StopLive(r) /\ eve[run[r].sess].dead /\ Marked(r, "canceled")
    \/ StopLive(r) /\ Charged(r, "canceled")
    \/ TailCap(r) /\ Charged(r, "failed")
    \/ StopSettles(r) /\ Charged(r, "canceled")
    \/ SettleMet(r) /\ Freed({r})
    \/ TailReads(r)

\* Neither does a tail, a Stop or a settlement,
LEMMA TailsWrite ==
  ASSUME Shape, NEW r \in Run,
         \/ TailStep(r) \/ TailCap(r) \/ TailLost(r) \/ ObserveExpires(r)
         \/ StopLive(r) \/ StopBegins(r) \/ StopSettles(r)
         \/ SettleMet(r) \/ SettleUnresolved(r) \/ SettleObserves(r)
  PROVE  TailWrites(r)
<1>1. run \in [Run -> RunRec]
  BY Tables
<1>2. UNCHANGED run => TailWrites(r)
  BY DEF TailWrites, Untouched
<1>3. {"failed", "canceled", "running"} \subseteq LiveStatus \cup Terminal
  BY DEF Terminal, LiveStatus
<1>4. \A out : RunStatusAt(out) \in LiveStatus \cup Terminal
  BY DEF RunStatusAt, LiveStatus, Terminal
<1>5. CASE TailAdopt(r)
  BY <1>3, <1>5, Marking DEF TailAdopt, TailWrites
<1>6. CASE TailFinish(r)
  BY <1>4, <1>6, Marking DEF TailFinish, TailWrites
<1>7. CASE TailMarksSession(r) \/ StopBegins(r) \/ SettleObserves(r)
  BY <1>2, <1>7 DEF TailMarksSession, StopBegins, SettleObserves, database
<1>8. CASE TailLost(r)
  BY <1>2, <1>3, <1>8, Marking DEF TailLost, TailWrites
<1>9. CASE StopLive(r)
  BY <1>3, <1>9, Marking, Charging DEF StopLive, TailWrites
<1>10. CASE TailCap(r) \/ StopSettles(r)
  BY <1>3, <1>10, Charging DEF TailCap, StopSettles, TailWrites
<1>11. CASE SettleMet(r)
  BY <1>11, Freeing DEF SettleMet, TailWrites
<1>12. CASE ObserveExpires(r) \/ SettleUnresolved(r)
  <2>1. \E b : run' = [run EXCEPT ![r].unresolved = b]
    BY <1>12 DEF ObserveExpires, SettleUnresolved
  <2>2. Untouched
    BY <1>1, <2>1 DEF Untouched, RunRec
  <2> QED
    BY <2>2 DEF TailWrites
<1> QED
  BY <1>5, <1>6, <1>7, <1>8, <1>9, <1>10, <1>11, <1>12 DEF TailStep, TailWrites

\* What a step writes to the runs.
Writes ==
    \/ Untouched
    \/ \E d \in Disp : RequestWrites(d) /\ (Begin(d) \/ DispatchStep(d) \/ Abort(d))
    \/ \E r \in Run : TailWrites(r)
    \/ \E S \in SUBSET Run : Restart(S) /\ Settled(S)
    \/ \E row \in recon.rows : ReconRow(row) /\ tail[row.run].st = "none"
                               /\ row.run \in Run /\ Marked(row.run, "failed")

\* nor any other step.
LEMMA StepsWrite ==
  ASSUME Shape, [Next]_vars
  PROVE  Writes
<1>1. run \in [Run -> RunRec]
  BY Tables
<1>2. UNCHANGED run => Writes
  BY DEF Writes, Untouched
<1>3. CASE UNCHANGED vars
  BY <1>2, <1>3 DEF vars
<1>4. CASE \E d \in Disp : Begin(d) \/ DispatchStep(d) \/ Abort(d)
  BY <1>4, RequestsWrite DEF Writes
<1>5. CASE \/ \E s \in Session : EveStarts(s)
           \/ \E s \in Session, out \in Outcome : EveEnds(s, out)
           \/ \E r \in Run : EveAcceptsLate(r)
  BY <1>2, <1>5 DEF EveStarts, EveEnds, EveAcceptsLate, others, database
<1>6. CASE \E r \in Run : \/ TailStep(r) \/ TailCap(r) \/ TailLost(r) \/ ObserveExpires(r)
                          \/ StopLive(r) \/ StopBegins(r) \/ StopSettles(r)
                          \/ SettleMet(r) \/ SettleUnresolved(r) \/ SettleObserves(r)
  BY <1>6, TailsWrite DEF Writes
<1>7. ASSUME NEW S \in SUBSET Run, Restart(S)
      PROVE  Writes
  <2>1. \A q \in Run : run'[q] = IF q \in S THEN settleOwing(run, q, "failed")[q] ELSE run[q]
    BY <1>7 DEF Restart
  <2>2. \A q \in Run :
           /\ settleOwing(run, q, "failed")[q].turn = run[q].turn
           /\ (settleOwing(run, q, "failed")[q].owed
                    <=> run[q].owed \/ run[q].st \in LiveStatus)
           /\ settleOwing(run, q, "failed")[q].st =
                IF run[q].st \in LiveStatus THEN "failed" ELSE run[q].st
    BY <1>1, SettleOwing DEF Terminal
  <2>3. Settled(S)
    BY <2>1, <2>2 DEF Settled
  <2> QED
    BY <1>7, <2>3 DEF Writes
<1>8. CASE Reconcile
  <2>1. CASE \E row \in recon.rows : ReconRow(row)
    <3>1. PICK row \in recon.rows : ReconRow(row)
      BY <2>1
    <3>2. row.run \in Run
      BY Tables DEF ReconRec, RowRec
    <3>3. "failed" \in LiveStatus \cup Terminal
      BY DEF Terminal
    <3>4. \/ UNCHANGED run
          \/ tail[row.run].st = "none" /\ run' = markRun(run, row.run, "failed")
      BY <3>1 DEF ReconRow
    <3> QED
      BY <1>2, <3>1, <3>2, <3>3, <3>4, Marking DEF Writes
  <2>2. CASE ReconSelects \/ ReconSelectsEveless \/ \E s \in Session : ReconEveless(s)
    BY <1>2, <2>2 DEF ReconSelects, ReconSelectsEveless, ReconEveless, database
  <2> QED
    BY <1>8, <2>1, <2>2 DEF Reconcile
<1> QED
  BY <1>3, <1>4, <1>5, <1>6, <1>7, <1>8 DEF Next

-----------------------------------------------------------------------------
(* Reading an event, row by row.                                            *)

\* A reader of the session s handles the start of y's turn.
ReadsStart(x, s, y) ==
    /\ eve[s].log[eve[s].cur + 1].type = "start"
    /\ \A q \in Run :
         /\ run'[q].turn <=> run[q].turn \/ (q = y /\ (y \in Followed(x) \/ IsOwn(x, y)
                                                       \/ IsSuccessor(x, y)))
         /\ run'[q].owed <=>
              run[q].owed /\ ~(/\ q \in Followed(x) \ {y}
                               /\ \/ run[q].turn
                                  \/ /\ y \notin Followed(x)
                                     /\ IsOwn(x, y) \/ IsSuccessor(x, y))
    /\ IF IsOwn(x, y) THEN tail'[x] = [tail[x] EXCEPT !.saw = TRUE]
       ELSE tail'[x] = tail[x] \/ tail'[x] = NoTail

\* A reader of the session s handles a boundary.
ReadsEnd(x, s) ==
    \E out :
      /\ eve[s].log[eve[s].cur + 1].type = "end"
      /\ eve[s].log[eve[s].cur + 1].out = out
      /\ \A q \in Run :
           /\ run'[q].turn <=> run[q].turn
           /\ run'[q].owed <=>
                run[q].owed /\ ~(q \in Followed(x) /\ (run[q].turn \/ out \in Dying))
      /\ IF tail[x].st = "follow" /\ (tail[x].saw \/ out = "session.failed")
         THEN tail'[x] = [tail[x] EXCEPT !.st = "ended", !.out = out]
         ELSE tail'[x] = tail[x] \/ tail'[x] = NoTail

\* A reader of the session s handles its next event, which is of y's turn.
Reads(x, s, y) ==
    /\ s = run[x].sess /\ run[x].st # "none"
    /\ tail[x].st \in {"follow", "observe"}
    /\ tail[x].st = "observe" => OwedRuns(s) # {}
    /\ eve[s].cur + 1 \in 1 .. Len(eve[s].log)
    /\ eve[s].log[eve[s].cur + 1].run = y
    /\ eve'[s].cur = eve[s].cur + 1
    /\ \A t \in Session : EveSteady(t) /\ (t # s => eve'[t] = eve[t])
    /\ UNCHANGED <<sess, stops, recon, limbo, crashes, lock, disp>>
    /\ \A q \in Run : run'[q].st = run[q].st
    /\ \A q \in Run \ {x} : tail'[q] = tail[q]
    /\ ReadsStart(x, s, y) \/ ReadsEnd(x, s)

\* What a reader does with the next event, row by row.
LEMMA TailReading ==
  ASSUME Shape, NEW x \in Run, TailReads(x)
  PROVE  \E s \in Session, y \in Run : Reads(x, s, y)
<1> DEFINE s0 == run[x].sess
           e0 == eve[s0].log[eve[s0].cur + 1]
<1>1. /\ tail[x].st \in {"follow", "observe"} /\ eve[s0].cur < Len(eve[s0].log)
      /\ tail[x].st = "observe" => OwedRuns(s0) # {}
      /\ eve' = [eve EXCEPT ![s0].cur = @ + 1]
      /\ UNCHANGED sess /\ UNCHANGED noTails
      /\ \/ e0.type = "start" /\ ReadStart(x, e0.run)
         \/ e0.type = "end" /\ ReadEnd(x, e0.run, e0.out)
  BY DEF TailReads
<1>2. PICK s \in Session : s = s0 /\ run[x].st # "none"
  BY <1>1 DEF Shape, RunShape
<1>3. run \in [Run -> RunRec] /\ tail \in [Run -> TailRec]
  BY Tables
<1>4. /\ eve[s].cur \in Nat /\ Len(eve[s].log) \in Nat
      /\ \A i \in 1 .. Len(eve[s].log) : eve[s].log[i].run \in Run
  BY EveTypes
<1>5. eve[s].cur + 1 \in 1 .. Len(eve[s].log)
  <2>1. PICK c \in Nat, l \in Nat : c = eve[s].cur /\ l = Len(eve[s].log)
    BY <1>4
  <2>2. c < l
    BY <1>1, <1>2, <2>1
  <2>3. c + 1 \in 1 .. l
    BY <2>2
  <2> QED
    BY <2>1, <2>3
<1>6. PICK e : e = e0
  OBVIOUS
<1>7. PICK y \in Run : y = e.run
  BY <1>2, <1>4, <1>5, <1>6
<1>8. (\A t \in Session : EveSteady(t) /\ (t # s => eve'[t] = eve[t]))
      /\ eve'[s].cur = eve[s].cur + 1
  <2> DEFINE row == [eve[s] EXCEPT !.cur = @ + 1]
  <2>1. eve' = [eve EXCEPT ![s] = row]
    BY <1>1, <1>2
  <2>2. eve \in [Session -> EveRec]
    BY Tables
  <2>3. /\ row.creates = eve[s].creates /\ row.dead = eve[s].dead
        /\ row.queue = eve[s].queue /\ row.open = eve[s].open /\ row.log = eve[s].log
        /\ row.cur = eve[s].cur + 1
    BY <2>2 DEF EveRec
  <2> HIDE DEF row
  <2>4. eve'[s] = row /\ \A t \in Session \ {s} : eve'[t] = eve[t]
    BY <2>1, <2>2
  <2>5. eve[s].cur < Len(eve[s].log)
    BY <1>1, <1>2
  <2> QED
    BY <2>3, <2>4, <2>5 DEF EveSteady
<1>9. ASSUME e.type = "start", ReadStart(x, y)
      PROVE  /\ \A q \in Run : run'[q].st = run[q].st
             /\ \A q \in Run \ {x} : tail'[q] = tail[q]
             /\ ReadsStart(x, s, y)
  <2> DEFINE obligation == y \in Followed(x)
             ours == ~obligation /\ (IsOwn(x, y) \/ IsSuccessor(x, y))
             over == {q \in Followed(x) \ {y} : run[q].turn \/ ours}
             cs == clearRemoteCancelPending(run, over)
             rs == [cs EXCEPT ![y].turn = @ \/ obligation \/ ours]
  <2>1. /\ run' = rs
        /\ IF IsOwn(x, y) THEN tail' = [tail EXCEPT ![x].saw = TRUE]
           ELSE AfterRead(x, rs)
    BY <1>9 DEF ReadStart
  <2>2. \A q \in Run : over = {p \in Followed(x) \ {y} : run[p].turn \/ ours}
    OBVIOUS
  <2>3. /\ cs \in [Run -> RunRec]
        /\ \A q \in Run : /\ cs[q].st = run[q].st /\ cs[q].turn = run[q].turn
                          /\ cs[q].owed <=> run[q].owed /\ q \notin over
    <3> HIDE DEF over
    <3> QED
      BY <1>3 DEF clearRemoteCancelPending, RunRec
  <2>4. PICK b \in BOOLEAN : b = (cs[y].turn \/ obligation \/ ours)
    OBVIOUS
  <2>5. run' = [cs EXCEPT ![y].turn = b]
    BY <2>1, <2>4
  <2>6. \A q \in Run : /\ run'[q].st = cs[q].st /\ (run'[q].owed <=> cs[q].owed)
                       /\ run'[q].turn = IF q = y THEN b ELSE cs[q].turn
    <3> HIDE DEF cs
    <3> QED
      BY <2>3, <2>5 DEF RunRec
  <2>7. \A q \in Run :
         /\ run'[q].st = run[q].st
         /\ run'[q].turn <=> run[q].turn \/ (q = y /\ (obligation \/ IsOwn(x, y)
                                                       \/ IsSuccessor(x, y)))
         /\ run'[q].owed <=>
              run[q].owed /\ ~(/\ q \in Followed(x) \ {y} /\ (run[q].turn \/ ours))
    <3>1. \A q \in Run : run'[q].st = run[q].st
      BY <2>3, <2>6
    <3>2. b <=> (run[y].turn \/ obligation \/ ours)
      BY <2>3, <2>4
    <3>3. \A q \in Run : run'[q].turn <=> run[q].turn \/ (q = y /\ (obligation \/ ours))
      BY <2>3, <2>6, <3>2
    <3>4. \A q \in Run : run'[q].owed <=> run[q].owed /\ q \notin over
      BY <2>3, <2>6
    <3> QED
      BY <3>1, <3>3, <3>4
  <2> HIDE DEF rs
  <2>8. CASE IsOwn(x, y)
    <3>1. tail' = [tail EXCEPT ![x].saw = TRUE]
      BY <2>1, <2>8
    <3>2. /\ tail'[x] = [tail[x] EXCEPT !.saw = TRUE]
          /\ \A q \in Run \ {x} : tail'[q] = tail[q]
      BY <1>3, <3>1
    <3> QED
      BY <1>2, <1>6, <1>9, <2>7, <2>8, <3>2 DEF ReadsStart
  <2>9. CASE ~IsOwn(x, y)
    <3>1. tail' = tail \/ tail' = [tail EXCEPT ![x] = NoTail]
      BY <2>1, <2>9 DEF AfterRead
    <3>2. /\ tail'[x] = tail[x] \/ tail'[x] = NoTail
          /\ \A q \in Run \ {x} : tail'[q] = tail[q]
      BY <1>3, <3>1
    <3> QED
      BY <1>2, <1>6, <1>9, <2>7, <2>9, <3>2 DEF ReadsStart
  <2> QED
    BY <2>8, <2>9
<1>10. ASSUME e.type = "end", ReadEnd(x, y, e.out)
       PROVE  /\ \A q \in Run : run'[q].st = run[q].st
              /\ \A q \in Run \ {x} : tail'[q] = tail[q]
              /\ ReadsEnd(x, s)
  <2> DEFINE dies == e.out \in {"session.completed", "session.failed"}
             R == {q \in Followed(x) : run[q].turn \/ dies}
             rs == clearRemoteCancelPending(run, R)
  <2>1. /\ run' = rs
        /\ IF tail[x].st = "follow" /\ (tail[x].saw \/ e.out = "session.failed")
           THEN tail' = [tail EXCEPT ![x].st = "ended", ![x].out = e.out]
           ELSE AfterRead(x, rs)
    BY <1>10 DEF ReadEnd
  <2> HIDE DEF rs, R
  <2>2. Freed(R)
    BY <2>1, Freeing DEF rs
  <2>3. \A q \in Run : /\ run'[q].st = run[q].st /\ (run'[q].turn <=> run[q].turn)
                       /\ run'[q].owed <=> run[q].owed
                            /\ ~(q \in Followed(x) /\ (run[q].turn \/ e.out \in Dying))
    BY <2>2 DEF Freed, R, Dying
  <2>4. CASE tail[x].st = "follow" /\ (tail[x].saw \/ e.out = "session.failed")
    <3>1. tail' = [tail EXCEPT ![x].st = "ended", ![x].out = e.out]
      BY <2>1, <2>4
    <3>2. /\ tail'[x] = [tail[x] EXCEPT !.st = "ended", !.out = e.out]
          /\ \A q \in Run \ {x} : tail'[q] = tail[q]
      BY <1>3, <3>1
    <3> QED
      BY <1>2, <1>6, <1>10, <2>3, <2>4, <3>2 DEF ReadsEnd
  <2>5. CASE ~(tail[x].st = "follow" /\ (tail[x].saw \/ e.out = "session.failed"))
    <3>1. tail' = tail \/ tail' = [tail EXCEPT ![x] = NoTail]
      BY <2>1, <2>5 DEF AfterRead
    <3>2. /\ tail'[x] = tail[x] \/ tail'[x] = NoTail
          /\ \A q \in Run \ {x} : tail'[q] = tail[q]
      BY <1>3, <3>1
    <3> QED
      BY <1>2, <1>6, <1>10, <2>3, <2>5, <3>2 DEF ReadsEnd
  <2> QED
    BY <2>4, <2>5
<1>11. /\ \A q \in Run : run'[q].st = run[q].st
       /\ \A q \in Run \ {x} : tail'[q] = tail[q]
       /\ ReadsStart(x, s, y) \/ ReadsEnd(x, s)
  BY <1>1, <1>6, <1>7, <1>9, <1>10
<1> QED
  BY <1>1, <1>2, <1>5, <1>6, <1>7, <1>8, <1>11 DEF Reads, noTails

-----------------------------------------------------------------------------
(* Who starts to follow, and who finishes.                                  *)

\* The tails that neither adopt a run nor read.
Idles == \A r \in Run :
    \/ tail'[r] = tail[r]
    \/ /\ tail'[r].st \notin {"follow", "ended"}
       /\ tail[r].st = "ended" => tail'[r].st = "none" \/ TailFinish(r)

\* A request adopts no run and finishes none.
LEMMA RequestIdles ==
  ASSUME Shape, NEW d \in Disp, Begin(d) \/ DispatchStep(d) \/ Abort(d)
  PROVE  Idles
<1>1. tail \in [Run -> TailRec] /\ run' \in [Run -> RunRec]
  <2>1. [Next]_vars
    BY DEF Next
  <2>2. TypeOK'
    BY <2>1, Kinds
  <2> QED
    BY <2>2, Tables, TypesNamed
<1>2. UNCHANGED tail => Idles
  BY DEF Idles
<1>3. CASE Begin(d)
  BY <1>2, <1>3 DEF Begin, LockFresh, LockSession, LockResume, LockReset, rest
<1>4. CASE Abort(d) \/ Reread(d) \/ AdmitFresh(d) \/ AdmitMessage(d) \/ AdmitResume(d)
           \/ Ensure(d) \/ Arm(d) \/ SendReturns(d) \/ Persist(d)
  BY <1>2, <1>4 DEF Abort, Reread, AdmitFresh, AdmitMessage, AdmitResume, Ensure, Arm,
     SendReturns, Persist, rest
<1>5. CASE FailGone(d) \/ FailEve(d) \/ FailRun(d) \/ FailSession(d) \/ ResetClose(d)
           \/ SendFails(d) \/ EveAnswers(d) \/ EveResets(d)
  BY <1>2, <1>5 DEF FailGone, FailEve, FailRun, FailSession, ResetClose, SendFails,
     EveAnswers, EveResets, rest, others
<1>6. Owner(d) => disp[d].run \in Run /\ disp[d].sess \in Session
  BY Request DEF Owner, OwnPc
<1>7. CASE Recheck(d)
  <2>1. Owner(d)
    BY <1>7 DEF Recheck, Owner, OwnPc
  <2>2. PICK r \in Run, s \in Session : r = disp[d].run /\ s = disp[d].sess
    BY <1>6, <2>1
  <2>3. UNCHANGED tail \/ tail' = startObservation(tail, run', s, r)
    BY <1>7, <2>2 DEF Recheck
  <2>4. \A q \in Run :
              \/ startObservation(tail, run', s, r)[q] = tail[q]
              \/ /\ q = r /\ tail[r].st = "none" /\ run'[r].owed
                 /\ startObservation(tail, run', s, r)[r].st = "observe"
    BY <1>1, StartObservationRow
  <2> QED
    BY <1>2, <2>3, <2>4 DEF Idles
<1>8. CASE StartTail(d)
  <2>1. Owner(d)
    BY <1>8 DEF StartTail, Owner, OwnPc
  <2>2. PICK r \in Run, s \in Session : r = disp[d].run /\ s = disp[d].sess
    BY <1>6, <2>1
  <2>3. tail' = startTail(tail, s, r)
    BY <1>8, <2>2 DEF StartTail
  <2>4. \A q \in Run :
              \/ startTail(tail, s, r)[q] = tail[q]
              \/ startTail(tail, s, r)[q] = NoTail
              \/ /\ q = r /\ tail[r].st = "none"
                 /\ startTail(tail, s, r)[r].st = "pre"
    BY <1>1, StartTailRow
  <2>5. NoTail.st = "none"
    BY DEF NoTail
  <2> QED
    BY <2>3, <2>4, <2>5 DEF Idles
<1> QED
  BY <1>3, <1>4, <1>5, <1>7, <1>8 DEF DispatchStep

\* Only an adoption and a reading bring a tail to follow or to its end.
LEMMA Tailing ==
  ASSUME Shape, [Next]_vars
  PROVE  Idles \/ \E r \in Run : TailAdopt(r) \/ TailReads(r)
<1>1. tail \in [Run -> TailRec] /\ run \in [Run -> RunRec] /\ NoTail.st = "none"
  BY Tables DEF NoTail
<1>2. UNCHANGED tail => Idles
  BY DEF Idles
<1>3. CASE UNCHANGED vars
  BY <1>2, <1>3 DEF vars
<1>4. CASE \E d \in Disp : Begin(d) \/ DispatchStep(d) \/ Abort(d)
  BY <1>4, RequestIdles
<1>5. CASE \/ \E s \in Session : EveStarts(s)
           \/ \E s \in Session, out \in Outcome : EveEnds(s, out)
           \/ \E r \in Run : EveAcceptsLate(r)
  BY <1>2, <1>5 DEF EveStarts, EveEnds, EveAcceptsLate, others
<1>6. ASSUME NEW r \in Run, EndTail(r)
      PROVE  Idles
  BY <1>1, <1>6 DEF EndTail, Idles
<1>7. ASSUME NEW r \in Run, NEW row, tail' = [tail EXCEPT ![r] = row],
             row.st \notin {"follow", "ended"}, tail[r].st # "ended" \/ TailFinish(r)
      PROVE  Idles
  BY <1>1, <1>7 DEF Idles
<1>8. ASSUME NEW r \in Run, TailFinish(r)
      PROVE  Idles
  <2>1. \/ EndTail(r)
        \/ tail' = [tail EXCEPT ![r] = [tail[r] EXCEPT !.st = "mark",
                                          !.out = SessionStatusAt(tail[r].out)]]
    BY <1>8 DEF TailFinish
  <2>2. [tail[r] EXCEPT !.st = "mark", !.out = SessionStatusAt(tail[r].out)].st = "mark"
    BY <1>1 DEF TailRec
  <2> QED
    BY <1>6, <1>7, <1>8, <2>1, <2>2
<1>9. ASSUME NEW r \in Run, TailMarksSession(r)
      PROVE  Idles
  <2>1. \/ EndTail(r)
        \/ tail' = [tail EXCEPT ![r] = [NoTail EXCEPT !.st = "observe"]]
           /\ tail[r].st = "stopping"
    BY <1>9 DEF TailMarksSession
  <2>2. [NoTail EXCEPT !.st = "observe"].st = "observe"
    BY DEF NoTail
  <2> QED
    BY <1>6, <1>7, <2>1, <2>2
<1>10. ASSUME NEW r \in Run, TailCap(r)
       PROVE  Idles
  <2>1. \/ EndTail(r)
        \/ /\ tail' = [tail EXCEPT ![r] = [tail[r] EXCEPT !.st = "observe"]]
           /\ tail[r].st \in {"pre", "follow"}
    BY <1>10 DEF TailCap, SetTail
  <2>2. [tail[r] EXCEPT !.st = "observe"].st = "observe"
    BY <1>1 DEF TailRec
  <2> QED
    BY <1>6, <1>7, <2>1, <2>2
<1>11. ASSUME NEW r \in Run, StopLive(r)
       PROVE  Idles
  <2>1. \/ EndTail(r)
        \/ \E st \in {"stopping", "mark"} :
             /\ tail' = [tail EXCEPT ![r] = [tail[r] EXCEPT !.out = "active", !.st = st]]
             /\ tail[r].st \in {"pre", "follow"}
    BY <1>11 DEF StopLive
  <2>2. \A st \in {"stopping", "mark"} :
          [tail[r] EXCEPT !.out = "active", !.st = st].st = st
    BY <1>1 DEF TailRec
  <2> QED
    BY <1>6, <1>7, <2>1, <2>2
<1>12. ASSUME NEW r \in Run, TailLost(r) \/ ObserveExpires(r) \/ StopBegins(r)
                             \/ StopSettles(r) \/ SettleMet(r) \/ SettleUnresolved(r)
       PROVE  Idles
  BY <1>2, <1>6, <1>12 DEF TailLost, ObserveExpires, StopBegins, StopSettles, SettleMet,
     SettleUnresolved
<1>13. ASSUME NEW r \in Run, SettleObserves(r)
       PROVE  Idles
  <2>1. \/ UNCHANGED tail
        \/ /\ tail' = [tail EXCEPT ![r] = [NoTail EXCEPT !.st = "observe"]]
           /\ tail[r].st = "none"
    BY <1>13 DEF SettleObserves, startObservation
  <2>2. [NoTail EXCEPT !.st = "observe"].st = "observe"
    BY DEF NoTail
  <2> QED
    BY <1>2, <1>7, <2>1, <2>2
<1>14. ASSUME NEW S, Restart(S)
       PROVE  Idles
  BY <1>1, <1>14 DEF Restart, Idles
<1>15. CASE Reconcile
  <2>1. ASSUME NEW row \in recon.rows, ReconRow(row)
        PROVE  Idles
    <3>1. row.run \in Run /\ run[row.run].sess \in Session
      <4>1. row.run \in Run
        BY Tables DEF ReconRec, RowRec
      <4> QED
        BY <4>1 DEF Shape, RowsShape, RunShape
    <3>2. UNCHANGED tail \/ tail' = startTail(tail, run[row.run].sess, row.run)
      BY <2>1 DEF ReconRow
    <3>3. PICK q \in Run, s \in Session : q = row.run /\ s = run[row.run].sess
      BY <3>1
    <3>4. \A p \in Run :
              \/ startTail(tail, s, q)[p] = tail[p]
              \/ startTail(tail, s, q)[p] = NoTail
              \/ /\ p = q /\ tail[q].st = "none"
                 /\ startTail(tail, s, q)[q].st = "pre"
      BY <1>1, StartTailRow
    <3> QED
      BY <1>1, <1>2, <3>2, <3>3, <3>4 DEF Idles
  <2>2. CASE ReconSelects \/ ReconSelectsEveless \/ \E s \in Session : ReconEveless(s)
    BY <1>2, <2>2 DEF ReconSelects, ReconSelectsEveless, ReconEveless
  <2> QED
    BY <1>15, <2>1, <2>2 DEF Reconcile
<1> QED
  BY <1>3, <1>4, <1>5, <1>8, <1>9, <1>10, <1>11, <1>12, <1>13, <1>14, <1>15
     DEF Next, TailStep

-----------------------------------------------------------------------------
(* The order of the turns is kept.                                          *)

\* A run's turn stays known until the run is sent again.
LEMMA TurnsHeld ==
  ASSUME Shape, [Next]_vars, NEW r \in Run, run[r].turn
  PROVE  \/ run'[r].turn
         \/ run[r].st = "none"
         \/ \E d \in Disp : /\ disp[d].pc = "arm" /\ disp[d].run = r
                            /\ run'[r].st = "queued"
<1>1. Writes
  BY StepsWrite
<1>2. Untouched => run'[r].turn
  BY DEF Untouched
<1>3. ASSUME NEW d \in Disp, RequestWrites(d)
      PROVE  \/ run'[r].turn
             \/ run[r].st = "none"
             \/ disp[d].pc = "arm" /\ disp[d].run = r /\ run'[r].st = "queued"
  <2>1. ASSUME NEW q \in Run, q = disp[d].run, Arm(d) /\ Queued(q)
        PROVE  run'[r].turn \/ (disp[d].pc = "arm" /\ disp[d].run = r /\ run'[r].st = "queued")
    BY <2>1 DEF Arm, Queued
  <2>2. ASSUME NEW q \in Run, run[q].st = "none", Queued(q)
        PROVE  run'[r].turn \/ run[r].st = "none"
    BY <2>2 DEF Queued
  <2>3. ASSUME NEW q \in Run, Queued(q), run'[q].turn = run[q].turn
        PROVE  run'[r].turn
    BY <2>3 DEF Queued
  <2>4. ASSUME NEW q \in Run, NEW st, Marked(q, st)
        PROVE  run'[r].turn
    BY <2>4 DEF Marked
  <2>5. ASSUME NEW R, Freed(R)
        PROVE  run'[r].turn
    BY <2>5 DEF Freed
  <2>6. ASSUME NEW q \in Run, Recharged(q)
        PROVE  run'[r].turn
    BY <2>6 DEF Recharged
  <2> QED
    BY <1>2, <1>3, <2>1, <2>2, <2>3, <2>4, <2>5, <2>6 DEF RequestWrites
<1>4. ASSUME NEW q \in Run, TailWrites(q)
      PROVE  run'[r].turn
  <2>1. ASSUME NEW st, Marked(q, st) \/ Charged(q, st)
        PROVE  run'[r].turn
    BY <2>1 DEF Marked, Charged
  <2>2. ASSUME NEW R, Freed(R)
        PROVE  run'[r].turn
    BY <2>2 DEF Freed
  <2>3. CASE TailReads(q)
    <3>1. PICK s \in Session, y \in Run : Reads(q, s, y)
      BY <2>3, TailReading
    <3> QED
      BY <3>1 DEF Reads, ReadsStart, ReadsEnd
  <2> QED
    BY <1>2, <1>4, <2>1, <2>2, <2>3 DEF TailWrites
<1>5. ASSUME NEW S \in SUBSET Run, Settled(S)
      PROVE  run'[r].turn
  BY <1>5 DEF Settled
<1>6. ASSUME NEW q \in Run, Marked(q, "failed")
      PROVE  run'[r].turn
  BY <1>6 DEF Marked
<1> QED
  BY <1>1, <1>2, <1>3, <1>4, <1>5, <1>6 DEF Writes

\* What eve knows of a session are turns of runs that exist.
LEMMA TracedRuns ==
  ASSUME Shape, Traced, NEW s \in Session, NEW r \in Run,
         \/ \E i \in 1 .. Len(eve[s].log) : eve[s].log[i].run = r
         \/ \E j \in Places(s) : eve[s].queue[j] = r
         \/ eve[s].open = r
         \/ r \in limbo /\ run[r].sess = s
  PROVE  run[r].st # "none" /\ run[r].sess = s
<1>1. TracedOf(s) /\ RunShape
  BY DEF Traced, Shape
<1>2. run[r].armed => run[r].st # "none"
  BY <1>1 DEF RunShape
<1>3. CASE eve[s].open = r
  <2>1. /\ Len(eve[s].log) # 0 /\ eve[s].log[Len(eve[s].log)].run = r
    BY <1>1, <1>3, Numbers DEF TracedOf
  <2>2. Len(eve[s].log) \in Nat
    BY EveTypes
  <2>3. Len(eve[s].log) \in 1 .. Len(eve[s].log)
    BY <2>1, <2>2
  <2> QED
    BY <1>1, <1>2, <2>1, <2>3 DEF TracedOf
<1>4. CASE r \in limbo /\ run[r].sess = s
  BY <1>1, <1>4 DEF RunShape
<1> QED
  BY <1>1, <1>2, <1>3, <1>4 DEF TracedOf

\* The openings of a session are events of its log.
LEMMA OpeningsIn ==
  ASSUME Shape, NEW s \in Session, NEW i \in Openings(s)
  PROVE  i \in 1 .. Len(eve[s].log) /\ eve[s].log[i].run \in Run
BY EveTypes DEF Openings

\* A run at its send is newer than anything of its session still on its way.
LEMMA SendLast ==
  ASSUME Inv, Traced, OwnNewest, SendClear, NEW d \in Disp, disp[d].pc = "send",
         NEW s, s = disp[d].sess
  PROVE  /\ s \in Session /\ disp[d].run \in Run /\ run[disp[d].run].sess = s
         /\ \A i \in Openings(s) : eve[s].log[i].run < disp[d].run
         /\ \A j \in Places(s) : eve[s].queue[j] < disp[d].run
         /\ \A r \in limbo : run[r].sess = s => r < disp[d].run
<1>1. Shape /\ Owner(d)
  BY DEF Inv, Owner, OwnPc
<1>2. PICK x \in Run : x = disp[d].run /\ run[x].sess = s /\ run[x].st # "none"
  BY <1>1, Request, Numbers DEF Owner, OwnPc
<1>3. s \in Session
  BY <1>1, Request DEF Owner, OwnPc
<1>4. ~Pending(x)
  BY <1>2 DEF SendClear, Clear
<1>5. ASSUME NEW r \in Run, run[r].st # "none", run[r].sess = s, r # x
      PROVE  r < x
  <2>1. r <= x
    BY <1>1, <1>2, <1>5 DEF OwnNewest
  <2> QED
    BY <1>5, <2>1, Numbers
<1>6. \A i \in Openings(s) : eve[s].log[i].run < x
  <2> TAKE i \in Openings(s)
  <2>1. i \in 1 .. Len(eve[s].log) /\ eve[s].log[i].run \in Run
    BY <1>1, <1>3, OpeningsIn
  <2>2. eve[s].log[i].run # x
    BY <1>2, <1>4 DEF Pending
  <2>3. PICK r \in Run : r = eve[s].log[i].run
    BY <2>1
  <2>4. run[r].st # "none" /\ run[r].sess = s
    BY <1>1, <1>3, <2>1, <2>3, TracedRuns
  <2> QED
    BY <1>5, <2>2, <2>3, <2>4
<1>7. \A j \in Places(s) : eve[s].queue[j] < x
  <2> TAKE j \in Places(s)
  <2>1. eve[s].queue[j] \in Run
    BY <1>1, <1>3, EveTypes DEF Places
  <2>2. eve[s].queue[j] # x
    BY <1>2, <1>4 DEF Pending
  <2>3. PICK r \in Run : r = eve[s].queue[j]
    BY <2>1
  <2>4. run[r].st # "none" /\ run[r].sess = s
    BY <1>1, <1>3, <2>1, <2>3, TracedRuns
  <2> QED
    BY <1>5, <2>2, <2>3, <2>4
<1>8. ASSUME NEW r \in limbo, run[r].sess = s
      PROVE  r < x
  <2>1. r \in Run /\ r # x
    BY <1>1, <1>4, Tables DEF Pending
  <2>2. run[r].st # "none"
    BY <1>1, <1>3, <1>8, <2>1, TracedRuns
  <2> QED
    BY <1>5, <1>8, <2>1, <2>2
<1> QED
  BY <1>2, <1>3, <1>6, <1>7, <1>8

\* eve works on turns that were sent to it.
LEMMA TracedStep ==
  ASSUME Inv, Traced, Step
  PROVE  Traced'
<1>1. Shape /\ LimboArmed /\ SendArmed
  BY DEF Inv, Creates
<1> SUFFICES ASSUME NEW s \in Session
             PROVE  TracedOf(s)'
  BY DEF Traced
<1>2. TracedOf(s)
  BY DEF Traced
<1>3. ASSUME NEW r \in Run, run[r].armed, run[r].sess = s
      PROVE  run'[r].armed /\ run'[r].sess = s
  BY <1>1, <1>3, RunsOfStay DEF Shape, RunShape
<1>4. /\ eve[s].cur \in Nat /\ Len(eve[s].log) \in Nat /\ Len(eve[s].queue) \in Nat
      /\ \A i \in 1 .. Len(eve[s].log) : eve[s].log[i].run \in Run
      /\ \A i \in 1 .. Len(eve[s].queue) : eve[s].queue[i] \in Run
  BY <1>1, EveTypes
<1>5. /\ \A i \in 1 .. Len(eve[s].log) :
           run'[eve[s].log[i].run].armed /\ run'[eve[s].log[i].run].sess = s
      /\ \A i \in 1 .. Len(eve[s].queue) :
           run'[eve[s].queue[i]].armed /\ run'[eve[s].queue[i]].sess = s
  BY <1>2, <1>3, <1>4 DEF TracedOf, Places
<1>6. CASE EveSteady(s)
  <2>1. eve'[s].cur <= Len(eve'[s].log)
    BY <1>2, <1>4, <1>6 DEF EveSteady, TracedOf
  <2> QED
    BY <1>2, <1>5, <1>6, <2>1 DEF EveSteady, TracedOf, Places
<1>7. CASE EveOpens(s)
  <2>1. /\ Len(eve'[s].log) = Len(eve[s].log) + 1
        /\ \A i \in 1 .. Len(eve[s].log) : eve'[s].log[i] = eve[s].log[i]
        /\ eve'[s].log[Len(eve[s].log) + 1].type = "start"
        /\ eve'[s].log[Len(eve[s].log) + 1].run = eve[s].queue[1]
        /\ Len(eve[s].queue) >= 1 /\ eve'[s].open = eve[s].queue[1]
        /\ Len(eve'[s].queue) = Len(eve[s].queue) - 1
        /\ \A j \in 1 .. Len(eve[s].queue) - 1 : eve'[s].queue[j] = eve[s].queue[j + 1]
        /\ eve'[s].cur = eve[s].cur
    BY <1>1, <1>7, Opened
  <2>2. 1 \in 1 .. Len(eve[s].queue)
    BY <1>4, <2>1
  <2>3. \A i \in 1 .. Len(eve'[s].log) : i \in 1 .. Len(eve[s].log) \/ i = Len(eve[s].log) + 1
    BY <1>4, <2>1
  <2>4. ASSUME NEW i \in 1 .. Len(eve'[s].log)
        PROVE  run'[eve'[s].log[i].run].armed /\ run'[eve'[s].log[i].run].sess = s
    <3>1. CASE i \in 1 .. Len(eve[s].log)
      BY <1>5, <2>1, <3>1
    <3>2. CASE i = Len(eve[s].log) + 1
      BY <1>5, <2>1, <2>2, <3>2
    <3> QED
      BY <2>3, <3>1, <3>2
  <2>5. \A j \in 1 .. Len(eve'[s].queue) :
          j \in 1 .. Len(eve[s].queue) - 1 /\ j + 1 \in 1 .. Len(eve[s].queue)
    BY <1>4, <2>1
  <2>6. ASSUME NEW j \in 1 .. Len(eve'[s].queue)
        PROVE  run'[eve'[s].queue[j]].armed /\ run'[eve'[s].queue[j]].sess = s
    <3>1. j \in 1 .. Len(eve[s].queue) - 1 /\ j + 1 \in 1 .. Len(eve[s].queue)
      BY <2>5
    <3>2. eve'[s].queue[j] = eve[s].queue[j + 1]
      BY <2>1, <3>1
    <3> QED
      BY <1>5, <3>1, <3>2
  <2>7. eve'[s].cur <= Len(eve'[s].log) /\ Len(eve'[s].log) # 0
    BY <1>2, <1>4, <2>1 DEF TracedOf
  <2> QED
    BY <2>1, <2>4, <2>6, <2>7 DEF TracedOf, Places
<1>8. CASE EveCloses(s)
  <2>1. /\ Len(eve'[s].log) = Len(eve[s].log) + 1
        /\ \A i \in 1 .. Len(eve[s].log) : eve'[s].log[i] = eve[s].log[i]
        /\ eve'[s].log[Len(eve[s].log) + 1].run = eve[s].open
        /\ eve[s].open # None /\ eve'[s].open = None
        /\ eve'[s].cur = eve[s].cur
        /\ eve'[s].queue = eve[s].queue \/ Len(eve'[s].queue) = 0
    BY <1>1, <1>8, Closed
  <2>2. run'[eve[s].open].armed /\ run'[eve[s].open].sess = s
    <3>1. PICK l \in Nat : l = Len(eve[s].log)
      BY <1>4
    <3>2. l \in 1 .. l /\ eve[s].log[l].run = eve[s].open
      BY <1>2, <2>1, <3>1 DEF TracedOf
    <3> QED
      BY <1>5, <3>1, <3>2
  <2>3. \A i \in 1 .. Len(eve'[s].log) : i \in 1 .. Len(eve[s].log) \/ i = Len(eve[s].log) + 1
    BY <1>4, <2>1
  <2>4. ASSUME NEW i \in 1 .. Len(eve'[s].log)
        PROVE  run'[eve'[s].log[i].run].armed /\ run'[eve'[s].log[i].run].sess = s
    <3>1. CASE i \in 1 .. Len(eve[s].log)
      BY <1>5, <2>1, <3>1
    <3>2. CASE i = Len(eve[s].log) + 1
      BY <2>1, <2>2, <3>2
    <3> QED
      BY <2>3, <3>1, <3>2
  <2>5. \A j \in 1 .. Len(eve'[s].queue) :
          run'[eve'[s].queue[j]].armed /\ run'[eve'[s].queue[j]].sess = s
    BY <1>5, <2>1
  <2>6. eve'[s].cur <= Len(eve'[s].log)
    BY <1>2, <1>4, <2>1 DEF TracedOf
  <2> QED
    BY <2>1, <2>4, <2>5, <2>6 DEF TracedOf, Places
<1>9. ASSUME NEW r \in Run, NEW n, EveTakes(s, r, n), run[r].armed, run[r].sess = s
      PROVE  TracedOf(s)'
  <2>1. /\ Len(eve'[s].queue) = Len(eve[s].queue) + 1
        /\ \A j \in 1 .. Len(eve[s].queue) : eve'[s].queue[j] = eve[s].queue[j]
        /\ eve'[s].queue[Len(eve[s].queue) + 1] = r
        /\ eve'[s].log = eve[s].log /\ eve'[s].cur = eve[s].cur
        /\ eve'[s].open = eve[s].open
    BY <1>1, <1>9, Taken
  <2>2. \A i \in 1 .. Len(eve'[s].queue) :
          i \in 1 .. Len(eve[s].queue) \/ i = Len(eve[s].queue) + 1
    BY <1>4, <2>1
  <2>3. ASSUME NEW j \in 1 .. Len(eve'[s].queue)
        PROVE  run'[eve'[s].queue[j]].armed /\ run'[eve'[s].queue[j]].sess = s
    <3>1. CASE j \in 1 .. Len(eve[s].queue)
      BY <1>5, <2>1, <3>1
    <3>2. CASE j = Len(eve[s].queue) + 1
      BY <1>3, <1>9, <2>1, <3>2
    <3> QED
      BY <2>2, <3>1, <3>2
  <2> QED
    BY <1>2, <1>5, <2>1, <2>3 DEF TracedOf, Places
<1>10. ASSUME NEW d \in Disp, Accepted(d), disp[d].sess = s,
              EveTakes(s, disp[d].run, IF disp[d].id THEN 0 ELSE 1)
       PROVE  TracedOf(s)'
  <2>1. disp[d].pc = "send" /\ Owner(d)
    BY <1>10 DEF Accepted, Owner, OwnPc
  <2>2. disp[d].run \in Run /\ run[disp[d].run].sess = s /\ run[disp[d].run].armed
    BY <1>1, <1>10, <2>1, Request, Numbers DEF SendArmed, OwnPc, Owner
  <2> QED
    BY <1>9, <1>10, <2>2
<1>11. ASSUME NEW r \in limbo, run[r].sess = s, EveTakes(s, r, IF sess[s].id THEN 0 ELSE 1)
       PROVE  TracedOf(s)'
  <2>1. r \in Run /\ run[r].armed
    BY <1>1, Tables DEF LimboArmed
  <2> QED
    BY <1>9, <1>11, <2>1
<1>12. CASE EveRetired(s)
  <2>1. Len(<<>>) = 0
    OBVIOUS
  <2> QED
    BY <1>2, <1>5, <1>12, <2>1 DEF EveRetired, TracedOf, Places
<1> QED
  BY <1>6, <1>7, <1>8, <1>10, <1>11, <1>12, EveTurn

\* Everything of the session s that is still to be seen to start is older than r.
Before(s, r) ==
    /\ \A i \in Openings(s) : eve[s].log[i].run < r
    /\ \A j \in Places(s) : eve[s].queue[j] < r

\* A send on its way is the newest its session has been sent.
LEMMA LimboLast ==
  ASSUME Inv, Traced, Ordered, OwnNewest, SendClear, Step, NEW s \in Session,
         NEW r \in limbo', run'[r].sess = s
  PROVE  Before(s, r)
<1>1. Shape /\ OrderedOf(s)
  BY DEF Inv, Ordered
<1>2. CASE r \in limbo
  <2>1. r \in Run
    BY <1>1, <1>2, Tables
  <2>2. run[r].st # "none"
    BY <1>1, <1>2, <2>1 DEF Shape, RunShape
  <2>3. run[r].sess = s
    BY <1>1, <2>1, <2>2, RunsOfStay
  <2> QED
    BY <1>1, <1>2, <2>3 DEF OrderedOf, Before
<1>3. ASSUME NEW d \in Disp, disp[d].pc = "send", disp[d].run = r
      PROVE  Before(s, r)
  <2>1. Owner(d)
    BY <1>3 DEF Owner, OwnPc
  <2>2. r \in Run /\ run[r].st # "none" /\ run[r].sess = disp[d].sess
    BY <1>1, <1>3, <2>1, Request DEF Owner, OwnPc
  <2>3. run[r].sess = s
    BY <1>1, <2>2, RunsOfStay
  <2> QED
    BY <1>3, <2>2, <2>3, SendLast DEF Before
<1> QED
  BY <1>1, <1>2, <1>3, LimboBirths

\* What eve has to open, and what is on its way to it, stays in order.
LEMMA OrderedStep ==
  ASSUME Inv, Traced, Ordered, OwnNewest, SendClear, Step
  PROVE  Ordered'
<1>1. Shape
  BY DEF Inv
<1> SUFFICES ASSUME NEW s \in Session
             PROVE  OrderedOf(s)'
  BY DEF Ordered
<1>2. OrderedOf(s)
  BY DEF Ordered
<1>3. ASSUME NEW r \in limbo', run'[r].sess = s
      PROVE  Before(s, r)
  BY <1>3, LimboLast
<1>4. /\ eve[s].cur \in Nat /\ Len(eve[s].log) \in Nat /\ Len(eve[s].queue) \in Nat
      /\ eve[s].cur <= Len(eve[s].log)
  BY <1>1, EveTypes DEF Traced, TracedOf
<1>5. CASE EveSteady(s)
  <2>1. /\ \A i \in Openings(s)' : i \in Openings(s)
        /\ eve'[s].log = eve[s].log /\ eve'[s].queue = eve[s].queue
    BY <1>4, <1>5 DEF EveSteady, Openings
  <2> QED
    BY <1>2, <1>3, <2>1 DEF OrderedOf, Places, Before
<1>6. CASE EveOpens(s)
  <2>1. /\ Len(eve'[s].log) = Len(eve[s].log) + 1
        /\ \A i \in 1 .. Len(eve[s].log) : eve'[s].log[i] = eve[s].log[i]
        /\ eve'[s].log[Len(eve[s].log) + 1].run = eve[s].queue[1]
        /\ Len(eve[s].queue) >= 1
        /\ Len(eve'[s].queue) = Len(eve[s].queue) - 1
        /\ \A j \in 1 .. Len(eve[s].queue) - 1 : eve'[s].queue[j] = eve[s].queue[j + 1]
        /\ eve'[s].cur = eve[s].cur
    BY <1>1, <1>6, Opened
  <2>2. 1 \in Places(s)
    BY <1>4, <2>1 DEF Places
  <2>3. ASSUME NEW j \in Places(s)'
        PROVE  /\ j \in Int /\ j + 1 \in Places(s) /\ 1 < j + 1
               /\ eve'[s].queue[j] = eve[s].queue[j + 1]
    <3>1. j \in 1 .. Len(eve[s].queue) - 1
      BY <2>1 DEF Places
    <3> QED
      BY <1>4, <2>1, <3>1 DEF Places
  <2>4. ASSUME NEW i \in Openings(s)'
        PROVE  /\ i \in Int
               /\ \/ i \in Openings(s) /\ eve'[s].log[i].run = eve[s].log[i].run
                     /\ i <= Len(eve[s].log)
                  \/ i = Len(eve[s].log) + 1 /\ eve'[s].log[i].run = eve[s].queue[1]
    <3>1. i \in eve[s].cur + 1 .. Len(eve[s].log) + 1 /\ eve'[s].log[i].type = "start"
      BY <2>1 DEF Openings
    <3>2. CASE i = Len(eve[s].log) + 1
      BY <2>1, <3>1, <3>2
    <3>3. CASE i # Len(eve[s].log) + 1
      <4>1. i \in eve[s].cur + 1 .. Len(eve[s].log) /\ i \in 1 .. Len(eve[s].log)
        BY <1>4, <3>1, <3>3
      <4>2. eve'[s].log[i] = eve[s].log[i]
        BY <2>1, <4>1
      <4> QED
        BY <1>4, <3>1, <4>1, <4>2 DEF Openings
    <3> QED
      BY <3>2, <3>3
  <2>5. ASSUME NEW i \in Openings(s)', NEW j \in Openings(s)', i < j
        PROVE  eve'[s].log[i].run < eve'[s].log[j].run
    <3>1. i # Len(eve[s].log) + 1
      BY <1>4, <2>4, <2>5
    <3>2. i \in Openings(s) /\ eve'[s].log[i].run = eve[s].log[i].run
      BY <2>4, <3>1
    <3>3. CASE j \in Openings(s) /\ eve'[s].log[j].run = eve[s].log[j].run
      BY <1>2, <2>5, <3>2, <3>3 DEF OrderedOf
    <3>4. CASE eve'[s].log[j].run = eve[s].queue[1]
      BY <1>2, <2>2, <3>2, <3>4 DEF OrderedOf
    <3> QED
      BY <2>4, <3>3, <3>4
  <2>6. ASSUME NEW i \in Places(s)', NEW j \in Places(s)', i < j
        PROVE  eve'[s].queue[i] < eve'[s].queue[j]
    <3>1. i + 1 < j + 1
      BY <2>3, <2>6
    <3>2. eve[s].queue[i + 1] < eve[s].queue[j + 1]
      BY <1>2, <2>3, <3>1 DEF OrderedOf
    <3> QED
      BY <2>3, <3>2
  <2>7. ASSUME NEW i \in Openings(s)', NEW j \in Places(s)'
        PROVE  eve'[s].log[i].run < eve'[s].queue[j]
    <3>1. CASE i \in Openings(s) /\ eve'[s].log[i].run = eve[s].log[i].run
      BY <1>2, <2>3, <3>1 DEF OrderedOf
    <3>2. CASE eve'[s].log[i].run = eve[s].queue[1]
      BY <1>2, <2>2, <2>3, <3>2 DEF OrderedOf
    <3> QED
      BY <2>4, <3>1, <3>2
  <2>8. ASSUME NEW r \in limbo', run'[r].sess = s
        PROVE  /\ \A i \in Openings(s)' : eve'[s].log[i].run < r
               /\ \A j \in Places(s)' : eve'[s].queue[j] < r
    <3>1. Before(s, r)
      BY <1>3, <2>8
    <3>2. \A i \in Openings(s)' : eve'[s].log[i].run < r
      BY <2>2, <2>4, <3>1 DEF Before
    <3>3. \A j \in Places(s)' : eve'[s].queue[j] < r
      BY <2>3, <3>1 DEF Before
    <3> QED
      BY <3>2, <3>3
  <2> QED
    BY <2>5, <2>6, <2>7, <2>8 DEF OrderedOf
<1>7. CASE EveCloses(s)
  <2>1. /\ Len(eve'[s].log) = Len(eve[s].log) + 1
        /\ \A i \in 1 .. Len(eve[s].log) : eve'[s].log[i] = eve[s].log[i]
        /\ eve'[s].log[Len(eve[s].log) + 1].type = "end"
        /\ eve'[s].cur = eve[s].cur
        /\ eve'[s].queue = eve[s].queue \/ Len(eve'[s].queue) = 0
    BY <1>1, <1>7, Closed
  <2>2. ASSUME NEW i \in Openings(s)'
        PROVE  i \in Openings(s) /\ eve'[s].log[i] = eve[s].log[i]
    <3>1. i \in eve[s].cur + 1 .. Len(eve[s].log) + 1 /\ eve'[s].log[i].type = "start"
      BY <2>1 DEF Openings
    <3>2. i # Len(eve[s].log) + 1
      BY <2>1, <3>1
    <3>3. i \in eve[s].cur + 1 .. Len(eve[s].log) /\ i \in 1 .. Len(eve[s].log)
      BY <1>4, <3>1, <3>2
    <3> QED
      BY <2>1, <3>1, <3>3 DEF Openings
  <2>3. \A j \in Places(s)' : j \in Places(s) /\ eve'[s].queue[j] = eve[s].queue[j]
    BY <2>1 DEF Places
  <2> QED
    BY <1>2, <1>3, <2>2, <2>3 DEF OrderedOf, Before
<1>8. ASSUME NEW x \in Run, NEW n, EveTakes(s, x, n), Before(s, x),
             \A r \in limbo' : run'[r].sess = s => x < r
      PROVE  OrderedOf(s)'
  <2>1. /\ Len(eve'[s].queue) = Len(eve[s].queue) + 1
        /\ \A j \in 1 .. Len(eve[s].queue) : eve'[s].queue[j] = eve[s].queue[j]
        /\ eve'[s].queue[Len(eve[s].queue) + 1] = x
        /\ eve'[s].log = eve[s].log /\ eve'[s].cur = eve[s].cur
    BY <1>1, <1>8, Taken
  <2>2. Openings(s)' = Openings(s)
    BY <2>1 DEF Openings
  <2>3. ASSUME NEW j \in Places(s)'
        PROVE  /\ j \in Int
               /\ \/ j \in Places(s) /\ eve'[s].queue[j] = eve[s].queue[j]
                     /\ j <= Len(eve[s].queue)
                  \/ j = Len(eve[s].queue) + 1 /\ eve'[s].queue[j] = x
    BY <1>4, <2>1 DEF Places
  <2>4. ASSUME NEW i \in Places(s)', NEW j \in Places(s)', i < j
        PROVE  eve'[s].queue[i] < eve'[s].queue[j]
    <3>1. i # Len(eve[s].queue) + 1
      BY <1>4, <2>3, <2>4
    <3>2. i \in Places(s) /\ eve'[s].queue[i] = eve[s].queue[i]
      BY <2>3, <3>1
    <3>3. CASE j \in Places(s) /\ eve'[s].queue[j] = eve[s].queue[j]
      BY <1>2, <2>4, <3>2, <3>3 DEF OrderedOf
    <3>4. CASE eve'[s].queue[j] = x
      BY <1>8, <3>2, <3>4 DEF Before
    <3> QED
      BY <2>3, <3>3, <3>4
  <2>5. ASSUME NEW i \in Openings(s), NEW j \in Places(s)'
        PROVE  eve[s].log[i].run < eve'[s].queue[j]
    BY <1>2, <1>8, <2>3 DEF OrderedOf, Before
  <2>6. ASSUME NEW r \in limbo', run'[r].sess = s
        PROVE  /\ \A i \in Openings(s) : eve[s].log[i].run < r
               /\ \A j \in Places(s)' : eve'[s].queue[j] < r
    BY <1>3, <1>8, <2>3, <2>6 DEF Before
  <2> QED
    BY <1>2, <2>1, <2>2, <2>4, <2>5, <2>6 DEF OrderedOf
<1>9. ASSUME NEW d \in Disp, Accepted(d), disp[d].sess = s,
             EveTakes(s, disp[d].run, IF disp[d].id THEN 0 ELSE 1)
      PROVE  OrderedOf(s)'
  <2>1. disp[d].pc = "send" /\ UNCHANGED <<run, limbo>>
        /\ \A r \in limbo : run[r].sess # s
    BY <1>9 DEF Accepted
  <2>2. disp[d].run \in Run /\ Before(s, disp[d].run)
    BY <1>9, <2>1, SendLast DEF Before
  <2> QED
    BY <1>8, <1>9, <2>1, <2>2
<1>10. ASSUME NEW r \in limbo, EveAcceptsLate(r), run[r].sess = s, limbo' = limbo \ {r},
              EveTakes(s, r, IF sess[s].id THEN 0 ELSE 1)
       PROVE  OrderedOf(s)'
  <2>1. limbo \subseteq Run /\ run' = run
    BY <1>1, <1>10, Tables DEF EveAcceptsLate, others, database
  <2>2. \A q \in limbo : run[q].sess = s => r <= q
    BY <1>10 DEF EveAcceptsLate
  <2>3. \A q \in limbo' : run'[q].sess = s => r < q
    BY <1>10, <2>1, <2>2, Numbers
  <2>4. Before(s, r)
    BY <1>2, <1>10 DEF OrderedOf, Before
  <2> QED
    BY <1>8, <1>10, <2>1, <2>3, <2>4
<1>11. CASE EveRetired(s)
  <2>1. Len(<<>>) = 0
    OBVIOUS
  <2>2. Openings(s)' = Openings(s) /\ eve'[s].log = eve[s].log
    BY <1>11 DEF EveRetired, Openings
  <2>3. \A j \in Places(s)' : FALSE
    BY <1>11, <2>1 DEF EveRetired, Places
  <2> QED
    BY <1>2, <1>3, <2>2, <2>3 DEF OrderedOf, Before
<1> QED
  BY <1>5, <1>6, <1>7, <1>9, <1>10, <1>11, EveTurn

\* A live run is its session's newest: a run is admitted beside none that is
\* live, and gets the next number.
LEMMA LiveNewestStep ==
  ASSUME Shape, LiveNewest, Step
  PROVE  LiveNewest'
<1> SUFFICES ASSUME NEW r \in Run, run'[r].st \in LiveStatus,
                    NEW q \in Run, run'[q].st # "none", run'[q].sess = run'[r].sess
             PROVE  q <= r
  BY DEF LiveNewest
<1>1. run'[r].st # "none"
  BY DEF LiveStatus
<1>2. ASSUME NEW d \in Disp, Admits(d, r), run[r].st = "none"
      PROVE  q <= r
  <2>1. q = r \/ run[q].st # "none"
    BY <1>2 DEF Admits
  <2>2. ~(r < q)
    BY <1>2, <2>1, Numbers DEF Shape, RunShape
  <2> QED
    BY <2>2, Numbers
<1>3. CASE run[r].st \in LiveStatus /\ run[r].st # "none"
  <2>1. run'[r].sess = run[r].sess
    BY <1>3, RunsOfStay
  <2>2. ASSUME NEW d \in Disp, Admits(d, q), run[q].st = "none"
        PROVE  FALSE
    BY <1>3, <2>1, <2>2 DEF Admits, NoRun
  <2>3. CASE run[q].st # "none"
    BY <1>3, <2>1, <2>3, RunsOfStay DEF LiveNewest
  <2> QED
    BY <2>2, <2>3, Births
<1> QED
  BY <1>1, <1>2, <1>3, Births

\* The run a request owns is its session's newest.
LEMMA OwnNewestStep ==
  ASSUME Inv, LiveNewest, OwnNewest, Step
  PROVE  OwnNewest'
<1>1. Shape
  BY DEF Inv
<1> SUFFICES ASSUME NEW d \in Disp, Owner(d)', NEW s, disp'[d].sess = s,
                    NEW q \in RunsOf(s)'
             PROVE  q <= disp'[d].run
  BY DEF OwnNewest, RunsOf
<1>2. CASE disp'[d] = disp[d]
  <2>1. Owner(d) /\ disp[d].sess = s /\ disp[d].pc # "idle"
    BY <1>2 DEF Owner, OwnPc
  <2>2. q \in RunsOf(s)
    BY <1>2, <2>1, Beside
  <2> QED
    BY <1>2, <2>1, <2>2 DEF OwnNewest, RunsOf
<1>3. CASE Begins(d)
  BY <1>1, <1>3, Starts DEF Owner, OwnPc
<1>4. CASE Works(d)
  <2>1. disp[d].sess = s /\ disp[d].kind = disp'[d].kind /\ s \in Session
    BY <1>1, <1>4, Targets, Movers, Request DEF Owner, OwnPc
  <2>2. ASSUME NEW r \in Run, Admits(d, r)
        PROVE  q <= disp'[d].run
    <3>1. disp'[d].run = r /\ run[r].st = "none" /\ q \in Run
      BY <2>2 DEF Admits, RunsOf
    <3>2. q = r \/ run[q].st # "none"
      BY <2>2 DEF Admits, RunsOf
    <3>3. ~(r < q)
      BY <1>1, <3>1, <3>2, Numbers DEF Shape, RunShape
    <3> QED
      BY <3>1, <3>3, Numbers
  <2>3. CASE Arms(d) \/ Accepted(d) \/ Persists(d) \/ \E p \in DispPc : Pass(d, p)
    <3>1. Owner(d) /\ disp'[d].run = disp[d].run
      BY <2>3 DEF Arms, Accepted, Persists, Pass, Moves, Owner, OwnPc
    <3>2. RunsKept \/ UNCHANGED run \/ (Arms(d) /\ run[disp[d].run].st # "none")
      BY <1>1, <2>3, RunRows DEF Accepted, Persists, Pass, Arms, Owner, OwnPc
    <3>3. q \in RunsOf(s)
      BY <2>1, <3>2, RunsOfKept
    <3> QED
      BY <2>1, <3>1, <3>3 DEF OwnNewest, RunsOf
  <2>4. CASE Flips(d)
    <3>1. /\ disp[d].pc = "admit" /\ disp[d].kind = "resume"
          /\ disp'[d].run = disp[d].run /\ run[disp[d].run].st = "waiting" /\ RunsKept
      BY <2>4 DEF Flips
    <3>2. disp[d].run \in Run /\ run[disp[d].run].sess = s
      BY <1>1, <2>1, <3>1 DEF Shape, RequestShape, RequestOf
    <3>3. q \in RunsOf(s)
      BY <2>1, <3>1, RunsOfKept
    <3> QED
      BY <3>1, <3>2, <3>3 DEF LiveNewest, RunsOf, LiveStatus
  <2> QED
    BY <1>4, <2>2, <2>3, <2>4, Owners
<1> QED
  BY <1>2, <1>3, <1>4, Turn DEF Idle, Owner, OwnPc

\* What is cleared stays so, unless a request sends it.
LEMMA ClearStays ==
  ASSUME Inv, Traced, Step, NEW r \in Run, run[r].st # "none", Clear(r), ~Leaves(r)
  PROVE  Clear(r)'
<1>1. Pending(r)' => Pending(r) \/ Leaves(r)
  BY OutGrows
<1>2. eve'[run[r].sess].open = r => eve[run[r].sess].open = r \/ Pending(r)
  BY OutGrows
<1>3. run'[r].sess = run[r].sess
  BY RunsOfStay DEF Inv
<1> QED
  BY <1>1, <1>2, <1>3 DEF Clear

\* Who leaves its send is the newest of its session, and its turn is not known.
LEMMA LeaverNewest ==
  ASSUME Inv, OwnNewest, SendClear, NEW r \in Run, Leaves(r)
  PROVE  /\ ~run[r].turn
         /\ \A q \in Run : run[q].st # "none" /\ run[q].sess = run[r].sess => q <= r
<1>1. PICK d \in Disp : disp[d].pc = "send" /\ disp[d].run = r
  BY DEF Leaves
<1>2. Owner(d)
  BY <1>1 DEF Owner, OwnPc
<1>3. run[r].sess = disp[d].sess
  BY <1>1, <1>2, Request DEF Inv, Owner, OwnPc
<1> QED
  BY <1>1, <1>2, <1>3 DEF SendClear, OwnNewest

\* The reader of y's opening: y is the oldest that was outstanding, and is not
\* any more.
LEMMA OpeningRead ==
  ASSUME Inv, Traced, Ordered, Step, NEW x \in Run, NEW s \in Session, NEW y \in Run,
         Reads(x, s, y), eve[s].log[eve[s].cur + 1].type = "start"
  PROVE  /\ run[y].armed /\ run[y].sess = s /\ run[y].st # "none"
         /\ Pending(y) /\ ~Pending(y)'
         /\ \A r \in Run : run[r].st # "none" /\ run[r].sess = s /\ r < y => Clear(r)
<1>1. Shape /\ TracedOf(s) /\ OrderedOf(s)
  BY DEF Inv, Traced, Ordered
<1>2. PICK c \in Nat, l \in Nat : c = eve[s].cur /\ l = Len(eve[s].log)
  BY <1>1, EveTypes
<1>3. /\ c + 1 \in 1 .. l /\ eve[s].log[c + 1].run = y
      /\ eve'[s].cur = c + 1 /\ EveSteady(s) /\ limbo' = limbo
  BY <1>2 DEF Reads
<1>4. run[y].armed /\ run[y].sess = s
  BY <1>1, <1>2, <1>3 DEF TracedOf
<1>5. run[y].st # "none"
  BY <1>1, <1>4 DEF Shape, RunShape
<1>6. c + 1 \in Openings(s)
  BY <1>2, <1>3 DEF Openings
<1>7. Pending(y)
  BY <1>2, <1>3, <1>4, <1>6 DEF Pending
<1>8. /\ \A i \in Openings(s) : i # c + 1 => y < eve[s].log[i].run
      /\ \A j \in Places(s) : y < eve[s].queue[j]
      /\ \A r \in limbo : run[r].sess = s => y < r
  <2>1. \A i \in Openings(s) : i # c + 1 => c + 1 < i
    BY <1>2 DEF Openings
  <2> QED
    BY <1>1, <1>2, <1>3, <1>6, <2>1 DEF OrderedOf
<1>9. y \in Nat
  BY Numbers
<1>10. ~Pending(y)'
  <2>1. run'[y].sess = s
    BY <1>1, <1>4, <1>5, RunsOfStay
  <2>2. \A i \in Openings(s)' : i \in Openings(s) /\ i # c + 1 /\ eve'[s].log[i] = eve[s].log[i]
    BY <1>2, <1>3 DEF Openings, EveSteady
  <2>3. eve'[s].queue = eve[s].queue
    BY <1>3 DEF EveSteady
  <2> QED
    BY <1>3, <1>4, <1>8, <1>9, <2>1, <2>2, <2>3 DEF Pending, Places
<1>11. ASSUME NEW r \in Run, run[r].st # "none", run[r].sess = s, r < y
       PROVE  Clear(r)
  <2>1. r \in Nat /\ r # None
    BY Numbers
  <2>2. ~Pending(r)
    BY <1>2, <1>3, <1>8, <1>9, <1>11, <2>1 DEF Pending
  <2>3. eve[s].open # r
    <3>1. SUFFICES ASSUME eve[s].open = r
                   PROVE  FALSE
      OBVIOUS
    <3>2. eve[s].log[l].type = "start" /\ eve[s].log[l].run = r
      BY <1>1, <1>2, <2>1, <3>1 DEF TracedOf
    <3>3. l \in Openings(s)
      BY <1>2, <1>3, <3>2 DEF Openings
    <3> QED
      BY <1>11, <2>2, <3>2, <3>3 DEF Pending
  <2> QED
    BY <1>11, <2>2, <2>3 DEF Clear
<1> QED
  BY <1>4, <1>5, <1>7, <1>10, <1>11

\* What is read was pending.
LEMMA ReadPending ==
  ASSUME Inv, Traced, NEW x \in Run, NEW s \in Session, NEW y \in Run,
         Reads(x, s, y), eve[s].log[eve[s].cur + 1].type = "start"
  PROVE  Pending(y)
<1>1. Shape /\ TracedOf(s)
  BY DEF Inv, Traced
<1>2. PICK c \in Nat, l \in Nat : c = eve[s].cur /\ l = Len(eve[s].log)
  BY <1>1, EveTypes
<1>3. c + 1 \in 1 .. l /\ eve[s].log[c + 1].run = y
  BY <1>2 DEF Reads
<1>4. run[y].sess = s
  BY <1>1, <1>2, <1>3 DEF TracedOf
<1>5. c + 1 \in Openings(s)
  BY <1>2, <1>3 DEF Openings
<1> QED
  BY <1>2, <1>3, <1>4, <1>5 DEF Pending

\* A turn that was seen to start: older ones are over.
LEMMA TurnKnownStep ==
  ASSUME Inv, Traced, Ordered, OwnNewest, TurnKnown, SendClear, [Next]_vars, Step
  PROVE  TurnKnown'
<1>1. Shape
  BY DEF Inv
<1> SUFFICES ASSUME NEW q \in Run, run'[q].turn
             PROVE  /\ run'[q].armed /\ ~Pending(q)'
                    /\ \A r \in Run : run'[r].st # "none" /\ run'[r].sess = run'[q].sess
                                        /\ r < q => Clear(r)'
  BY DEF TurnKnown
<1>2. ASSUME run[q].armed, ~Pending(q)',
             \A r \in Run : run[r].st # "none" /\ run[r].sess = run[q].sess /\ r < q => Clear(r)
      PROVE  /\ run'[q].armed /\ ~Pending(q)'
             /\ \A r \in Run : run'[r].st # "none" /\ run'[r].sess = run'[q].sess
                                 /\ r < q => Clear(r)'
  <2>1. run[q].st # "none"
    BY <1>1, <1>2 DEF Shape, RunShape
  <2>2. run'[q].armed /\ run'[q].sess = run[q].sess
    BY <1>1, <1>2, <2>1, RunsOfStay
  <2>3. ASSUME NEW r \in Run, run'[r].sess = run'[q].sess, r < q
        PROVE  Clear(r)'
    <3>1. run[r].st # "none"
      BY <1>1, <2>1, <2>3 DEF Shape, RunShape
    <3>2. run[r].sess = run[q].sess
      BY <1>1, <2>2, <2>3, <3>1, RunsOfStay
    <3>3. ~Leaves(r)
      <4>1. Leaves(r) => q <= r
        BY <2>1, <3>2, LeaverNewest
      <4> QED
        BY <2>3, <4>1, Numbers
    <3> QED
      BY <1>2, <2>3, <3>1, <3>2, <3>3, ClearStays
  <2> QED
    BY <1>2, <2>2, <2>3
<1>3. CASE run[q].turn
  <2>1. /\ run[q].armed /\ ~Pending(q)
        /\ \A r \in Run : run[r].st # "none" /\ run[r].sess = run[q].sess /\ r < q => Clear(r)
    BY <1>3 DEF TurnKnown
  <2>2. run[q].st # "none"
    BY <1>1, <2>1 DEF Shape, RunShape
  <2>3. ~Leaves(q)
    BY <1>3, LeaverNewest
  <2>4. ~Pending(q)'
    BY <2>1, <2>2, <2>3, OutGrows
  <2> QED
    BY <1>2, <2>1, <2>4
<1>4. CASE ~run[q].turn
  <2>1. PICK x \in Run, s \in Session, y \in Run : Reads(x, s, y)
    BY <1>1, <1>4, Readings, TailReading DEF Unattributed
  <2>2. q = y /\ eve[s].log[eve[s].cur + 1].type = "start"
    BY <1>4, <2>1 DEF Reads, ReadsStart, ReadsEnd
  <2>3. /\ run[y].armed /\ run[y].sess = s /\ ~Pending(y)'
        /\ \A r \in Run : run[r].st # "none" /\ run[r].sess = s /\ r < y => Clear(r)
    BY <2>1, <2>2, OpeningRead
  <2> QED
    BY <1>2, <2>2, <2>3
<1> QED
  BY <1>3, <1>4

\* A run that has not been armed is nowhere at eve.
LEMMA UnsentClear ==
  ASSUME Shape, Traced, NEW r \in Run, run[r].st = "none"
  PROVE  /\ r \notin limbo
         /\ \A s \in Session : /\ eve[s].open # r
                               /\ \A i \in Places(s) : eve[s].queue[i] # r
                               /\ \A i \in Openings(s) : eve[s].log[i].run # r
<1>1. r \notin limbo
  BY DEF Shape, RunShape
<1>2. ASSUME NEW s \in Session
      PROVE  /\ eve[s].open # r
             /\ \A i \in Places(s) : eve[s].queue[i] # r
             /\ \A i \in Openings(s) : eve[s].log[i].run # r
  <2>1. \A i \in Openings(s) : i \in 1 .. Len(eve[s].log)
    BY OpeningsIn
  <2> QED
    BY <2>1, TracedRuns
<1> QED
  BY <1>1, <1>2

\* Before it is sent, a turn is nowhere at eve: a parked run's is over.
LEMMA SendClearStep ==
  ASSUME Inv, ~EarlyTraffic, Traced, TurnKnown, SendClear, Parked, [Next]_vars, Step
  PROVE  SendClear'
<1>1. Shape
  BY DEF Inv
<1> SUFFICES ASSUME NEW d \in Disp, disp'[d].pc \in {"ensure", "arm", "send"},
                    NEW r, r = disp'[d].run
             PROVE  Clear(r)' /\ (disp'[d].pc = "send" => ~run'[r].turn)
  BY DEF SendClear, Clear, Pending, Places, Openings
<1>2. CASE disp'[d] = disp[d]
  <2>1. Owner(d)
    BY <1>2 DEF Owner, OwnPc
  <2>2. r \in Run /\ r = disp[d].run /\ run[r].st # "none" /\ run[r].sess = disp[d].sess
    BY <1>1, <1>2, <2>1, Request DEF Owner, OwnPc
  <2>3. Clear(r) /\ (disp[d].pc = "send" => ~run[r].turn)
    BY <1>2, <2>2 DEF SendClear
  <2>4. ~Leaves(r)
    <3> SUFFICES ASSUME NEW e \in Disp, disp[e].pc = "send", disp[e].run = r,
                        disp'[e].pc # "send"
                 PROVE  FALSE
      BY DEF Leaves
    <3>1. lock[disp[d].sess] = d /\ lock[disp[e].sess] = e
      BY <1>1, <2>1, Request DEF Owner, OwnPc
    <3>2. run[r].sess = disp[e].sess
      BY <1>1, Request DEF Owner, OwnPc
    <3> QED
      BY <1>2, <2>2, <3>1, <3>2
  <2>5. Clear(r)'
    BY <2>2, <2>3, <2>4, ClearStays
  <2>6. ASSUME disp[d].pc = "send", run'[r].turn
        PROVE  FALSE
    <3>1. PICK x \in Run, s \in Session, y \in Run : Reads(x, s, y)
      BY <1>1, <2>2, <2>3, <2>6, Readings, TailReading DEF Unattributed
    <3>2. r = y /\ eve[s].log[eve[s].cur + 1].type = "start"
      BY <2>2, <2>3, <2>6, <3>1 DEF Reads, ReadsStart, ReadsEnd
    <3>3. Pending(r)
      BY <3>1, <3>2, ReadPending
    <3> QED
      BY <2>3, <3>3 DEF Clear
  <2> QED
    BY <1>2, <2>2, <2>5, <2>6
<1>3. CASE Works(d)
  <2>1. CASE Flips(d)
    <3>1. r = disp[d].run /\ run[r].st = "waiting" /\ UNCHANGED <<eve, limbo>>
          /\ disp[d].pc = "admit" /\ disp[d].kind = "resume" /\ disp'[d].pc = "ensure"
      BY <2>1 DEF Flips, Moved
    <3>2. r \in Run
      BY <1>1, <3>1 DEF Shape, RequestShape, RequestOf
    <3>3. run'[r].sess = run[r].sess
      BY <2>1, <3>2 DEF Flips, RunsKept
    <3>4. Clear(r)
      BY <3>1, <3>2 DEF Parked, OverOf, TurnKnown, Clear
    <3> QED
      BY <3>1, <3>3, <3>4 DEF Clear, Pending, Places, Openings
  <2>2. ASSUME NEW q \in Run, Admits(d, q)
        PROVE  Clear(r)' /\ disp'[d].pc = "ensure"
    <3>1. /\ run[q].st = "none" /\ UNCHANGED <<eve, limbo>> /\ r = q
          /\ disp'[d].pc = "ensure" /\ run'[q].sess = disp[d].sess
          /\ disp[d].pc # "idle"
      BY <2>2 DEF Admits, Moved, NoRun
    <3>2. disp[d].sess \in Session
      BY <1>1, <3>1, Request
    <3> QED
      BY <1>1, <3>1, <3>2, UnsentClear DEF Clear, Pending, Places, Openings
  <2>3. CASE disp[d].pc = "ensure" /\ Pass(d, "arm")
    <3>1. r = disp[d].run /\ r \in Run
      BY <1>1, <2>3, Request DEF Pass, Owner, OwnPc
    <3>2. UNCHANGED <<eve, limbo>> /\ run'[r].sess = run[r].sess /\ disp'[d].pc = "arm"
      BY <2>3, <3>1 DEF Pass, Moved, RunsKept
    <3>3. Clear(r)
      BY <2>3, <3>1 DEF SendClear
    <3> QED
      BY <3>2, <3>3 DEF Clear, Pending, Places, Openings
  <2>4. CASE Arms(d)
    <3>1. r = disp[d].run /\ r \in Run
      BY <1>1, <2>4, Request DEF Arms, Owner, OwnPc
    <3>2. UNCHANGED <<eve, limbo>> /\ run'[r].sess = run[r].sess /\ ~run'[r].turn
      BY <2>4, <3>1 DEF Arms
    <3>3. Clear(r)
      BY <2>4, <3>1 DEF Arms, SendClear
    <3> QED
      BY <3>2, <3>3 DEF Clear, Pending, Places, Openings
  <2> QED
    BY <1>3, <2>1, <2>2, <2>3, <2>4, Targets
<1>4. CASE Begins(d)
  BY <1>1, <1>4, Starts
<1> QED
  BY <1>2, <1>3, <1>4, Turn DEF Idle

\* A turn that ends for a reader is the one eve has closed.
LEMMA EndRead ==
  ASSUME Inv, Traced, TurnKnown, NEW x \in Run, NEW s \in Session, NEW y \in Run,
         Reads(x, s, y), eve[s].log[eve[s].cur + 1].type = "end",
         NEW r \in Run, run[r].sess = s, run[r].turn
  PROVE  eve[s].open # r
<1>1. Shape /\ TracedOf(s) /\ ~Pending(r)
  BY DEF Inv, Traced, TurnKnown
<1>2. PICK c \in Nat, l \in Nat : c = eve[s].cur /\ l = Len(eve[s].log)
  BY <1>1, EveTypes
<1>3. c + 1 \in 1 .. l
  BY <1>2 DEF Reads
<1> SUFFICES ASSUME eve[s].open = r
             PROVE  FALSE
  OBVIOUS
<1>4. eve[s].log[l].type = "start" /\ eve[s].log[l].run = r
  BY <1>1, <1>2, Numbers DEF TracedOf
<1>5. l \in Openings(s)
  BY <1>2, <1>3, <1>4 DEF Openings
<1> QED
  BY <1>1, <1>4, <1>5 DEF Pending

\* Who parks a run: the tail that read its boundary.
LEMMA ParkedBy ==
  ASSUME Shape, [Next]_vars, NEW r \in Run, run'[r].st = "waiting"
  PROVE  run[r].st = "waiting" \/ (tail[r].st = "ended" /\ tail[r].out = "parked")
<1>1. Writes
  BY StepsWrite
<1>2. Untouched => run[r].st = "waiting"
  BY DEF Untouched
<1>3. ASSUME NEW q \in Run, NEW st, st # "waiting", Marked(q, st) \/ Charged(q, st)
      PROVE  run[r].st = "waiting"
  BY <1>3 DEF Marked, Charged
<1>4. ASSUME NEW R, Freed(R)
      PROVE  run[r].st = "waiting"
  BY <1>4 DEF Freed
<1>5. ASSUME NEW q \in Run, Queued(q) \/ Recharged(q)
      PROVE  run[r].st = "waiting"
  BY <1>5 DEF Queued, Recharged
<1>6. ASSUME NEW S, Settled(S)
      PROVE  run[r].st = "waiting"
  BY <1>6 DEF Settled
<1>7. ASSUME NEW d \in Disp, RequestWrites(d)
      PROVE  run[r].st = "waiting"
  BY <1>2, <1>3, <1>4, <1>5, <1>7 DEF RequestWrites
<1>8. ASSUME NEW q \in Run, TailWrites(q)
      PROVE  run[r].st = "waiting" \/ (tail[r].st = "ended" /\ tail[r].out = "parked")
  <2>1. CASE TailReads(q)
    BY <2>1, TailReading DEF Reads
  <2>2. CASE TailFinish(q) /\ Marked(q, RunStatusAt(tail[q].out))
    <3>1. RunStatusAt(tail[q].out) = "waiting" => tail[q].out = "parked"
      BY DEF RunStatusAt
    <3> QED
      BY <2>2, <3>1 DEF Marked, TailFinish
  <2> QED
    BY <1>2, <1>3, <1>4, <1>8, <2>1, <2>2 DEF TailWrites
<1> QED
  BY <1>1, <1>2, <1>3, <1>6, <1>7, <1>8 DEF Writes

\* A turn that is over stays over while it stays known.
LEMMA OverKept ==
  ASSUME Inv, Traced, TurnKnown, Step, NEW r \in Run, OverOf(r), run'[r].turn
  PROVE  OverOf(r)'
<1>1. run[r].armed /\ ~Pending(r)
  BY DEF TurnKnown, OverOf
<1>2. run[r].st # "none"
  BY <1>1 DEF Inv, Shape, RunShape
<1>3. run'[r].sess = run[r].sess
  BY <1>2, RunsOfStay DEF Inv
<1> QED
  BY <1>1, <1>2, <1>3, OutGrows DEF OverOf

\* A run that is read or finished is not about to be sent.
LEMMA ReadTurnHeld ==
  ASSUME Inv, [Next]_vars, NEW r \in Run, run[r].turn,
         tail[r].st \in {"pre", "follow", "ended", "observe"}
  PROVE  run'[r].turn
<1>1. Shape
  BY DEF Inv
<1>2. ASSUME NEW d \in Disp, disp[d].pc = "arm", disp[d].run = r
      PROVE  FALSE
  BY <1>2 DEF Inv, TailMode, TailOfOwned, Owner, OwnPc
<1>3. run[r].st # "none"
  BY <1>1 DEF Shape, RunShape
<1> QED
  BY <1>1, <1>2, <1>3, TurnsHeld

\* What a parked run and a tail know of their turn.
LEMMA ParkedStep ==
  ASSUME Inv, Traced, TurnKnown, Parked, [Next]_vars, Step
  PROVE  Parked'
<1>1. Shape /\ tail \in [Run -> TailRec]
  BY Tables DEF Inv
<1> SUFFICES ASSUME NEW r \in Run
             PROVE  /\ run'[r].st = "waiting" => OverOf(r)'
                    /\ tail'[r].st = "ended" /\ tail'[r].out # "session.failed" => OverOf(r)'
                    /\ tail'[r].st = "follow" /\ tail'[r].saw => run'[r].turn
  BY DEF Parked
<1>2. /\ run[r].st = "waiting" => OverOf(r)
      /\ tail[r].st = "ended" /\ tail[r].out # "session.failed" => OverOf(r)
      /\ tail[r].st = "follow" /\ tail[r].saw => run[r].turn
  BY DEF Parked
<1>3. ASSUME run'[r].st = "waiting"
      PROVE  OverOf(r)'
  <2>1. OverOf(r)
    BY <1>1, <1>2, <1>3, ParkedBy
  <2>2. run[r].st # "none"
    BY <2>1 DEF OverOf, TurnKnown, Inv, Shape, RunShape
  <2>3. run'[r].turn
    BY <1>1, <1>3, <2>1, <2>2, TurnsHeld DEF OverOf
  <2> QED
    BY <2>1, <2>3, OverKept
<1>4. ASSUME tail[r].st \in {"pre", "follow", "ended", "observe"}, OverOf(r)
      PROVE  OverOf(r)'
  BY <1>4, ReadTurnHeld, OverKept DEF OverOf
<1>5. CASE tail'[r] = tail[r]
  BY <1>2, <1>3, <1>4, <1>5, ReadTurnHeld
<1>6. CASE tail'[r].st \notin {"follow", "ended"}
  BY <1>3, <1>6
<1>7. ASSUME NEW x \in Run, TailAdopt(x)
      PROVE  /\ tail'[r].st = "ended" /\ tail'[r].out # "session.failed" => OverOf(r)'
             /\ tail'[r].st = "follow" /\ tail'[r].saw => run'[r].turn
  <2>1. CASE x # r
    <3>1. tail'[r] = tail[r]
      BY <1>1, <1>7, <2>1 DEF TailAdopt, EndTail
    <3> QED
      BY <1>5, <3>1
  <2>2. CASE x = r
    <3>1. /\ tail[r].st = "pre"
          /\ \/ tail'[r] = [st |-> "follow", saw |-> run[r].turn, hitl |-> run[r].hitl,
                            out |-> "none"]
             \/ tail'[r] = NoTail
      BY <1>1, <1>7, <2>2 DEF TailAdopt, EndTail
    <3>2. tail'[r].st # "ended" /\ (tail'[r].saw => run[r].turn)
      BY <3>1 DEF NoTail
    <3> QED
      BY <3>1, <3>2, ReadTurnHeld
  <2> QED
    BY <2>1, <2>2
<1>8. ASSUME NEW x \in Run, TailReads(x)
      PROVE  /\ tail'[r].st = "ended" /\ tail'[r].out # "session.failed" => OverOf(r)'
             /\ tail'[r].st = "follow" /\ tail'[r].saw => run'[r].turn
  <2>1. PICK s \in Session, y \in Run : Reads(x, s, y)
    BY <1>1, <1>8, TailReading
  <2>2. CASE tail'[r] = tail[r]
    BY <1>5, <2>2
  <2>3. CASE tail'[r] = NoTail
    BY <2>3 DEF NoTail
  <2>4. CASE x = r /\ ReadsStart(r, s, y) /\ IsOwn(r, y)
    <3>1. tail'[r] = [tail[r] EXCEPT !.saw = TRUE] /\ tail[r].st \in {"follow", "observe"}
      BY <2>1, <2>4 DEF ReadsStart, Reads
    <3>2. tail'[r].st # "ended"
      BY <1>1, <3>1 DEF TailRec
    <3>3. y = r /\ run'[y].turn
      BY <2>4 DEF ReadsStart, IsOwn
    <3> QED
      BY <3>2, <3>3
  <2>5. CASE /\ x = r /\ ReadsEnd(r, s) /\ tail'[r] # tail[r] /\ tail'[r] # NoTail
    <3>1. PICK out : /\ tail[r].st = "follow" /\ (tail[r].saw \/ out = "session.failed")
                     /\ tail'[r] = [tail[r] EXCEPT !.st = "ended", !.out = out]
                     /\ eve[s].log[eve[s].cur + 1].type = "end"
      BY <2>5 DEF ReadsEnd
    <3>2. tail'[r].st = "ended" /\ tail'[r].out = out
      BY <1>1, <3>1 DEF TailRec
    <3>3. ASSUME out # "session.failed"
          PROVE  OverOf(r)'
      <4>1. run[r].turn /\ run[r].sess = s
        BY <1>2, <2>1, <2>5, <3>1, <3>3 DEF Reads
      <4>2. OverOf(r)
        BY <2>1, <3>1, <4>1, EndRead DEF OverOf
      <4> QED
        BY <1>4, <3>1, <4>2
    <3> QED
      BY <3>2, <3>3
  <2> QED
    <3>1. CASE x # r
      BY <2>1, <2>2, <3>1 DEF Reads
    <3>2. CASE x = r /\ ReadsStart(r, s, y)
      BY <2>2, <2>3, <2>4, <3>2 DEF ReadsStart
    <3>3. CASE x = r /\ ReadsEnd(r, s)
      BY <2>2, <2>3, <2>5, <3>3
    <3>4. x = r => ReadsStart(r, s, y) \/ ReadsEnd(r, s)
      BY <2>1 DEF Reads
    <3> QED
      BY <3>1, <3>2, <3>3, <3>4
<1> QED
  BY <1>1, <1>3, <1>5, <1>6, <1>7, <1>8, Tailing DEF Idles

\* The turns are in order at the start, since there are none,
LEMMA OrderInit ==
  ASSUME Init
  PROVE  Order
<1>1. \A s \in Session : eve[s] = NoEve
  BY DEF Init
<1>2. \A r \in Run : run[r] = NoRun /\ tail[r] = NoTail
  BY DEF Init
<1>3. \A d \in Disp : disp[d] = Idle
  BY DEF Init
<1>4. limbo = {}
  BY DEF Init
<1>5. Len(<<>>) = 0 /\ NoEve.log = <<>> /\ NoEve.queue = <<>> /\ NoEve.cur = 0
      /\ NoEve.open = None
  BY DEF NoEve
<1>6. \A s \in Session : /\ Len(eve[s].log) = 0 /\ Len(eve[s].queue) = 0
                         /\ eve[s].cur = 0 /\ eve[s].open = None
  BY <1>1, <1>5
<1>7. \A s \in Session : Openings(s) = {} /\ Places(s) = {}
  BY <1>6 DEF Openings, Places
<1>8. Traced
  BY <1>6, <1>7 DEF Traced, TracedOf
<1>9. Ordered
  BY <1>4, <1>7 DEF Ordered, OrderedOf
<1>10. LiveNewest /\ TurnKnown /\ Parked
  BY <1>2 DEF LiveNewest, TurnKnown, Parked, NoRun, NoTail, LiveStatus
<1>11. OwnNewest /\ SendClear
  BY <1>3 DEF OwnNewest, SendClear, Owner, OwnPc, Idle
<1> QED
  BY <1>8, <1>9, <1>10, <1>11 DEF Order

\* and every step keeps them so.
LEMMA OrderStep ==
  ASSUME Inv, ~EarlyTraffic, Order, [Next]_vars, Step
  PROVE  Order'
<1>1. Shape
  BY DEF Inv
<1> QED
  BY <1>1, TracedStep, OrderedStep, LiveNewestStep, OwnNewestStep, TurnKnownStep,
     SendClearStep, ParkedStep DEF Order

-----------------------------------------------------------------------------
(* A stopped run owes eve's confirmation as long as eve may work on it.     *)

\* Who is told that a session is gone, or has retired it, finds it dead.
Gone == \A d \in Disp : disp[d].pc \in {"gone", "resetting"} => eve[disp[d].sess].dead

\* A tail that follows a run follows a live one, and a Stop that found no tail
\* to settle the run is not overtaken by one.
FollowLive == \A r \in Run :
    /\ tail[r].st = "follow" => run[r].st \in LiveStatus
    /\ r \in stops => tail[r].st # "follow"

\* eve may still work on a turn of r, or be sent one.
AtSend(r) == \E d \in Disp : disp[d].run = r /\ disp[d].pc = "send"
Out(r) == AtSend(r) \/ ~Clear(r)

\* Nothing is owed of a session that is over.
Excused(s) == eve[s].dead \/ (~sess[s].id /\ sess[s].st \in Dead)
StoppedOwes == \A r \in Run :
    run[r].st = "canceled" /\ Out(r) => run[r].owed \/ Excused(run[r].sess)

\* eve's word that a session is gone is not taken back.
LEMMA GoneStep ==
  ASSUME Inv, Gone, Step
  PROVE  Gone'
<1>1. Shape
  BY DEF Inv
<1> SUFFICES ASSUME NEW d \in Disp, disp'[d].pc \in {"gone", "resetting"},
                    NEW s, s = disp'[d].sess
             PROVE  eve'[s].dead
  BY DEF Gone
<1>2. \A x \in Session : eve[x].dead => eve'[x].dead
  BY DeadEveStep
<1>3. disp[d].pc # "idle" => disp[d].sess \in Session
  BY <1>1, Request
<1>4. CASE disp'[d] = disp[d]
  BY <1>2, <1>3, <1>4 DEF Gone
<1>5. CASE Works(d)
  <2>1. s = disp[d].sess /\ s \in Session
    BY <1>3, <1>5, Targets, Movers
  <2>2. CASE Pass(d, "gone")
    BY <2>1, <2>2 DEF Pass
  <2>3. CASE Retires(d)
    <3>1. PICK x \in Session : x = s
      BY <2>1
    <3>2. eve' = [eve EXCEPT ![x].dead = TRUE, ![x].queue = <<>>, ![x].open = None]
      BY <2>1, <2>3, <3>1 DEF Retires
    <3> QED
      BY <1>1, <3>1, <3>2, RetireRow
  <2> QED
    BY <1>5, <2>2, <2>3, Targets
<1>6. CASE Begins(d)
  BY <1>1, <1>6, Starts
<1> QED
  BY <1>4, <1>5, <1>6, Turn DEF Idle

\* The Stops that have yet to settle a row.
LEMMA StopsBegin ==
  ASSUME [Next]_vars, NEW r \in stops'
  PROVE  r \in stops \/ StopBegins(r)
<1>1. CASE UNCHANGED vars
  BY <1>1 DEF vars
<1>2. CASE \E d \in Disp : Begin(d) \/ Abort(d)
  BY <1>2 DEF Begin, LockFresh, LockSession, LockResume, LockReset, Abort, rest
<1>3. CASE \E d \in Disp : DispatchStep(d)
  BY <1>3 DEF DispatchStep, Reread, AdmitFresh, AdmitMessage, AdmitResume, Ensure, Arm,
     SendReturns, Persist, Recheck, StartTail, FailGone, FailEve, FailRun, FailSession,
     ResetClose, EveAnswers, EveResets, SendFails, rest, others
<1>4. CASE \/ \E s \in Session : EveStarts(s)
           \/ \E s \in Session, out \in Outcome : EveEnds(s, out)
           \/ \E q \in Run : EveAcceptsLate(q)
  BY <1>4 DEF EveStarts, EveEnds, EveAcceptsLate, others
<1>5. CASE \E q \in Run : \/ TailStep(q) \/ TailCap(q) \/ TailLost(q) \/ ObserveExpires(q)
                          \/ StopLive(q) \/ SettleMet(q) \/ SettleUnresolved(q)
                          \/ SettleObserves(q)
  BY <1>5 DEF TailStep, TailAdopt, TailReads, TailFinish, TailMarksSession, TailCap,
     TailLost, ObserveExpires, StopLive, SettleMet, SettleUnresolved, SettleObserves,
     noTails
<1>6. ASSUME NEW q \in Run, StopBegins(q) \/ StopSettles(q)
      PROVE  r \in stops \/ StopBegins(r)
  BY <1>6 DEF StopBegins, StopSettles
<1>7. CASE \E S \in SUBSET Run : Restart(S)
  BY <1>7 DEF Restart
<1>8. CASE Reconcile
  BY <1>8 DEF Reconcile, ReconSelects, ReconSelectsEveless, ReconRow, ReconEveless
<1> QED
  BY <1>1, <1>2, <1>3, <1>4, <1>5, <1>6, <1>7, <1>8 DEF Next

\* Who settles a run that is being followed takes its tail away.
LEMMA FollowedSettle ==
  ASSUME Inv, FollowLive, [Next]_vars, NEW r \in Run, tail[r].st = "follow",
         tail'[r].st = "follow"
  PROVE  run'[r].st \in LiveStatus
<1>1. Shape /\ run[r].st \in LiveStatus /\ tail \in [Run -> TailRec]
  BY Tables DEF Inv, FollowLive
<1>2. Writes
  BY <1>1, StepsWrite
<1>3. run[r].st # "none" /\ "queued" \in LiveStatus
  BY <1>1 DEF LiveStatus
<1>4. Untouched => run'[r].st \in LiveStatus
  BY <1>1 DEF Untouched
<1>5. ASSUME NEW d \in Disp, RequestWrites(d), Begin(d) \/ DispatchStep(d) \/ Abort(d)
      PROVE  run'[r].st \in LiveStatus
  <2>1. ASSUME NEW q \in Run, q = disp[d].run, NEW st, Marked(q, st), FailRun(d) \/ Abort(d)
        PROVE  run'[r].st \in LiveStatus
    <3>1. Owner(d)
      BY <2>1 DEF FailRun, Abort, Owner, OwnPc
    <3>2. q # r
      BY <2>1, <3>1 DEF Inv, TailMode, TailOfOwned
    <3> QED
      BY <1>1, <2>1, <3>2 DEF Marked
  <2>2. ASSUME NEW q \in Run, Queued(q)
        PROVE  run'[r].st \in LiveStatus
    BY <1>1, <1>3, <2>2 DEF Queued
  <2>3. ASSUME NEW R, Freed(R)
        PROVE  run'[r].st \in LiveStatus
    BY <1>1, <2>3 DEF Freed
  <2>4. ASSUME NEW q \in Run, Recharged(q)
        PROVE  run'[r].st \in LiveStatus
    BY <1>1, <2>4 DEF Recharged
  <2> QED
    BY <1>4, <1>5, <2>1, <2>2, <2>3, <2>4 DEF RequestWrites
<1>6. ASSUME NEW q \in Run, TailWrites(q)
      PROVE  run'[r].st \in LiveStatus
  <2>1. ASSUME NEW st, Marked(q, st) \/ Charged(q, st), q # r
        PROVE  run'[r].st \in LiveStatus
    BY <1>1, <2>1 DEF Marked, Charged
  <2>2. SetTail(r, "observe") \/ EndTail(r) => tail'[r].st # "follow"
    BY <1>1 DEF SetTail, EndTail, NoTail, TailRec
  <2>3. TailLost(r) \/ TailCap(r) => tail'[r].st # "follow"
    BY <2>2 DEF TailLost, TailCap
  <2>4. StopLive(r) => tail'[r].st # "follow"
    BY <1>1, <2>2 DEF StopLive, TailRec
  <2>5. ~StopSettles(r)
    BY DEF StopSettles, FollowLive
  <2>6. ~TailFinish(r) /\ ~TailAdopt(r)
    BY DEF TailFinish, TailAdopt
  <2>7. ASSUME Freed({q})
        PROVE  run'[r].st \in LiveStatus
    BY <1>1, <2>7 DEF Freed
  <2>8. CASE TailReads(q)
    BY <1>1, <2>8, TailReading DEF Reads
  <2> QED
    BY <1>4, <1>6, <2>1, <2>3, <2>4, <2>5, <2>6, <2>7, <2>8 DEF TailWrites
<1>7. ASSUME NEW S \in SUBSET Run, Restart(S)
      PROVE  FALSE
  BY <1>7 DEF Restart, NoTail
<1>8. ASSUME NEW q \in Run, tail[q].st = "none", Marked(q, "failed")
      PROVE  run'[r].st \in LiveStatus
  BY <1>1, <1>8 DEF Marked
<1> QED
  BY <1>2, <1>4, <1>5, <1>6, <1>7, <1>8 DEF Writes

\* A tail follows a live run, whatever settles it meanwhile.
LEMMA FollowLiveStep ==
  ASSUME Inv, ~SlowStop, FollowLive, [Next]_vars
  PROVE  FollowLive'
<1>1. Shape /\ tail \in [Run -> TailRec]
  BY Tables DEF Inv
<1> SUFFICES ASSUME NEW r \in Run
             PROVE  /\ tail'[r].st = "follow" => run'[r].st \in LiveStatus
                    /\ r \in stops' => tail'[r].st # "follow"
  BY DEF FollowLive
<1>2. CASE StopBegins(r)
  <2>1. tail'[r].st # "follow"
    BY <1>2 DEF StopBegins, Draining
  <2> QED
    BY <2>1
<1>3. ASSUME tail'[r].st = "follow"
      PROVE  tail[r].st = "follow" \/ (TailAdopt(r) /\ run[r].st \in LiveStatus)
  <2>1. CASE Idles
    BY <1>3, <2>1 DEF Idles
  <2>2. ASSUME NEW x \in Run, TailAdopt(x)
        PROVE  tail[r].st = "follow" \/ (TailAdopt(r) /\ run[r].st \in LiveStatus)
    <3>1. x # r => tail'[r] = tail[r]
      BY <1>1, <2>2 DEF TailAdopt, EndTail
    <3>2. x = r => run[r].st \in LiveStatus
      BY <1>1, <1>3, <2>2 DEF TailAdopt, EndTail, NoTail
    <3> QED
      BY <1>3, <2>2, <3>1, <3>2
  <2>3. ASSUME NEW x \in Run, TailReads(x)
        PROVE  tail[r].st = "follow"
    <3>1. PICK s \in Session, y \in Run : Reads(x, s, y)
      BY <1>1, <2>3, TailReading
    <3>2. CASE x # r \/ tail'[r] = tail[r]
      BY <1>3, <3>1, <3>2 DEF Reads
    <3>3. CASE x = r /\ tail'[r] # tail[r]
      <4>1. tail'[r] # NoTail
        BY <1>3 DEF NoTail
      <4>2. CASE ReadsStart(r, s, y)
        <5>1. tail'[r] = [tail[r] EXCEPT !.saw = TRUE]
          BY <3>3, <4>1, <4>2 DEF ReadsStart
        <5> QED
          BY <1>1, <1>3, <5>1 DEF TailRec
      <4>3. CASE ReadsEnd(r, s)
        <5>1. tail[r].st = "follow" /\ \E out : TRUE
          BY <3>3, <4>1, <4>3 DEF ReadsEnd
        <5> QED
          BY <5>1
      <4> QED
        BY <3>1, <3>3, <4>2, <4>3 DEF Reads
    <3> QED
      BY <3>2, <3>3
  <2> QED
    BY <1>1, <2>1, <2>2, <2>3, Tailing
<1>4. ASSUME tail'[r].st = "follow"
      PROVE  run'[r].st \in LiveStatus
  <2>1. CASE tail[r].st = "follow"
    BY <1>4, <2>1, FollowedSettle
  <2>2. CASE TailAdopt(r) /\ run[r].st \in LiveStatus
    <3>1. "running" \in LiveStatus \cup Terminal /\ "running" \in LiveStatus
      BY DEF LiveStatus
    <3>2. Marked(r, "running")
      BY <1>1, <2>2, <3>1, Marking DEF TailAdopt
    <3> QED
      BY <2>2, <3>1, <3>2 DEF Marked
  <2> QED
    BY <1>3, <1>4, <2>1, <2>2
<1>5. ASSUME r \in stops', ~StopBegins(r)
      PROVE  tail'[r].st # "follow"
  <2>1. r \in stops
    BY <1>5, StopsBegin
  <2> QED
    BY <1>3, <2>1 DEF FollowLive, TailAdopt
<1> QED
  BY <1>2, <1>4, <1>5

\* An excuse lasts.
LEMMA ExcuseStays ==
  ASSUME Inv, ~EarlyTraffic, Step, NEW s \in Session, Excused(s)
  PROVE  Excused(s)'
<1>1. CASE eve[s].dead
  BY <1>1, DeadEveStep DEF Excused
<1>2. ASSUME ~sess[s].id, sess[s].st \in Dead, sess'[s].id
      PROVE  FALSE
  <2>1. PICK d \in Disp : Persists(d) /\ s = disp[d].sess
    BY <1>2, IdWritten DEF Inv
  <2> QED
    BY <1>2, <2>1 DEF Persists, Inv, Landing, LandingOf
<1>3. ASSUME ~sess[s].id, sess[s].st \in Dead, ~sess'[s].id
      PROVE  sess'[s].st \in Dead
  BY <1>3, EvelessDead
<1> QED
  BY <1>1, <1>2, <1>3 DEF Excused

\* Only the arm puts a run back to work.
LEMMA OutStays ==
  ASSUME Inv, Traced, Step, NEW r \in Run, run[r].st # "none", Out(r)'
  PROVE  Out(r) \/ \E d \in Disp : Arms(d) /\ disp[d].run = r
<1>1. Shape
  BY DEF Inv
<1>2. ASSUME NEW d \in Disp, disp'[d].run = r, disp'[d].pc = "send"
      PROVE  Out(r) \/ (Arms(d) /\ disp[d].run = r)
  <2>1. CASE disp'[d] = disp[d]
    BY <1>2, <2>1 DEF Out, AtSend
  <2>2. CASE Works(d)
    BY <1>2, <2>2, Targets DEF Arms
  <2>3. CASE Begins(d)
    BY <1>1, <1>2, <2>3, Starts
  <2> QED
    BY <1>2, <2>1, <2>2, <2>3, Turn DEF Idle
<1>3. ASSUME ~Clear(r)'
      PROVE  Out(r)
  <2>1. Leaves(r) => AtSend(r)
    BY DEF Leaves, AtSend
  <2> QED
    BY <1>3, <2>1, ClearStays DEF Out
<1> QED
  BY <1>2, <1>3 DEF Out, AtSend

\* The run at whose send a request is, and one whose turn may come or goes on.
LEMMA OutArmed ==
  ASSUME Inv, Traced, NEW r \in Run, Out(r), run[r].st # "none"
  PROVE  run[r].armed
<1>1. Shape
  BY DEF Inv
<1>2. CASE AtSend(r)
  BY <1>2 DEF AtSend, Inv, Creates, SendArmed
<1>3. CASE r \in limbo
  BY <1>3 DEF Inv, Creates, LimboArmed
<1>4. PICK s \in Session : s = run[r].sess
  BY <1>1 DEF Shape, RunShape
<1>5. TracedOf(s) /\ Len(eve[s].log) \in Nat
  BY <1>1, EveTypes DEF Traced
<1>6. CASE eve[s].open = r
  <2>1. PICK l \in Nat : l = Len(eve[s].log)
    BY <1>5
  <2>2. l # 0 /\ eve[s].log[l].run = r
    BY <1>5, <1>6, <2>1, Numbers DEF TracedOf
  <2>3. l \in 1 .. l
    BY <2>1, <2>2
  <2> QED
    BY <1>5, <2>1, <2>2, <2>3 DEF TracedOf
<1>7. ASSUME NEW i \in Openings(s), eve[s].log[i].run = r
      PROVE  run[r].armed
  BY <1>1, <1>5, <1>7, OpeningsIn DEF TracedOf
<1>8. ASSUME NEW i \in Places(s), eve[s].queue[i] = r
      PROVE  run[r].armed
  BY <1>5, <1>8 DEF TracedOf
<1> QED
  BY <1>2, <1>3, <1>4, <1>6, <1>7, <1>8 DEF Out, Clear, Pending

\* A turn that is known and out is open, and its start has been read.
LEMMA KnownOut ==
  ASSUME Inv, Traced, TurnKnown, SendClear, NEW r \in Run, run[r].turn, Out(r)
  PROVE  LET s == run[r].sess
             l == Len(eve[s].log)
         IN  /\ s \in Session /\ eve[s].open = r /\ l \in 1 .. eve[s].cur
             /\ eve[s].log[l].type = "start" /\ eve[s].log[l].run = r
<1>1. Shape /\ run[r].armed /\ ~Pending(r)
  BY DEF Inv, TurnKnown
<1>2. run[r].st # "none"
  BY <1>1 DEF Shape, RunShape
<1>3. ~AtSend(r)
  BY DEF AtSend, SendClear
<1>4. PICK s \in Session : s = run[r].sess
  BY <1>1, <1>2 DEF Shape, RunShape
<1>5. TracedOf(s) /\ eve[s].open = r
  BY <1>1, <1>3, <1>4 DEF Out, Clear, Traced
<1>6. PICK c \in Nat, l \in Nat : c = eve[s].cur /\ l = Len(eve[s].log)
  BY <1>1, EveTypes
<1>7. c <= l /\ l # 0 /\ eve[s].log[l].type = "start" /\ eve[s].log[l].run = r
  BY <1>5, <1>6, Numbers DEF TracedOf
<1>8. l \notin c + 1 .. l
  BY <1>1, <1>4, <1>6, <1>7 DEF Pending, Openings
<1>9. l \in 1 .. c
  BY <1>7, <1>8
<1> QED
  BY <1>4, <1>5, <1>6, <1>7, <1>9

\* The sweeper does not find the obligation of a stopped run met while eve may
\* work on it.
LEMMA UnmetOut ==
  ASSUME Inv, Order, NEW r \in Run, run[r].st # "none", Out(r), Owes(r), Met(r)
  PROVE  Excused(run[r].sess)
<1>1. Shape
  BY DEF Inv
<1>2. ~AtSend(r)
  <2> SUFFICES ASSUME NEW d \in Disp, disp[d].run = r, disp[d].pc = "send"
               PROVE  FALSE
    BY DEF AtSend
  <2>1. lock[disp[d].sess] = d /\ run[r].sess = disp[d].sess
    BY <1>1, Request DEF Owner, OwnPc
  <2> QED
    BY <2>1, Numbers DEF Owes
<1>3. run[r].armed
  BY OutArmed DEF Order
<1>4. ~Superseded(r)
  <2> SUFFICES ASSUME NEW q \in RunsOf(run[r].sess), q > r, run[q].turn
               PROVE  FALSE
    BY DEF Superseded
  <2>1. Clear(r)
    BY Numbers DEF Order, TurnKnown, RunsOf
  <2> QED
    BY <1>2, <2>1 DEF Out
<1>5. ~OwnBoundaryPersisted(r)
  <2> SUFFICES ASSUME OwnBoundaryPersisted(r)
               PROVE  FALSE
    OBVIOUS
  <2>1. run[r].turn
    BY DEF OwnBoundaryPersisted
  <2>2. PICK s : s = run[r].sess
    OBVIOUS
  <2>3. PICK l : l = Len(eve[s].log)
    OBVIOUS
  <2>4. /\ s \in Session /\ l \in 1 .. eve[s].cur
        /\ eve[s].log[l].type = "start" /\ eve[s].log[l].run = r
    BY <2>1, <2>2, <2>3, KnownOut DEF Order
  <2>5. PICK i \in 1 .. eve[s].cur :
          /\ eve[s].log[i].type = "end"
          /\ \A j \in 1 .. eve[s].cur : eve[s].log[j].run = r => j <= i
    BY <2>2 DEF OwnBoundaryPersisted
  <2>6. PICK c \in Nat, k \in Nat : c = eve[s].cur /\ k = l /\ c <= k
    BY <1>1, <2>3, <2>4, EveTypes DEF Order, Traced, TracedOf
  <2>7. l <= i /\ i \in 1 .. c
    BY <2>4, <2>5, <2>6
  <2>8. i = l
    BY <2>6, <2>7
  <2> QED
    BY <2>4, <2>5, <2>8
<1> QED
  BY <1>3, <1>4, <1>5 DEF Met, Excused

\* A run whose turn may still come is not the one a stop before the send
\* settles,
LEMMA AbortClear ==
  ASSUME Inv, SendClear, NEW d \in Disp, Abort(d), NEW r \in Run, r = disp[d].run
  PROVE  ~Out(r)'
<1>1. Shape /\ Owner(d) /\ disp \in [Disp -> DispRec]
  BY Tables DEF Inv, Abort, Owner, OwnPc
<1>2. /\ disp[d].sess \in Session /\ run[r].st # "none" /\ run[r].sess = disp[d].sess
      /\ lock[disp[d].sess] = d
  BY <1>1, Request DEF Owner, OwnPc
<1>3. /\ disp' = [disp EXCEPT ![d] = Idle] /\ UNCHANGED <<eve, limbo>>
      /\ run' = markRun(run, r, "canceled")
  BY DEF Abort, Finish, rest
<1>4. run'[r].sess = run[r].sess
  <2>1. run \in [Run -> RunRec] /\ "canceled" \in LiveStatus \cup Terminal
    BY <1>1, Tables DEF Terminal
  <2> QED
    BY <1>3, <2>1, MarkRun
<1>5. Clear(r)
  BY DEF Abort, SendClear
<1>6. Clear(r)'
  <2>1. eve' = eve /\ limbo' = limbo
    BY <1>3
  <2>2. Places(run[r].sess)' = Places(run[r].sess)
    BY <1>4, <2>1 DEF Places
  <2>3. Openings(run[r].sess)' = Openings(run[r].sess)
    BY <1>4, <2>1 DEF Openings
  <2>4. Pending(r)' <=> Pending(r)
    BY <1>4, <2>1, <2>2, <2>3 DEF Pending
  <2> QED
    BY <1>4, <1>5, <2>1, <2>4 DEF Clear
<1>7. ASSUME NEW e \in Disp, disp'[e].run = r, disp'[e].pc = "send"
      PROVE  FALSE
  <2>1. e # d
    BY <1>1, <1>3, <1>7 DEF Idle
  <2>2. disp[e].run = r /\ disp[e].pc = "send"
    BY <1>1, <1>3, <1>7, <2>1
  <2>3. lock[disp[e].sess] = e /\ run[r].sess = disp[e].sess
    BY <1>1, <2>2, Request DEF Owner, OwnPc
  <2> QED
    BY <1>2, <2>1, <2>3
<1> QED
  BY <1>6, <1>7 DEF Out, AtSend

\* nor one whose tail read that its turn was cancelled.
LEMMA CancelledClear ==
  ASSUME TurnKnown, SendClear, Parked, NEW r \in Run, tail[r].st = "ended",
         RunStatusAt(tail[r].out) = "canceled"
  PROVE  ~Out(r)
<1>1. tail[r].out # "session.failed"
  BY DEF RunStatusAt
<1>2. OverOf(r)
  BY <1>1 DEF Parked
<1>3. Clear(r)
  BY <1>2 DEF OverOf, TurnKnown, Clear
<1>4. ~AtSend(r)
  BY <1>2 DEF AtSend, SendClear, OverOf
<1> QED
  BY <1>3, <1>4 DEF Out

\* A run that is canceled while its turn may still come is charged with it.
LEMMA CanceledOwes ==
  ASSUME Inv, Order, FollowLive, [Next]_vars, Step, NEW r \in Run, run[r].st \in LiveStatus,
         run'[r].st = "canceled", Out(r), Out(r)'
  PROVE  run'[r].owed \/ eve[run[r].sess].dead
<1>1. Shape
  BY DEF Inv
<1>2. Writes
  BY <1>1, StepsWrite
<1>3. "canceled" \notin LiveStatus /\ "queued" # "canceled" /\ "failed" # "canceled"
      /\ "running" # "canceled"
  BY DEF LiveStatus
<1>4. Untouched => FALSE
  BY <1>3 DEF Untouched
<1>5. ASSUME NEW q \in Run, NEW st, Marked(q, st)
      PROVE  q = r /\ st = "canceled"
  BY <1>3, <1>5 DEF Marked
<1>6. ASSUME NEW q \in Run, NEW st, Charged(q, st)
      PROVE  run'[r].owed
  BY <1>3, <1>6 DEF Charged
<1>7. ASSUME NEW d \in Disp, RequestWrites(d)
      PROVE  run'[r].owed \/ eve[run[r].sess].dead
  <2>1. ASSUME Abort(d), r = disp[d].run
        PROVE  FALSE
    BY <2>1, AbortClear DEF Order
  <2>2. ASSUME NEW q \in Run, Queued(q)
        PROVE  FALSE
    BY <1>3, <2>2 DEF Queued
  <2>3. ASSUME NEW R, Freed(R)
        PROVE  FALSE
    BY <1>3, <2>3 DEF Freed
  <2>4. ASSUME NEW q \in Run, Recharged(q)
        PROVE  FALSE
    BY <1>3, <2>4 DEF Recharged
  <2> QED
    BY <1>3, <1>4, <1>5, <1>7, <2>1, <2>2, <2>3, <2>4 DEF RequestWrites
<1>8. ASSUME NEW q \in Run, TailWrites(q)
      PROVE  run'[r].owed \/ eve[run[r].sess].dead
  <2>1. ASSUME TailFinish(q), Marked(q, RunStatusAt(tail[q].out))
        PROVE  FALSE
    <3>1. q = r /\ RunStatusAt(tail[r].out) = "canceled"
      BY <1>5, <2>1
    <3>2. tail[r].st = "ended"
      BY <2>1, <3>1 DEF TailFinish
    <3> QED
      BY <3>1, <3>2, CancelledClear DEF Order
  <2>2. ASSUME NEW R, Freed(R)
        PROVE  FALSE
    BY <1>3, <2>2 DEF Freed
  <2>3. ASSUME TailReads(q)
        PROVE  FALSE
    <3>1. \E s \in Session, y \in Run : Reads(q, s, y)
      BY <1>1, <2>3, TailReading
    <3> QED
      BY <1>3, <3>1 DEF Reads
  <2> QED
    BY <1>3, <1>4, <1>5, <1>6, <1>8, <2>1, <2>2, <2>3 DEF TailWrites
<1>9. ASSUME NEW S, Settled(S)
      PROVE  FALSE
  BY <1>3, <1>9 DEF Settled
<1> QED
  BY <1>2, <1>3, <1>4, <1>5, <1>7, <1>8, <1>9 DEF Writes

\* What a reader drops of the obligations of a stopped run.
LEMMA ReadOwes ==
  ASSUME Inv, Order, FollowLive, Step, NEW r \in Run, run[r].st # "none", Out(r),
         run[r].owed, NEW x \in Run, NEW s \in Session, NEW y \in Run, Reads(x, s, y),
         ~run'[r].owed
  PROVE  eve[run[r].sess].dead
<1>1. Shape /\ Traced
  BY DEF Inv, Order
<1>2. PICK c \in Nat, l \in Nat : c = eve[s].cur /\ l = Len(eve[s].log)
  BY <1>1, EveTypes
<1>3. c + 1 \in 1 .. l
  BY <1>2 DEF Reads
<1>4. ASSUME ReadsStart(x, s, y)
      PROVE  FALSE
  <2>1. /\ eve[s].log[c + 1].type = "start" /\ r \in Followed(x) /\ r # y
        /\ run[r].turn \/ (y \notin Followed(x) /\ (IsOwn(x, y) \/ IsSuccessor(x, y)))
    BY <1>2, <1>4 DEF ReadsStart
  <2>2. run[r].sess = s
    BY <2>1 DEF Followed, OwedRuns, RunsOf, Reads
  <2>3. CASE run[r].turn
    <3>1. l \in 1 .. c
      BY <1>1, <1>2, <2>2, <2>3, KnownOut DEF Order
    <3> QED
      BY <1>3, <3>1
  <2>4. CASE IsOwn(x, y) \/ IsSuccessor(x, y)
    <3>1. run[y].st \in LiveStatus
      BY <2>4 DEF IsOwn, IsSuccessor, FollowLive
    <3>2. run[y].sess = s /\ \A q \in Run : run[q].st # "none" /\ run[q].sess = s /\ q < y => Clear(q)
      BY <1>1, <1>2, <2>1, OpeningRead DEF Order
    <3>3. r <= y
      BY <2>2, <3>1, <3>2 DEF Order, LiveNewest
    <3>4. r < y
      BY <2>1, <3>3, Numbers
    <3>5. Clear(r)
      BY <2>2, <3>2, <3>4
    <3>6. ASSUME NEW d \in Disp, disp[d].run = r, disp[d].pc = "send"
          PROVE  FALSE
      <4>1. Owner(d) /\ run[r].sess = disp[d].sess
        BY <1>1, <3>6, Request DEF Owner, OwnPc
      <4>2. run[y].st # "none"
        BY <3>1 DEF LiveStatus
      <4>3. y <= r
        BY <2>2, <3>2, <3>6, <4>1, <4>2 DEF Order, OwnNewest
      <4> QED
        BY <3>4, <4>3, Numbers
    <3> QED
      BY <3>5, <3>6 DEF Out, AtSend
  <2> QED
    BY <2>1, <2>3, <2>4
<1>5. ASSUME ReadsEnd(x, s)
      PROVE  eve[run[r].sess].dead
  <2>1. PICK out :
          /\ eve[s].log[c + 1].type = "end" /\ eve[s].log[c + 1].out = out
          /\ r \in Followed(x) /\ (run[r].turn \/ out \in Dying)
    BY <1>2, <1>5 DEF ReadsEnd
  <2>2. run[r].sess = s
    BY <2>1 DEF Followed, OwedRuns, RunsOf, Reads
  <2>3. CASE out \in Dying
    BY <1>2, <1>3, <2>1, <2>2, <2>3 DEF Inv, Deaths, DeadEve
  <2>4. CASE run[r].turn
    <3>1. eve[s].open = r
      BY <1>1, <2>2, <2>4, KnownOut DEF Order
    <3>2. eve[s].open # r
      BY <1>1, <1>2, <2>1, <2>2, <2>4, EndRead DEF Order
    <3> QED
      BY <3>1, <3>2
  <2> QED
    BY <2>1, <2>3, <2>4
<1> QED
  BY <1>4, <1>5 DEF Reads

\* An obligation is dropped only when the turn is over, or its session is.
LEMMA OwedStays ==
  ASSUME Inv, Order, Gone, FollowLive, [Next]_vars, Step, NEW r \in Run,
         run[r].st = "canceled", run'[r].st = "canceled", Out(r), run[r].owed
  PROVE  run'[r].owed \/ Excused(run[r].sess)
<1>1. Shape
  BY DEF Inv
<1>2. Writes
  BY <1>1, StepsWrite
<1>3. Untouched => run'[r].owed
  BY DEF Untouched
<1>4. ASSUME NEW q \in Run, NEW st, Marked(q, st) \/ Charged(q, st) \/ Recharged(q)
      PROVE  run'[r].owed
  BY <1>4 DEF Marked, Charged, Recharged
<1>5. ASSUME NEW d \in Disp, RequestWrites(d)
      PROVE  run'[r].owed \/ Excused(run[r].sess)
  <2>1. ASSUME NEW q \in Run, Queued(q)
        PROVE  run'[r].owed
    <3>1. q # r
      BY <2>1 DEF Queued
    <3> QED
      BY <2>1, <3>1 DEF Queued
  <2>2. ASSUME NEW q \in Run, q = disp[d].run, Recheck(d), Superseded(q), Freed({q})
        PROVE  run'[r].owed
    <3>1. Owner(d) /\ run[q].sess = disp[d].sess
      BY <1>1, <2>2, Request DEF Recheck, Owner, OwnPc
    <3>2. ~Superseded(q)
      BY <2>2, <3>1, Numbers DEF Superseded, RunsOf, Order, OwnNewest
    <3> QED
      BY <2>2, <3>2
  <2>3. ASSUME FailGone(d) \/ ResetClose(d), Freed(OwedRuns(disp[d].sess))
        PROVE  run'[r].owed \/ Excused(run[r].sess)
    <3>1. eve[disp[d].sess].dead
      BY <2>3 DEF FailGone, ResetClose, Gone
    <3>2. r \in OwedRuns(disp[d].sess) => run[r].sess = disp[d].sess
      BY DEF OwedRuns, RunsOf
    <3> QED
      BY <2>3, <3>1, <3>2 DEF Freed, Excused
  <2> QED
    BY <1>3, <1>4, <1>5, <2>1, <2>2, <2>3 DEF RequestWrites
<1>6. ASSUME NEW q \in Run, TailWrites(q)
      PROVE  run'[r].owed \/ Excused(run[r].sess)
  <2>1. ASSUME SettleMet(q), Freed({q})
        PROVE  run'[r].owed \/ Excused(run[r].sess)
    <3>1. CASE q = r
      BY <2>1, <3>1, UnmetOut DEF SettleMet
    <3>2. CASE q # r
      BY <2>1, <3>2 DEF Freed
    <3> QED
      BY <3>1, <3>2
  <2>2. ASSUME TailReads(q)
        PROVE  run'[r].owed \/ Excused(run[r].sess)
    <3>1. PICK s \in Session, y \in Run : Reads(q, s, y)
      BY <1>1, <2>2, TailReading
    <3> QED
      BY <3>1, ReadOwes DEF Excused
  <2> QED
    BY <1>3, <1>4, <1>6, <2>1, <2>2 DEF TailWrites
<1>7. ASSUME NEW S, Settled(S)
      PROVE  run'[r].owed
  BY <1>7 DEF Settled
<1> QED
  BY <1>2, <1>3, <1>4, <1>5, <1>6, <1>7 DEF Writes

\* The obligation of a stopped run lasts as long as its turn may.
LEMMA StoppedOwesStep ==
  ASSUME Inv, ~EarlyTraffic, Order, Gone, FollowLive, StoppedOwes, [Next]_vars, Step
  PROVE  StoppedOwes'
<1>1. Shape
  BY DEF Inv
<1> SUFFICES ASSUME NEW r \in Run, run'[r].st = "canceled", Out(r)'
             PROVE  run'[r].owed \/ Excused(run[r].sess)'
  BY DEF StoppedOwes
<1>2. "canceled" \notin LiveStatus
  BY DEF LiveStatus
<1>3. run[r].st # "none"
  BY <1>1, <1>2, Births DEF Admits, NoRun, LiveStatus
<1>4. PICK s \in Session : s = run[r].sess /\ s = run'[r].sess
  BY <1>1, <1>3, RunsOfStay DEF Shape, RunShape
<1>5. Excused(s) => Excused(run[r].sess)'
  <2>1. Excused(s) => Excused(s)'
    BY ExcuseStays
  <2> QED
    BY <1>4, <2>1 DEF Excused
<1>6. Out(r)
  <2>1. ASSUME NEW d \in Disp, Arms(d), disp[d].run = r
        PROVE  FALSE
    BY <2>1 DEF Arms
  <2> QED
    BY <1>3, <2>1, OutStays DEF Order
<1>7. CASE run[r].st = "canceled"
  <2>1. run[r].owed \/ Excused(s)
    BY <1>4, <1>6, <1>7 DEF StoppedOwes
  <2>2. run[r].owed => run'[r].owed \/ Excused(s)
    BY <1>4, <1>6, <1>7, OwedStays
  <2> QED
    BY <1>5, <2>1, <2>2
<1>8. CASE run[r].st \in LiveStatus
  <2>1. run'[r].owed \/ eve[s].dead
    BY <1>4, <1>6, <1>8, CanceledOwes
  <2> QED
    BY <1>5, <2>1 DEF Excused
<1>9. run[r].st = "canceled" \/ run[r].st \in LiveStatus
  <2>1. run[r].st \in Terminal => run'[r].st = run[r].st
    BY <1>1, SettledStays
  <2>2. run[r].st \in {"none"} \cup LiveStatus \cup Terminal
    BY <1>1, Tables DEF RunRec
  <2> QED
    BY <1>3, <2>1, <2>2
<1> QED
  BY <1>7, <1>8, <1>9

\* The invariant behind the obligations.
Stops == Inv /\ Order /\ Gone /\ FollowLive /\ StoppedOwes

\* At the start nothing is stopped,
LEMMA StopsInit ==
  ASSUME Init
  PROVE  Stops
<1>1. Inv /\ Order
  BY InvInit, OrderInit
<1>2. \A r \in Run : run[r] = NoRun /\ tail[r] = NoTail /\ r \notin stops
  BY DEF Init
<1>3. \A d \in Disp : disp[d] = Idle
  BY DEF Init
<1> QED
  BY <1>1, <1>2, <1>3 DEF Stops, Gone, FollowLive, StoppedOwes, NoRun, NoTail, Idle

\* and every step keeps what is stopped and still out charged.
LEMMA StopsStep ==
  ASSUME ~EarlyTraffic, ~SlowStop, Stops, [Next]_vars
  PROVE  Stops'
<1>1. Step /\ Inv'
  BY InvStep DEF Stops
<1>2. Order'
  BY <1>1, OrderStep DEF Stops
<1>3. Gone' /\ FollowLive'
  BY <1>1, GoneStep, FollowLiveStep DEF Stops
<1>4. StoppedOwes'
  BY <1>1, StoppedOwesStep DEF Stops
<1> QED
  BY <1>1, <1>2, <1>3, <1>4 DEF Stops

\* StoppedTurnIsOwed (routes.ts settleRemoteCancelGuarded): an obligation is
\* cleared only on eve's own evidence.  While eve still works on the turn of a
\* stopped run, or has it queued, the row carries the obligation.
THEOREM StoppedIsOwed ==
  ASSUME ~EarlyTraffic, ~SlowStop
  PROVE  Spec => []StoppedTurnIsOwed
<1>1. Init => Stops
  BY StopsInit
<1>2. Stops /\ [Next]_vars => Stops'
  BY StopsStep
<1>3. Stops => StoppedTurnIsOwed
  <2> SUFFICES ASSUME Stops, NEW r \in Run, run[r].st = "canceled", TurnOpen(r),
                      sess[run[r].sess].id
               PROVE  run[r].owed
    BY DEF StoppedTurnIsOwed
  <2>1. PICK s \in Session : s = run[r].sess
    BY DEF TurnOpen, Stops, Inv, Shape, RunShape
  <2>2. eve[s].open = r \/ \E i \in 1 .. Len(eve[s].queue) : eve[s].queue[i] = r
    BY <2>1 DEF TurnOpen
  <2>3. ~Clear(r)
    BY <2>1, <2>2 DEF Clear, Pending, Places
  <2>4. ~eve[s].dead
    <3>1. eve[s].dead => eve[s].open = None /\ Len(eve[s].queue) = 0
      BY DEF Stops, Inv, Deaths, DeadEve
    <3> QED
      BY <2>2, <3>1, Numbers
  <2> QED
    BY <2>1, <2>3, <2>4 DEF Stops, StoppedOwes, Out, Excused
<1> QED
  BY <1>1, <1>2, <1>3, PTL DEF Spec

-----------------------------------------------------------------------------
(* A tail that knows its turn finds the turn's end ahead of it.             *)

\* In the log a start is followed by its end, or is the open turn; a session
\* that was reset in between has no live run in that place.
PairedOf(s) == \A i \in 1 .. Len(eve[s].log) : eve[s].log[i].type = "start" =>
    IF i = Len(eve[s].log)
    THEN \/ eve[s].open = eve[s].log[i].run
         \/ eve[s].dead /\ run[eve[s].log[i].run].st \notin LiveStatus
    ELSE eve[s].log[i + 1].type = "end" /\ eve[s].log[i + 1].run = eve[s].log[i].run
Paired == \A s \in Session : PairedOf(s)

\* The process that has not crashed yet had nothing to reconcile.
FirstBoot == crashes = 0 =>
    /\ recon.rows = {}
    /\ recon.pc # "done" => \A r \in Run : run[r].st = "none"

\* Once the turn of a live run is known, its session owes nothing.
LiveUnowed == \A r, q \in Run :
    run[r].st \in LiveStatus /\ run[r].turn /\ run[q].owed => run[q].sess # run[r].sess

\* The end of r's turn is still to come, or written and not read.
EndAhead(r) ==
    \/ eve[run[r].sess].open = r
    \/ \E i \in 1 .. Len(eve[run[r].sess].log) :
         /\ i > eve[run[r].sess].cur
         /\ eve[run[r].sess].log[i].type = "end" /\ eve[run[r].sess].log[i].run = r

\* Somebody follows r's turn, or is about to.
Sent(r) == \E d \in Disp :
    disp[d].run = r /\ disp[d].pc \in {"inflight", "persist", "recheck", "tail"}
Awaited(r) ==
    \/ tail[r].st = "follow" /\ tail[r].saw
    \/ tail[r].st = "pre"
    \/ Sent(r)
Ends == crashes = 0 => \A r \in Run :
    run[r].st \in LiveStatus /\ run[r].turn /\ Awaited(r) => EndAhead(r)

\* eve ends the turn it has open before it takes up another.
LEMMA PairedStep ==
  ASSUME Inv, Traced, Paired, Step
  PROVE  Paired'
<1>1. Shape
  BY DEF Inv
<1> SUFFICES ASSUME NEW s \in Session, NEW i \in 1 .. Len(eve'[s].log),
                    eve'[s].log[i].type = "start"
             PROVE  IF i = Len(eve'[s].log)
                    THEN \/ eve'[s].open = eve'[s].log[i].run
                         \/ eve'[s].dead /\ run'[eve'[s].log[i].run].st \notin LiveStatus
                    ELSE /\ eve'[s].log[i + 1].type = "end"
                         /\ eve'[s].log[i + 1].run = eve'[s].log[i].run
  BY DEF Paired, PairedOf
<1>2. PICK l \in Nat : l = Len(eve[s].log)
  BY <1>1, EveTypes
<1>3. i \in 1 .. l /\ eve[s].log[i].type = "start" =>
        IF i = l
        THEN \/ eve[s].open = eve[s].log[i].run
             \/ eve[s].dead /\ run[eve[s].log[i].run].st \notin LiveStatus
        ELSE eve[s].log[i + 1].type = "end" /\ eve[s].log[i + 1].run = eve[s].log[i].run
  BY <1>2 DEF Paired, PairedOf
<1>4. ASSUME i \in 1 .. l
      PROVE  /\ eve[s].log[i].run \in Run /\ run[eve[s].log[i].run].st # "none"
             /\ run[eve[s].log[i].run].sess = s
             /\ run[eve[s].log[i].run].st \notin LiveStatus =>
                  run'[eve[s].log[i].run].st \notin LiveStatus
  <2>1. PICK r \in Run : r = eve[s].log[i].run
    BY <1>1, <1>2, <1>4, EveTypes
  <2>2. run[r].st # "none" /\ run[r].sess = s
    BY <1>1, <1>2, <1>4, <2>1, TracedRuns
  <2>3. run'[r].st # "none"
    BY <1>1, <2>2, RunsOfStay
  <2>4. run'[r].st \in LiveStatus => run[r].st \in LiveStatus
    BY <1>1, <2>2, <2>3, Births
  <2> QED
    BY <2>1, <2>2, <2>4
<1>5. CASE EveSteady(s)
  BY <1>2, <1>3, <1>4, <1>5 DEF EveSteady
<1>6. CASE EveOpens(s)
  <2>1. /\ Len(eve'[s].log) = l + 1 /\ \A j \in 1 .. l : eve'[s].log[j] = eve[s].log[j]
        /\ eve'[s].open = eve'[s].log[l + 1].run /\ eve[s].open = None
        /\ Len(eve[s].queue) >= 1
    BY <1>1, <1>2, <1>6, Opened
  <2>2. ~eve[s].dead
    BY <2>1 DEF Inv, Deaths, DeadEve
  <2>3. CASE i = l + 1
    BY <2>1, <2>3
  <2>4. CASE i # l + 1
    <3>1. i \in 1 .. l
      BY <1>2, <2>1, <2>4
    <3>2. i # l
      BY <1>3, <1>4, <2>1, <2>2, <3>1, Numbers
    <3>3. i + 1 \in 1 .. l /\ i # l + 1
      BY <1>2, <3>1, <3>2
    <3> QED
      BY <1>3, <2>1, <3>1, <3>2, <3>3
  <2> QED
    BY <2>3, <2>4
<1>7. CASE EveCloses(s)
  <2>1. /\ Len(eve'[s].log) = l + 1 /\ \A j \in 1 .. l : eve'[s].log[j] = eve[s].log[j]
        /\ eve'[s].log[l + 1].type = "end" /\ eve'[s].log[l + 1].run = eve[s].open
        /\ eve[s].open # None
    BY <1>1, <1>2, <1>7, Closed
  <2>2. ~eve[s].dead
    BY <2>1 DEF Inv, Deaths, DeadEve
  <2>3. i # l + 1
    BY <2>1
  <2>4. i \in 1 .. l
    BY <1>2, <2>1, <2>3
  <2>5. CASE i = l
    BY <1>3, <2>1, <2>2, <2>3, <2>4, <2>5
  <2>6. CASE i # l
    <3>1. i + 1 \in 1 .. l
      BY <1>2, <2>4, <2>6
    <3> QED
      BY <1>3, <2>1, <2>3, <2>4, <2>6, <3>1
  <2> QED
    BY <2>5, <2>6
<1>8. ASSUME NEW r \in Run, NEW n, EveTakes(s, r, n)
      PROVE  /\ eve'[s].log = eve[s].log /\ eve'[s].open = eve[s].open
             /\ eve'[s].dead <=> eve[s].dead
  BY <1>8 DEF EveTakes
<1>9. CASE \E r \in Run, n \in {0, 1} : EveTakes(s, r, n)
  BY <1>2, <1>3, <1>4, <1>8, <1>9
<1>10. ASSUME NEW d \in Disp, Retires(d), disp[d].sess = s, EveRetired(s)
       PROVE  IF i = Len(eve'[s].log)
              THEN \/ eve'[s].open = eve'[s].log[i].run
                   \/ eve'[s].dead /\ run'[eve'[s].log[i].run].st \notin LiveStatus
              ELSE /\ eve'[s].log[i + 1].type = "end"
                   /\ eve'[s].log[i + 1].run = eve'[s].log[i].run
  <2>1. eve'[s].log = eve[s].log /\ eve'[s].dead /\ i \in 1 .. l
    BY <1>2, <1>10 DEF EveRetired
  <2>2. run[eve[s].log[i].run].st \notin LiveStatus
    BY <1>4, <1>10, <2>1 DEF Retires, Inv, ResetHeld, RunsOf
  <2> QED
    BY <1>2, <1>3, <1>4, <2>1, <2>2
<1>11. ASSUME NEW d \in Disp, Accepted(d)
       PROVE  disp[d].run \in Run
  BY <1>1, <1>11, Request DEF Accepted, Owner, OwnPc
<1>12. limbo \subseteq Run
  BY <1>1, Tables
<1> QED
  BY <1>5, <1>6, <1>7, <1>9, <1>10, <1>11, <1>12, EveTurn

\* Only a restart sends reconciliation back to its start.
LEMMA BootStays ==
  ASSUME Shape, [Next]_vars, crashes' = 0
  PROVE  crashes = 0 /\ (recon'.pc # "done" => recon.pc # "done")
<1>1. recon \in ReconRec /\ crashes \in 0 .. MaxCrashes
  BY Tables
<1>2. CASE UNCHANGED vars
  BY <1>2 DEF vars
<1>3. CASE \E d \in Disp : Begin(d) \/ Abort(d)
  BY <1>3 DEF Begin, LockFresh, LockSession, LockResume, LockReset, Abort, rest
<1>4. CASE \E d \in Disp : DispatchStep(d)
  BY <1>4 DEF DispatchStep, Reread, AdmitFresh, AdmitMessage, AdmitResume, Ensure, Arm,
     SendReturns, Persist, Recheck, StartTail, FailGone, FailEve, FailRun, FailSession,
     ResetClose, EveAnswers, EveResets, SendFails, rest, others
<1>5. CASE \/ \E s \in Session : EveStarts(s)
           \/ \E s \in Session, out \in Outcome : EveEnds(s, out)
           \/ \E q \in Run : EveAcceptsLate(q)
  BY <1>5 DEF EveStarts, EveEnds, EveAcceptsLate, others
<1>6. CASE \E q \in Run : \/ TailStep(q) \/ TailCap(q) \/ TailLost(q) \/ ObserveExpires(q)
                          \/ StopLive(q) \/ StopBegins(q) \/ StopSettles(q) \/ SettleMet(q)
                          \/ SettleUnresolved(q) \/ SettleObserves(q)
  BY <1>6 DEF TailStep, TailAdopt, TailReads, TailFinish, TailMarksSession, TailCap,
     TailLost, ObserveExpires, StopLive, StopBegins, StopSettles, SettleMet,
     SettleUnresolved, SettleObserves, noTails
<1>7. CASE \E S \in SUBSET Run : Restart(S)
  <2>1. crashes' = crashes + 1 /\ crashes \in Nat
    BY <1>1, <1>7, DispatchAssumption DEF Restart
  <2> QED
    BY <2>1
<1>8. CASE Reconcile
  BY <1>1, <1>8 DEF Reconcile, ReconSelects, ReconSelectsEveless, ReconRow, ReconEveless,
     ReconRec
<1> QED
  BY <1>2, <1>3, <1>4, <1>5, <1>6, <1>7, <1>8 DEF Next

\* The first boot finds nothing, and requests come after it.
LEMMA FirstBootStep ==
  ASSUME Inv, FirstBoot, [Next]_vars, Step
  PROVE  FirstBoot'
<1>1. Shape
  BY DEF Inv
<1> SUFFICES ASSUME crashes' = 0
             PROVE  /\ recon'.rows = {}
                    /\ recon'.pc # "done" => \A r \in Run : run'[r].st = "none"
  BY DEF FirstBoot
<1>2. crashes = 0 /\ (recon'.pc # "done" => recon.pc # "done")
  BY <1>1, BootStays
<1>3. recon.rows = {} /\ (recon.pc # "done" => \A r \in Run : run[r].st = "none")
  BY <1>2 DEF FirstBoot
<1>4. recon'.rows = {}
  <2>1. recon'.rows \subseteq recon.rows \/ ReconSelects
    BY <1>1, RowsStep
  <2>2. CASE ReconSelects
    <3>1. /\ recon.pc = "boot"
          /\ recon' = [recon EXCEPT !.pc = "runs", !.rows =
               {[run |-> r, armed |-> run[r].armed, id |-> sess[run[r].sess].id] :
                  r \in {q \in Run : run[q].st \in {"queued", "running"}}}]
      BY <2>2 DEF ReconSelects
    <3>2. \A r \in Run : run[r].st = "none"
      BY <1>3, <3>1
    <3>3. {q \in Run : run[q].st \in {"queued", "running"}} = {}
      BY <3>2
    <3>4. recon \in ReconRec
      BY <1>1, Tables
    <3> QED
      BY <3>1, <3>3, <3>4 DEF ReconRec
  <2> QED
    BY <1>3, <2>1, <2>2
<1>5. ASSUME recon'.pc # "done", NEW r \in Run, run'[r].st # "none"
      PROVE  FALSE
  <2>1. recon.pc # "done" /\ run[r].st = "none"
    BY <1>2, <1>3, <1>5
  <2>2. PICK d \in Disp : Admits(d, r)
    BY <1>1, <1>5, <2>1, Births
  <2>3. disp[d].pc = "admit"
    BY <2>2 DEF Admits
  <2> QED
    BY <2>1, <2>3 DEF Inv, BootQuiet
<1> QED
  BY <1>4, <1>5

\* Who sees the turn of a live run start drops what its session owed, and a run
\* that comes to owe was the live one.
LEMMA LiveUnowedStep ==
  ASSUME Inv, Order, FollowLive, LiveUnowed, [Next]_vars, Step
  PROVE  LiveUnowed'
<1>1. Shape /\ Sole /\ SoleOwned
  BY DEF Inv, SoleLive
<1> SUFFICES ASSUME NEW r \in Run, NEW q \in Run, run'[r].st \in LiveStatus, run'[r].turn,
                    run'[q].owed, run'[q].sess = run'[r].sess
             PROVE  FALSE
  BY DEF LiveUnowed
<1>2. Writes
  BY <1>1, StepsWrite
<1>3. LiveStatus \cap Terminal = {} /\ "none" \notin LiveStatus
      /\ {"failed", "canceled"} \subseteq Terminal
  BY DEF LiveStatus, Terminal
<1>4. run[r].st # "none" /\ run[r].st \in LiveStatus
  <2>1. ASSUME NEW d \in Disp, Admits(d, r)
        PROVE  FALSE
    BY <2>1 DEF Admits, NoRun
  <2> QED
    BY <1>1, <1>3, <2>1, Births
<1>5. run'[r].sess = run[r].sess /\ run[r].sess \in Session
  BY <1>1, <1>4, RunsOfStay DEF Shape, RunShape
<1>6. ASSUME run[q].owed
      PROVE  run[q].st \in Terminal /\ run[q].st # "none" /\ run[q].sess = run[r].sess /\ q # r
  <2>1. run[q].st # "none" /\ run[q].st \in Terminal
    BY <1>1, <1>6 DEF Shape, RunShape, Inv, TailMode, TailOfRun
  <2>2. run'[q].sess = run[q].sess
    BY <1>1, <2>1, RunsOfStay
  <2> QED
    BY <1>3, <1>4, <1>5, <2>1, <2>2
<1>7. ASSUME run[r].turn, run[q].owed
      PROVE  FALSE
  BY <1>4, <1>6, <1>7 DEF LiveUnowed
<1>8. Untouched => FALSE
  BY <1>7 DEF Untouched
<1>9. ASSUME NEW p \in Run, NEW st, Marked(p, st)
      PROVE  FALSE
  BY <1>7, <1>9 DEF Marked
<1>10. ASSUME NEW R, Freed(R)
       PROVE  FALSE
  BY <1>7, <1>10 DEF Freed
<1>11. ASSUME NEW p \in Run, Queued(p)
       PROVE  FALSE
  BY <1>7, <1>11 DEF Queued
<1>12. ASSUME run[q].st \in LiveStatus, run'[q].st \in Terminal
       PROVE  FALSE
  <2>1. run'[q].sess = run[q].sess
    BY <1>1, <1>3, <1>12, RunsOfStay
  <2>2. q = r
    BY <1>1, <1>4, <1>5, <1>12, <2>1 DEF Sole
  <2> QED
    BY <1>3, <1>12, <2>2
<1>13. ASSUME NEW p \in Run, NEW st \in Terminal, Charged(p, st)
       PROVE  FALSE
  BY <1>7, <1>12, <1>13 DEF Charged
<1>14. ASSUME NEW S, Settled(S)
       PROVE  FALSE
  BY <1>3, <1>7, <1>12, <1>14 DEF Settled
<1>15. ASSUME NEW d \in Disp, NEW p \in Run, p = disp[d].run, Recheck(d),
              run[p].st \in Terminal, Recharged(p)
       PROVE  FALSE
  <2>1. q = p
    BY <1>7, <1>15 DEF Recharged
  <2>2. Owner(d) /\ run[q].st # "none" /\ run[q].sess = disp[d].sess
    BY <1>1, <1>15, <2>1, Request DEF Recheck, Owner, OwnPc
  <2>3. run'[q].sess = run[q].sess
    BY <1>1, <2>2, RunsOfStay
  <2>4. r = q
    BY <1>1, <1>4, <1>5, <1>15, <2>1, <2>2, <2>3 DEF SoleOwned
  <2> QED
    BY <1>3, <1>4, <1>15, <2>1, <2>4
<1>16. ASSUME NEW x \in Run, TailReads(x)
       PROVE  FALSE
  <2>1. PICK s \in Session, y \in Run : Reads(x, s, y)
    BY <1>1, <1>16, TailReading
  <2>2. CASE ReadsEnd(x, s)
    BY <1>7, <2>2 DEF ReadsEnd
  <2>3. CASE ReadsStart(x, s, y)
    <3>1. run[q].owed
      BY <2>3 DEF ReadsStart
    <3>2. r = y /\ (y \in Followed(x) \/ IsOwn(x, y) \/ IsSuccessor(x, y))
      BY <1>7, <2>3, <3>1 DEF ReadsStart
    <3>3. run[y].sess = s
      BY <2>1, <2>3, OpeningRead DEF Order, ReadsStart
    <3>4. y \notin Followed(x)
      BY <1>1, <1>3, <1>4, <3>2 DEF Followed, OwedRuns, Inv, TailMode, TailOfRun
    <3>5. q \in Followed(x) \ {y}
      <4>1. q \in OwedRuns(s) /\ q # y
        BY <1>6, <3>1, <3>2, <3>3 DEF OwedRuns, RunsOf
      <4>2. tail[x].st = "follow" => q # x
        BY <1>3, <1>6, <3>1 DEF FollowLive
      <4> QED
        BY <2>1, <4>1, <4>2 DEF Followed, Reads
    <3> QED
      BY <2>3, <3>2, <3>4, <3>5 DEF ReadsStart
  <2> QED
    BY <2>1, <2>2, <2>3 DEF Reads
<1>17. ASSUME NEW d \in Disp, RequestWrites(d)
       PROVE  FALSE
  BY <1>8, <1>9, <1>10, <1>11, <1>15, <1>17 DEF RequestWrites
<1>18. ASSUME NEW p \in Run, TailWrites(p)
       PROVE  FALSE
  BY <1>3, <1>8, <1>9, <1>10, <1>13, <1>16, <1>18 DEF TailWrites
<1> QED
  BY <1>2, <1>8, <1>9, <1>14, <1>17, <1>18 DEF Writes

\* The end of a live run's turn stays ahead until it is read.
LEMMA EndAheadStep ==
  ASSUME Inv, Traced, [Next]_vars, Step, NEW r \in Run, NEW s \in Session, s = run[r].sess,
         s = run'[r].sess, run[r].st \in LiveStatus, EndAhead(r)
  PROVE  \/ EndAhead(r)'
         \/ \E x \in Run : /\ Reads(x, s, r)
                           /\ eve[s].log[eve[s].cur + 1].type = "end"
<1>1. Shape /\ "none" \notin LiveStatus
  BY DEF Inv, LiveStatus
<1>2. PICK l \in Nat, c \in Nat : l = Len(eve[s].log) /\ c = eve[s].cur
  BY <1>1, EveTypes
<1>3. \/ eve[s].open = r
      \/ \E i \in 1 .. l : i > c /\ eve[s].log[i].type = "end" /\ eve[s].log[i].run = r
  BY <1>2 DEF EndAhead
<1>4. ASSUME \/ eve'[s].open = r
             \/ \E i \in 1 .. Len(eve'[s].log) :
                  /\ i > eve'[s].cur
                  /\ eve'[s].log[i].type = "end" /\ eve'[s].log[i].run = r
      PROVE  EndAhead(r)'
  BY <1>4 DEF EndAhead
<1>5. CASE EveSteady(s)
  <2>1. eve'[s].open = eve[s].open /\ eve'[s].log = eve[s].log
    BY <1>5 DEF EveSteady
  <2>2. CASE eve'[s].cur = c \/ eve[s].open = r
    BY <1>2, <1>3, <1>4, <2>1, <2>2
  <2>3. CASE eve'[s].cur # c /\ eve[s].open # r
    <3>1. eve'[s].cur = c + 1
      BY <1>2, <1>5, <2>3 DEF EveSteady
    <3>2. PICK i \in 1 .. l : i > c /\ eve[s].log[i].type = "end" /\ eve[s].log[i].run = r
      BY <1>3, <2>3
    <3>3. CASE i # c + 1
      <4>1. i > c + 1
        BY <1>2, <3>2, <3>3
      <4> QED
        BY <1>2, <1>4, <2>1, <3>1, <3>2, <4>1
    <3>4. CASE i = c + 1
      <4>1. PICK x \in Run : TailReads(x)
        BY <1>1, <1>2, <2>3, Readings DEF Unmoved
      <4>2. PICK t \in Session, y \in Run : Reads(x, t, y)
        BY <1>1, <4>1, TailReading
      <4>3. t = s
        BY <1>2, <2>3, <4>2 DEF Reads
      <4>4. y = r
        BY <1>2, <3>2, <3>4, <4>2, <4>3 DEF Reads
      <4> QED
        BY <1>2, <3>2, <3>4, <4>2, <4>3, <4>4
    <3> QED
      BY <3>3, <3>4
  <2> QED
    BY <2>2, <2>3
<1>6. CASE EveOpens(s)
  <2>1. /\ Len(eve'[s].log) = l + 1 /\ \A j \in 1 .. l : eve'[s].log[j] = eve[s].log[j]
        /\ eve'[s].cur = c /\ eve[s].open = None
    BY <1>1, <1>2, <1>6, Opened
  <2>2. PICK i \in 1 .. l : i > c /\ eve[s].log[i].type = "end" /\ eve[s].log[i].run = r
    BY <1>3, <2>1, Numbers
  <2>3. i \in 1 .. l + 1
    BY <1>2
  <2> QED
    BY <1>4, <2>1, <2>2, <2>3
<1>7. CASE EveCloses(s)
  <2>1. /\ Len(eve'[s].log) = l + 1 /\ \A j \in 1 .. l : eve'[s].log[j] = eve[s].log[j]
        /\ eve'[s].cur = c
        /\ eve'[s].log[l + 1].type = "end" /\ eve'[s].log[l + 1].run = eve[s].open
    BY <1>1, <1>2, <1>7, Closed
  <2>2. CASE eve[s].open = r
    <3>1. c <= l
      BY <1>2 DEF Traced, TracedOf
    <3>2. l + 1 > c /\ l + 1 \in 1 .. l + 1
      BY <3>1
    <3> QED
      BY <1>4, <2>1, <2>2, <3>2
  <2>3. CASE eve[s].open # r
    <3>1. PICK i \in 1 .. l : i > c /\ eve[s].log[i].type = "end" /\ eve[s].log[i].run = r
      BY <1>3, <2>3
    <3>2. i \in 1 .. l + 1
      BY <1>2
    <3> QED
      BY <1>4, <2>1, <3>1, <3>2
  <2> QED
    BY <2>2, <2>3
<1>8. ASSUME NEW q, NEW n, EveTakes(s, q, n)
      PROVE  EndAhead(r)'
  <2>1. eve'[s].open = eve[s].open /\ eve'[s].log = eve[s].log /\ eve'[s].cur = c
    BY <1>2, <1>8 DEF EveTakes
  <2> QED
    BY <1>2, <1>3, <1>4, <2>1
<1>9. ASSUME NEW d \in Disp, Retires(d), disp[d].sess = s
      PROVE  FALSE
  <2>1. r \in RunsOf(s)
    BY <1>1 DEF RunsOf
  <2> QED
    BY <1>9, <2>1 DEF Retires, Inv, ResetHeld
<1> QED
  BY <1>5, <1>6, <1>7, <1>8, <1>9, EveTurn

\* Who starts to wait for a turn: a request that has sent one, and the tail that
\* sees it start.
LEMMA AwaitBegins ==
  ASSUME Inv, FollowLive, FirstBoot, [Next]_vars, Step, crashes = 0, NEW r \in Run,
         Awaited(r)'
  PROVE  \/ Awaited(r)
         \/ \E d \in Disp : Accepted(d) /\ disp[d].run = r
         \/ \E s \in Session : Reads(r, s, r) /\ ReadsStart(r, s, r)
<1>1. Shape /\ tail \in [Run -> TailRec]
  BY Tables DEF Inv
<1>2. CASE tail'[r].st = "follow" /\ tail'[r].saw
  <2>1. CASE tail'[r] = tail[r]
    BY <1>2, <2>1 DEF Awaited
  <2>2. CASE Idles
    BY <1>2, <2>1, <2>2 DEF Idles
  <2>3. ASSUME NEW x \in Run, TailAdopt(x)
        PROVE  tail'[r] = tail[r] \/ tail[r].st = "pre"
    <3>1. x # r => tail'[r] = tail[r]
      BY <1>1, <2>3 DEF TailAdopt, EndTail
    <3> QED
      BY <2>3, <3>1 DEF TailAdopt
  <2>4. ASSUME NEW x \in Run, TailReads(x)
        PROVE  \/ tail'[r] = tail[r]
               \/ \E s \in Session : Reads(r, s, r) /\ ReadsStart(r, s, r)
    <3>1. PICK s \in Session, y \in Run : Reads(x, s, y)
      BY <1>1, <2>4, TailReading
    <3>2. x # r => tail'[r] = tail[r]
      BY <3>1 DEF Reads
    <3>3. ASSUME x = r, tail'[r] # tail[r]
          PROVE  ReadsStart(r, s, y) /\ y = r
      <4>1. tail'[r] # NoTail
        BY <1>2 DEF NoTail
      <4>2. ~ReadsEnd(r, s)
        <5>1. ASSUME NEW out, tail'[r] = [tail[r] EXCEPT !.st = "ended", !.out = out]
              PROVE  FALSE
          BY <1>1, <1>2, <5>1 DEF TailRec
        <5> QED
          BY <3>3, <4>1, <5>1 DEF ReadsEnd
      <4>3. ReadsStart(r, s, y)
        BY <3>1, <3>3, <4>2 DEF Reads
      <4>4. IsOwn(r, y)
        BY <3>3, <4>1, <4>3 DEF ReadsStart
      <4> QED
        BY <4>3, <4>4 DEF IsOwn
    <3> QED
      BY <3>1, <3>2, <3>3
  <2> QED
    BY <1>1, <2>1, <2>2, <2>3, <2>4, Tailing DEF Awaited
<1>3. CASE tail'[r].st = "pre"
  <2>1. CASE tail[r].st = "none"
    <3>1. ASSUME NEW row \in recon.rows
          PROVE  FALSE
      BY <3>1 DEF FirstBoot
    <3>2. PICK d \in Disp : Follows(d) /\ r = disp[d].run
      BY <1>1, <1>3, <2>1, <3>1, TailBirths
    <3> QED
      BY <3>2 DEF Follows, Awaited, Sent
  <2>2. CASE tail[r].st # "none"
    <3>1. tail[r].st = "pre"
      BY <1>1, <1>3, <2>2, TailNext DEF TailTurn
    <3> QED
      BY <3>1 DEF Awaited
  <2> QED
    BY <2>1, <2>2
<1>4. ASSUME NEW d \in Disp, disp'[d].run = r,
             disp'[d].pc \in {"inflight", "persist", "recheck", "tail"}
      PROVE  Sent(r) \/ (Accepted(d) /\ disp[d].run = r)
  <2>1. CASE disp'[d] = disp[d]
    BY <1>4, <2>1 DEF Sent
  <2>2. CASE Works(d)
    <3>1. \/ Accepted(d)
          \/ disp[d].pc = "inflight" /\ Pass(d, "persist")
          \/ Persists(d)
          \/ disp[d].pc = "recheck" /\ Pass(d, "tail")
      BY <1>4, <2>2, Targets
    <3>2. disp[d].run = r
      BY <1>4, <3>1 DEF Accepted, Persists, Pass
    <3> QED
      BY <3>1, <3>2 DEF Sent, Persists
  <2>3. CASE Begins(d)
    BY <1>1, <1>4, <2>3, Starts
  <2> QED
    BY <1>4, <2>1, <2>2, <2>3, Turn DEF Idle
<1> QED
  BY <1>2, <1>3, <1>4 DEF Awaited, Sent

\* A start that is read has its end ahead of it.
LEMMA StartAhead ==
  ASSUME Inv, Paired, NEW x \in Run, NEW s \in Session, NEW r \in Run, Reads(x, s, r),
         eve[s].log[eve[s].cur + 1].type = "start", run[r].st \in LiveStatus,
         s = run'[r].sess
  PROVE  EndAhead(r)'
<1>1. Shape
  BY DEF Inv
<1>2. PICK l \in Nat, c \in Nat : l = Len(eve[s].log) /\ c = eve[s].cur
  BY <1>1, EveTypes
<1>3. /\ c + 1 \in 1 .. l /\ eve[s].log[c + 1].type = "start" /\ eve[s].log[c + 1].run = r
      /\ eve'[s].open = eve[s].open /\ eve'[s].log = eve[s].log /\ eve'[s].cur = c + 1
  BY <1>2 DEF Reads, EveSteady
<1>4. CASE c + 1 = l
  <2>1. eve[s].open = r
    BY <1>2, <1>3, <1>4 DEF Paired, PairedOf
  <2> QED
    BY <1>3, <2>1 DEF EndAhead
<1>5. CASE c + 1 # l
  <2>1. PICK j \in Nat : j = (c + 1) + 1
    BY <1>2
  <2>2. eve[s].log[j].type = "end" /\ eve[s].log[j].run = r
    BY <1>2, <1>3, <1>5, <2>1 DEF Paired, PairedOf
  <2>3. c + 1 \in 1 .. l
    BY <1>3
  <2>4. j \in 1 .. l /\ j > c + 1
    BY <1>5, <2>1, <2>3
  <2> QED
    BY <1>2, <1>3, <2>2, <2>4 DEF EndAhead
<1> QED
  BY <1>4, <1>5

\* Who reads the end of a run's turn is its own tail, and that tail ends.
LEMMA EndAwaited ==
  ASSUME Inv, FollowLive, LiveUnowed, NEW x \in Run, NEW s \in Session, NEW r \in Run,
         Reads(x, s, r), eve[s].log[eve[s].cur + 1].type = "end", s = run[r].sess,
         run[r].st \in LiveStatus, run[r].turn
  PROVE  ~Awaited(r)'
<1>1. Shape /\ Sole /\ tail \in [Run -> TailRec]
  BY Tables DEF Inv, SoleLive
<1>2. tail[x].st # "observe"
  BY DEF Reads, OwedRuns, RunsOf, LiveUnowed
<1>3. run[x].st \in LiveStatus /\ run[x].sess = s /\ tail[x].st = "follow"
  BY <1>2 DEF Reads, FollowLive
<1>4. x = r
  BY <1>1, <1>3 DEF Sole
<1>5. PICK out : IF tail[r].saw \/ out = "session.failed"
                 THEN tail'[r] = [tail[r] EXCEPT !.st = "ended", !.out = out]
                 ELSE tail'[r] = tail[r] \/ tail'[r] = NoTail
  BY <1>3, <1>4 DEF Reads, ReadsStart, ReadsEnd
<1>6. tail'[r].st # "pre" /\ ~(tail'[r].st = "follow" /\ tail'[r].saw)
  <2>1. [tail[r] EXCEPT !.st = "ended", !.out = out].st = "ended"
    BY <1>1 DEF TailRec
  <2>2. NoTail.st = "none"
    BY DEF NoTail
  <2>3. CASE tail'[r] = tail[r] /\ ~tail[r].saw
    BY <1>3, <1>4, <2>3
  <2>4. CASE tail'[r].st \in {"ended", "none"}
    BY <2>4
  <2> QED
    BY <1>5, <2>1, <2>2, <2>3, <2>4
<1>7. ASSUME NEW d \in Disp, disp'[d].run = r,
             disp'[d].pc \in {"inflight", "persist", "recheck", "tail"}
      PROVE  FALSE
  <2>1. Owner(d) /\ disp[d].run = r
    BY <1>7 DEF Reads, Owner, OwnPc
  <2> QED
    BY <1>3, <1>4, <2>1 DEF Inv, TailMode, TailOfOwned
<1> QED
  BY <1>6, <1>7 DEF Awaited, Sent

\* An awaited turn keeps its end ahead.
LEMMA EndsStep ==
  ASSUME Inv, Order, FollowLive, Paired, FirstBoot, LiveUnowed, Ends, [Next]_vars, Step
  PROVE  Ends'
<1>1. Shape
  BY DEF Inv
<1> SUFFICES ASSUME crashes' = 0, NEW r \in Run, run'[r].st \in LiveStatus, run'[r].turn,
                    Awaited(r)'
             PROVE  EndAhead(r)'
  BY DEF Ends
<1>2. crashes = 0
  BY <1>1, BootStays
<1>3. run[r].st \in LiveStatus /\ run[r].st # "none"
  <2>1. ASSUME NEW d \in Disp, Admits(d, r)
        PROVE  FALSE
    BY <2>1 DEF Admits, NoRun
  <2> QED
    BY <1>1, <2>1, Births DEF LiveStatus
<1>4. PICK s \in Session : s = run[r].sess /\ s = run'[r].sess
  BY <1>1, <1>3, RunsOfStay DEF Shape, RunShape
<1>5. ASSUME NEW x \in Run, NEW t \in Session, Reads(x, t, r), ReadsStart(x, t, r)
      PROVE  EndAhead(r)'
  <2>1. eve[t].log[eve[t].cur + 1].type = "start"
    BY <1>5 DEF ReadsStart
  <2>2. t = s
    BY <1>4, <1>5, <2>1, OpeningRead DEF Order
  <2> QED
    BY <1>3, <1>4, <1>5, <2>1, <2>2, StartAhead
<1>6. CASE run[r].turn
  <2>1. CASE Awaited(r)
    <3>1. EndAhead(r)
      BY <1>2, <1>3, <1>6, <2>1 DEF Ends
    <3>2. ASSUME NEW x \in Run, Reads(x, s, r), eve[s].log[eve[s].cur + 1].type = "end"
          PROVE  FALSE
      BY <1>3, <1>4, <1>6, <3>2, EndAwaited
    <3> QED
      BY <1>3, <1>4, <3>1, <3>2, EndAheadStep DEF Order
  <2>2. ASSUME NEW d \in Disp, Accepted(d), disp[d].run = r
        PROVE  FALSE
    BY <1>6, <2>2 DEF Accepted, Order, SendClear
  <2>3. CASE \E t \in Session : Reads(r, t, r) /\ ReadsStart(r, t, r)
    BY <1>5, <2>3
  <2> QED
    BY <1>2, <2>1, <2>2, <2>3, AwaitBegins
<1>7. CASE ~run[r].turn
  <2>1. PICK x \in Run : TailReads(x)
    BY <1>1, <1>7, Readings DEF Unattributed
  <2>2. PICK t \in Session, y \in Run : Reads(x, t, y)
    BY <1>1, <2>1, TailReading
  <2>3. ReadsStart(x, t, y) /\ r = y
    BY <1>7, <2>2 DEF Reads, ReadsStart, ReadsEnd
  <2> QED
    BY <1>5, <2>2, <2>3
<1> QED
  BY <1>6, <1>7

\* The invariant behind the ends of the turns.
Turns == Inv /\ Order /\ FollowLive /\ Paired /\ FirstBoot /\ LiveUnowed /\ Ends

\* At the start nobody waits for a turn,
LEMMA TurnsInit ==
  ASSUME Init
  PROVE  Turns
<1>1. Stops
  BY StopsInit
<1>2. \A r \in Run : run[r] = NoRun
  BY DEF Init
<1>3. \A r \in Run : run[r].st = "none" /\ ~run[r].owed
  BY <1>2 DEF NoRun
<1>4. \A s \in Session : Len(eve[s].log) = 0
  BY DEF Init, NoEve
<1>5. Paired
  BY <1>4 DEF Paired, PairedOf
<1>6. recon.rows = {}
  BY DEF Init
<1> QED
  BY <1>1, <1>3, <1>5, <1>6 DEF Turns, Stops, FirstBoot, LiveUnowed, Ends, LiveStatus

\* and every step keeps an end ahead of those who do.
LEMMA TurnsStep ==
  ASSUME ~EarlyTraffic, ~SlowStop, Turns, [Next]_vars
  PROVE  Turns'
<1>1. Step /\ Inv'
  BY InvStep DEF Turns
<1>2. Order' /\ FollowLive'
  BY <1>1, OrderStep, FollowLiveStep DEF Turns
<1>3. Paired' /\ FirstBoot' /\ LiveUnowed'
  BY <1>1, PairedStep, FirstBootStep, LiveUnowedStep DEF Turns, Order
<1>4. Ends'
  BY <1>1, EndsStep DEF Turns
<1> QED
  BY <1>1, <1>2, <1>3, <1>4 DEF Turns

\* TailMeetsItsEnd (tailer.ts run): until the process has crashed, a tail that
\* knows its turn will meet the turn's end: it is open at eve, or written and
\* not yet read by anybody.
THEOREM EndIsMet ==
  ASSUME ~EarlyTraffic, ~SlowStop
  PROVE  Spec => []TailMeetsItsEnd
<1>1. Init => Turns
  BY TurnsInit
<1>2. Turns /\ [Next]_vars => Turns'
  BY TurnsStep
<1>3. Turns => TailMeetsItsEnd
  <2> SUFFICES ASSUME Turns, crashes = 0, NEW r \in Run, tail[r].st = "follow", tail[r].saw
               PROVE  TurnOpen(r) \/ Unread(r)
    BY DEF TailMeetsItsEnd
  <2>1. run[r].st \in LiveStatus /\ run[r].turn /\ Awaited(r)
    BY DEF Turns, FollowLive, Order, Parked, Awaited
  <2>2. EndAhead(r) /\ run[r].st # "none"
    BY <2>1 DEF Turns, Ends, LiveStatus
  <2>3. PICK s \in Session : s = run[r].sess
    BY <2>2 DEF Turns, Inv, Shape, RunShape
  <2>4. PICK l \in Nat, c \in Nat : l = Len(eve[s].log) /\ c = eve[s].cur
    BY EveTypes DEF Turns, Inv
  <2>5. CASE eve[s].open = r
    BY <2>2, <2>3, <2>5 DEF TurnOpen
  <2>6. CASE eve[s].open # r
    <3>1. PICK i \in 1 .. l : i > c /\ eve[s].log[i].run = r
      BY <2>2, <2>3, <2>4, <2>6 DEF EndAhead
    <3>2. i \in c + 1 .. l
      BY <3>1
    <3> QED
      BY <2>3, <2>4, <3>1, <3>2 DEF Unread
  <2> QED
    BY <2>5, <2>6
<1> QED
  BY <1>1, <1>2, <1>3, PTL DEF Spec
=============================================================================
