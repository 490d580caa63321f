----------------------------- MODULE ChatThread -----------------------------
(***************************************************************************)
(* One chat thread as a browser tab sees it, composed with the half of the *)
(* control plane that feeds it.                                            *)
(*                                                                         *)
(* A run's tail persists events and settles the row, and publishes each on *)
(* an in-process bus (runs/bus.ts).  A resumable SSE response replays the  *)
(* persisted events after the tab's cursor and then follows the bus        *)
(* (runs/sse.ts).  The tab reads one stream per run, reconnecting from its *)
(* cursor (lib/sse.ts, use-thread-streams.ts), derives from rows and       *)
(* frames whether the session's one run slot is held (run-view.ts,         *)
(* ThreadContainer.tsx), and sends what the user types directly or through *)
(* a queue that waits for the slot (use-message-queue.ts).                 *)
(*                                                                         *)
(* Every await is a step boundary: a row is written before it is           *)
(* published, the replay query and the status query are read at one        *)
(* instant and used at a later one, a fetched session is applied after it  *)
(* was read.  succeeded, failed and canceled are the one status "settled". *)
(***************************************************************************)
EXTENDS Naturals, Sequences, FiniteSets, SequencesExt

CONSTANTS
    MaxRuns,      \* runs of the session, this tab's and another tab's
    MaxBusy,      \* MAX_BUSY_ATTEMPTS
    Bounds,       \* the bounds of the instances to explore, see below
    None

\* One instance: the user types messages 1 .. typed; a run has at most `events`
\* events; at most `faults` connections drop, replies are lost, dispatches fail
\* or control planes restart; and at most `acts` of the kinds in `kinds` happen.
Kind == {"stop", "answer", "remove", "context", "other"}

ASSUME ChatThreadAssumption ==
    /\ MaxRuns \in Nat /\ MaxBusy \in Nat \ {0}
    /\ Bounds \subseteq [typed : 0 .. MaxRuns, events : Nat \ {0}, faults : Nat,
                         acts : Nat, kinds : SUBSET Kind]
    /\ \A b \in Bounds : b.typed + (IF "other" \in b.kinds THEN b.acts ELSE 0) <= MaxRuns

Run == 1 .. MaxRuns
Msg == 1 .. MaxRuns

\* A POST /sessions/:id/messages, from the send to what the server makes of it.
Posts == [via : {"direct", "queue"}, msgs : Seq(Msg), run : 0 .. MaxRuns,
          stage : {"sent", "dispatching", "ok", "busy", "over", "error"}]

ASSUME NoneAssumption == None \notin Posts

Event == {"text", "input", "stopped"}
Holding == {"queued", "running", "waiting"}
Status == Holding \cup {"settled"}

\* sse.ts isStreamTerminalStatus: a parked run ends the stream too.
StreamTerminal(st) == st \in {"waiting", "settled"}

VARIABLES
    bound,     \* the instance, chosen once
    status,    \* runs.status, "none" before the row exists
    log,       \* run_events of each run, the frame with seq i-1 at place i
    body,      \* the messages the run was sent with
    orphan,    \* runs that were live at a restart, until boot reconciliation
    winding,   \* a stopped run whose turn.cancelled nobody has read yet, or 0
    due,       \* frames written to the database and not yet published
    conn,      \* the tab's connection to each run's stream, server end and body
    rows,      \* the tab's cached session detail: the status of each listed run
    live,      \* the last run_status frame per run
    store,     \* the places of the frames in each run's FrameStore
    follow,    \* each stream handle: none, connecting, open, closed
    cursor,    \* lastEventId of each handle
    typed,     \* how many messages the user has submitted
    queue, post, attempts, retry,     \* useMessageQueue and postMessage
    box,       \* messages handed back to the composer
    gone,      \* messages the user removed from the queue
    retired,   \* sessionRetired
    over,      \* eve has retired the session
    asked,     \* the tab's Stop or HITL answer in flight
    fetch,     \* the rows a refetch of the session has read and not delivered
    reopening, \* runs whose stream is opened again once that refetch is in
    faults, acts,
    unheard,   \* runs that changed where no frame told this tab (history)
    ended,     \* events persisted when the tail last settled or parked the run (history)
    silent,    \* events persisted on a run and published to nobody (history)
    bounced    \* messages a direct send brought back to the queue (history)

server == <<status, log, body, orphan, winding, over, ended, silent>>
streams == <<conn, live, store, follow, cursor>>
sending == <<typed, queue, post, attempts, retry, box, gone, retired, bounced>>
budget == <<faults, acts>>
vars == <<bound, server, due, streams, rows, sending, asked, fetch, reopening, budget, unheard>>

-----------------------------------------------------------------------------
(* Frames and connections. *)

Fault == faults < bound.faults /\ faults' = faults + 1
Act(k) == k \in bound.kinds /\ acts < bound.acts /\ acts' = acts + 1

EventFrame(r, i) == [run |-> r, seq |-> i, st |-> "event"]
StatusFrame(r, st) == [run |-> r, seq |-> 0, st |-> st]
IsEvent(f) == f.seq > 0

Closed == [phase |-> "off", sent |-> 0, upto |-> 0, seen |-> "none",
           buf |-> <<>>, out |-> <<>>]

\* sendEventFrame and sendStatusFrame behind the dedupe by seq: nothing leaves
\* a closed response, and a terminal status closes it.
Emit(c, f) ==
    IF c.phase = "off" \/ (IsEvent(f) /\ f.seq <= c.sent) THEN c
    ELSE IF IsEvent(f) THEN [c EXCEPT !.sent = f.seq, !.out = Append(@, f)]
    ELSE IF StreamTerminal(f.st) THEN [Closed EXCEPT !.out = Append(c.out, f)]
    ELSE [c EXCEPT !.out = Append(@, f)]

\* The frames fs, one after the other.
EmitAll(c, fs) ==
    LET after[i \in 0 .. Len(fs)] == IF i = 0 THEN c ELSE Emit(after[i - 1], fs[i])
    IN after[Len(fs)]

\* Mutant of Hear: the response subscribes after its replay.
HearLate(c, f) == IF c.phase \in {"replay", "read"} THEN c ELSE Emit(c, f)

\* The bus listener of a response: frames are buffered while it replays.
Hear(c, f) ==
    IF c.phase \in {"replay", "read"} THEN [c EXCEPT !.buf = Append(@, f)]
    ELSE Emit(c, f)

\* bus.publish, to the one follower this tab has on the run.
Publish(f) ==
    /\ f \in due
    /\ due' = due \ {f}
    /\ conn' = [conn EXCEPT ![f.run] = Hear(@, f)]
    /\ UNCHANGED <<bound, server, live, store, follow, cursor, rows, sending, asked, fetch, reopening, budget, unheard>>

\* A tail writes nothing more before its last write is published.
Unpublished(r) == \E f \in due : f.run = r

-----------------------------------------------------------------------------
(* What the tab derives from its rows and frames. *)

LastSeq(S) == Max(S \cup {0})

\* Mutant of ViewStatus: the live layer always wins.
ViewStatusLive(r) == IF live[r] = "none" THEN rows[r] ELSE live[r]

\* reduceRunView: a settled row wins, else the live layer, else the row.
ViewStatus(r) ==
    IF rows[r] = "settled" \/ live[r] = "none" THEN rows[r] ELSE live[r]
ViewStopped(r) == \E i \in store[r] : log[r][i] = "stopped"

Listed == {r \in Run : rows[r] # "none"}
ShownHolding(r) == r \in Listed /\ ~ViewStopped(r) /\ ViewStatus(r) \in Holding
SlotHeld == \E r \in Run : ShownHolding(r)
PendingInput(r) ==
    /\ ShownHolding(r)
    /\ store[r] # {}
    /\ log[r][LastSeq(store[r])] = "input"

IsPending == post # None

\* Mutant of Queueing: what is already waiting does not count.
QueueingUnordered == SlotHeld \/ IsPending

\* Submit means enqueue whenever the slot is, or is about to be, held.
Queueing == SlotHeld \/ IsPending \/ queue # <<>>

\* Mutant of CanFlush: the flush waits until nothing is queued.
CanFlushIdle == ~Queueing /\ ~retired

\* The server's own rule for taking a message.
CanFlush == ~SlotHeld /\ ~retired /\ ~IsPending

\* useThreadStreams' effect: a stream for every listed run, none for the rest.
Attach(list) ==
    LET left(r) == list[r] = "none"
        fresh(r) == list[r] # "none" /\ follow[r] = "none"
    IN /\ rows' = list
       /\ follow' = [r \in Run |-> IF left(r) THEN "none"
                                   ELSE IF fresh(r) THEN "connecting" ELSE follow[r]]
       /\ cursor' = [r \in Run |-> IF fresh(r) THEN LastSeq(store[r]) ELSE cursor[r]]
       /\ conn' = [r \in Run |-> IF left(r) THEN Closed ELSE conn[r]]
       /\ UNCHANGED <<live, store>>

\* useThreadStreams.reopen: the old handle is closed, the new one resumes after
\* the last frame the store holds.
Reopen(r) ==
    /\ follow' = [follow EXCEPT ![r] = "connecting"]
    /\ cursor' = [cursor EXCEPT ![r] = LastSeq(store[r])]
    /\ conn' = [conn EXCEPT ![r] = Closed]
    /\ UNCHANGED <<live, store>>

-----------------------------------------------------------------------------
(* The server: tails, Stop, boot reconciliation. *)

Used == {r \in Run : status[r] # "none"}
Idle == \A r \in Used : status[r] = "settled"
NextRun == Cardinality(Used) + 1

\* A run between its insert and the tail start that follows the send.
Dispatching(r) == post # None /\ post.stage = "dispatching" /\ post.run = r

\* The tail adopts the row; nothing is sent to a follower that comes later.
TailStart(r) ==
    /\ status[r] = "queued" /\ r \notin orphan /\ ~Dispatching(r)
    /\ status' = [status EXCEPT ![r] = "running"]
    /\ due' = due \cup {StatusFrame(r, "running")}
    /\ UNCHANGED <<bound, log, body, orphan, winding, over, ended, silent, streams, rows, sending, asked, fetch, reopening, budget, unheard>>

\* persist: append the row, then publish it.  A fresh tail first drains what is
\* left of a stopped predecessor's turn, and persists it under its own run.
TailEvent(r, k) ==
    /\ status[r] = "running" /\ r \notin orphan /\ ~Unpublished(r)
    /\ Len(log[r]) < bound.events
    /\ (k = "stopped") = (winding # 0)
    /\ log' = [log EXCEPT ![r] = Append(@, k)]
    /\ due' = due \cup {EventFrame(r, Len(log[r]) + 1)}
    /\ winding' = 0
    /\ UNCHANGED <<bound, status, body, orphan, over, ended, silent, streams, rows, sending, asked, fetch, reopening, budget, unheard>>

\* The tail's loop: an event is published before the next one is read.
Settleable(r) == status[r] = "running" /\ r \notin orphan /\ ~Unpublished(r)

\* finishRun at the turn's boundary: the row first, the status frame after.
TailFinish(r) ==
    /\ Settleable(r)
    /\ LET parked == log[r] # <<>> /\ log[r][Len(log[r])] = "input"
           st == IF parked THEN "waiting" ELSE "settled"
       IN /\ status' = [status EXCEPT ![r] = st]
          /\ due' = due \cup {StatusFrame(r, st)}
    /\ ended' = [ended EXCEPT ![r] = Len(log[r])]
    /\ UNCHANGED <<bound, log, body, orphan, winding, over, silent, streams, rows, sending, asked, fetch, reopening, budget, unheard>>

\* The observation of a stopped run reads its turn.cancelled, unless a new
\* run's tail has taken the stream over.
Observe ==
    /\ winding # 0 /\ Idle /\ ~Unpublished(winding)
    /\ log' = [log EXCEPT ![winding] = Append(@, "stopped")]
    /\ due' = due \cup {EventFrame(winding, Len(log[winding]) + 1)}
    /\ winding' = 0
    /\ UNCHANGED <<bound, status, body, orphan, over, ended, silent, streams, rows, sending, asked, fetch, reopening, budget, unheard>>

\* The control plane restarts: the bus, its followers and every reply in
\* flight are lost, the rows stay.
Crash ==
    /\ Fault
    /\ due' = {}
    /\ conn' = [r \in Run |-> Closed]
    /\ follow' = [r \in Run |-> IF follow[r] = "open" THEN "connecting" ELSE follow[r]]
    /\ orphan' = {r \in Run : status[r] \in {"queued", "running"}}
    /\ post' = IF IsPending THEN [post EXCEPT !.stage = "error"] ELSE None
    /\ asked' = IF asked # None THEN [asked EXCEPT !.stage = "error"] ELSE None
    /\ unheard' = unheard \cup
         {r \in Run : asked # None /\ asked.run = r /\ asked.stage = "ok"}
    /\ fetch' = IF fetch = None THEN None ELSE status
    /\ UNCHANGED <<bound, status, log, body, winding, over, ended, silent, live, store, cursor, rows,
                   typed, queue, attempts, retry, box, gone, retired, bounced, reopening, acts>>

\* Boot reconciliation runs beside live traffic: it restarts the run's tail or
\* fails the row, and the failure is published to nobody.
Reconcile(r) ==
    /\ r \in orphan
    /\ orphan' = orphan \ {r}
    /\ \/ /\ status' = [status EXCEPT ![r] = "running"]
          /\ due' = due \cup {StatusFrame(r, "running")}
          /\ unheard' = unheard
       \/ /\ status' = [status EXCEPT ![r] = "settled"]
          /\ unheard' = unheard \cup {r}
          /\ due' = due
    /\ UNCHANGED <<bound, log, body, winding, over, ended, silent, streams, rows, sending, asked, fetch, reopening, budget>>

-----------------------------------------------------------------------------
(* The SSE response and the stream client. *)

\* A fetch reaches the server, which subscribes to the bus before it reads.
Connect(r) ==
    /\ follow[r] = "connecting"
    /\ follow' = [follow EXCEPT ![r] = "open"]
    /\ conn' = [conn EXCEPT ![r] = [Closed EXCEPT !.phase = "replay", !.sent = cursor[r]]]
    /\ UNCHANGED <<bound, server, due, live, store, cursor, rows, sending, asked, fetch, reopening, budget, unheard>>

\* listEventsAfter reads the database ...
ReadEvents(r) ==
    /\ conn[r].phase = "replay"
    /\ conn' = [conn EXCEPT ![r].phase = "read", ![r].upto = Len(log[r])]
    /\ UNCHANGED <<bound, server, due, live, store, follow, cursor, rows, sending, asked, fetch, reopening, budget, unheard>>

\* ... and what it read is sent, then what was buffered meanwhile.
Flush(r) ==
    /\ conn[r].phase = "read"
    /\ LET c == [conn[r] EXCEPT !.phase = "look", !.buf = <<>>]
           after == IF c.upto > c.sent THEN c.upto - c.sent ELSE 0
           replayed == [i \in 1 .. after |-> EventFrame(r, c.sent + i)]
       IN conn' = [conn EXCEPT ![r] =
                      EmitAll([c EXCEPT !.upto = 0], replayed \o conn[r].buf)]
    /\ UNCHANGED <<bound, server, due, live, store, follow, cursor, rows, sending, asked, fetch, reopening, budget, unheard>>

\* getRunStatus reads the row ...
ReadStatus(r) ==
    /\ conn[r].phase = "look"
    /\ conn' = [conn EXCEPT ![r].phase = "looked", ![r].seen = status[r]]
    /\ UNCHANGED <<bound, server, due, live, store, follow, cursor, rows, sending, asked, fetch, reopening, budget, unheard>>

\* ... and a status that is over is sent as the closing frame.
Snapshot(r) ==
    /\ conn[r].phase = "looked"
    /\ LET c == [conn[r] EXCEPT !.phase = "follow", !.seen = "none"]
       IN conn' = [conn EXCEPT ![r] = IF StreamTerminal(conn[r].seen)
                                      THEN Emit(c, StatusFrame(r, conn[r].seen)) ELSE c]
    /\ UNCHANGED <<bound, server, due, live, store, follow, cursor, rows, sending, asked, fetch, reopening, budget, unheard>>

\* consume: an event frame moves the cursor and joins the store once; a
\* terminal status ends the handle for good.  No row is refetched: the lists
\* that run_status invalidates do not include the session's detail.
Receive(r) ==
    /\ follow[r] = "open" /\ conn[r].out # <<>>
    /\ LET f == Head(conn[r].out) IN
       IF IsEvent(f)
       THEN /\ store' = [store EXCEPT ![r] = @ \cup {f.seq}]
            /\ cursor' = [cursor EXCEPT ![r] = f.seq]
            /\ conn' = [conn EXCEPT ![r].out = Tail(@)]
            /\ UNCHANGED <<live, follow>>
       ELSE /\ live' = [live EXCEPT ![r] = f.st]
            /\ IF StreamTerminal(f.st)
               THEN /\ follow' = [follow EXCEPT ![r] = "closed"]
                    /\ conn' = [conn EXCEPT ![r] = Closed]
               ELSE /\ conn' = [conn EXCEPT ![r].out = Tail(@)]
                    /\ UNCHANGED follow
            /\ UNCHANGED <<store, cursor>>
    /\ UNCHANGED <<bound, server, due, rows, sending, asked, fetch, reopening, budget, unheard>>

\* The connection breaks: frames on the way are lost, the client reconnects.
Drop(r) ==
    /\ Fault /\ follow[r] = "open"
    /\ follow' = [follow EXCEPT ![r] = "connecting"]
    /\ conn' = [conn EXCEPT ![r] = Closed]
    /\ UNCHANGED <<bound, server, due, live, store, cursor, rows, sending, asked, fetch, reopening, acts, unheard>>

-----------------------------------------------------------------------------
(* Sending. *)

Without(s, S) ==
    LET kept[i \in 0 .. Len(s)] == IF i = 0 THEN <<>>
                                   ELSE IF s[i] \in S THEN kept[i - 1]
                                   ELSE Append(kept[i - 1], s[i])
    IN kept[Len(s)]
NewPost(via, ms) == [via |-> via, msgs |-> ms, run |-> 0, stage |-> "sent"]

\* onSubmit: enqueue whenever the slot is, or is about to be, held.
Submit ==
    /\ typed < bound.typed /\ ~retired
    /\ typed' = typed + 1
    /\ IF Queueing
       THEN queue' = Append(queue, typed + 1) /\ UNCHANGED post
       ELSE post' = NewPost("direct", <<typed + 1>>) /\ UNCHANGED queue
    /\ UNCHANGED <<bound, server, due, streams, rows, attempts, retry, box, gone, retired, bounced, asked, fetch, reopening, budget, unheard>>

\* The flush effect of useMessageQueue: one send of everything queued.
FlushQueue ==
    /\ CanFlush /\ ~retry /\ queue # <<>>
    /\ post' = NewPost("queue", queue)
    /\ UNCHANGED <<bound, server, due, streams, rows, typed, queue, attempts, retry, box, gone, retired, bounced, asked, fetch, reopening, budget, unheard>>

\* The retry timer fires, or is cancelled because the slot was taken.
RetryEnds ==
    /\ retry
    /\ retry' = FALSE
    /\ UNCHANGED <<bound, server, due, streams, rows, typed, queue, post, attempts, box, gone, retired, bounced, asked, fetch, reopening, budget, unheard>>

\* The user takes a message out of the queue.
RemoveQueued(m) ==
    /\ m \in ToSet(queue)
    /\ Act("remove")
    /\ queue' = Without(queue, {m})
    /\ gone' = gone \cup {m}
    /\ UNCHANGED <<bound, server, due, streams, rows, typed, post, attempts, retry, box, retired, bounced, asked, fetch, reopening, faults, unheard>>

\* POST /sessions/:id/messages, up to the insert of the run.
HandlePost ==
    /\ IsPending /\ post.stage = "sent"
    /\ IF over \/ ~Idle
       THEN /\ post' = [post EXCEPT !.stage = IF over THEN "over" ELSE "busy"]
            /\ UNCHANGED <<status, body>>
       ELSE /\ post' = [post EXCEPT !.stage = "dispatching", !.run = NextRun]
            /\ status' = [status EXCEPT ![NextRun] = "queued"]
            /\ body' = [body EXCEPT ![NextRun] = post.msgs]
    /\ UNCHANGED <<bound, log, orphan, winding, over, ended, silent, due, streams, rows, typed, queue, attempts, retry, box, gone, retired, bounced, asked, fetch, reopening, budget, unheard>>

\* The dispatch behind it: accepted, or failed (failDispatch settles the row
\* and publishes nothing), for want of a worker or because eve retired the id.
Dispatch ==
    /\ IsPending /\ post.stage = "dispatching"
    /\ \/ /\ post' = [post EXCEPT !.stage = "ok"]
          /\ UNCHANGED <<status, over, unheard, faults>>
       \/ \E reason \in {"error", "over"} :
             /\ Fault
             /\ post' = [post EXCEPT !.stage = reason]
             /\ over' = (reason = "over" \/ over)
             /\ status' = [status EXCEPT ![post.run] = "settled"]
             /\ unheard' = unheard \cup {post.run}
    /\ UNCHANGED <<bound, log, body, orphan, winding, ended, silent, due, streams, rows, typed, queue, attempts, retry, box, gone, retired, bounced, asked, fetch, reopening, acts>>

\* The reply, or the request, is lost on the way.
LosePost ==
    /\ Fault /\ IsPending /\ post.stage # "error"
    /\ post' = [post EXCEPT !.stage = "error"]
    /\ UNCHANGED <<bound, server, due, streams, rows, typed, queue, attempts, retry, box, gone, retired, bounced, asked, fetch, reopening, acts, unheard>>

\* Mutant of DropIncluded: the whole queue is cleared.
DropAll == <<>>

\* dropIncluded: only the messages of the flush leave the queue.
DropIncluded == IF post.via = "queue" THEN Without(queue, ToSet(post.msgs)) ELSE queue

\* The accepted run joins the cached detail and gets its stream.
Accepted ==
    /\ post.stage = "ok"
    /\ Attach([rows EXCEPT ![post.run] = "queued"])
    /\ queue' = DropIncluded
    /\ attempts' = IF post.via = "queue" THEN 0 ELSE attempts
    /\ UNCHANGED <<retry, box, retired, bounced>>

\* busyAttempts.current < MAX_BUSY_ATTEMPTS, after the increment.
TryAgain == attempts + 1 < MaxBusy

\* session_busy: a direct send falls back to the queue; a flush is tried again
\* until it has been refused MaxBusy times.
Busy ==
    /\ post.stage = "busy"
    /\ \/ /\ post.via = "direct"
          /\ queue' = queue \o post.msgs
          /\ bounced' = bounced \cup ToSet(post.msgs)
          /\ UNCHANGED <<attempts, retry, box>>
       \/ /\ post.via = "queue" /\ TryAgain
          /\ attempts' = attempts + 1
          /\ retry' = TRUE
          /\ UNCHANGED <<queue, box, bounced>>
       \/ /\ post.via = "queue" /\ ~TryAgain
          /\ attempts' = 0
          /\ box' = box \cup ToSet(post.msgs)
          /\ queue' = DropIncluded
          /\ UNCHANGED <<retry, bounced>>
    /\ UNCHANGED <<streams, rows, retired>>

\* Any other error hands the text back; a retired session disables the box.
Refused ==
    /\ post.stage \in {"over", "error"}
    /\ retired' = (retired \/ post.stage = "over")
    /\ box' = box \cup ToSet(post.msgs)
    /\ queue' = DropIncluded
    /\ attempts' = IF post.via = "queue" THEN 0 ELSE attempts
    /\ UNCHANGED <<streams, rows, retry, bounced>>

PostReply ==
    /\ IsPending
    /\ Accepted \/ Busy \/ Refused
    /\ post' = None
    /\ UNCHANGED <<bound, server, due, typed, gone, asked, fetch, reopening, budget, unheard>>

-----------------------------------------------------------------------------
(* Stop, HITL answers, refetches and the other tab. *)

Ask(kind, r) ==
    /\ asked = None
    /\ Act(kind)
    /\ asked' = [kind |-> kind, run |-> r, stage |-> "sent"]
    /\ UNCHANGED <<bound, server, due, streams, rows, sending, fetch, reopening, faults, unheard>>

ClickStop(r) == ShownHolding(r) /\ Ask("stop", r)

\* The card of an answer whose callback has not run yet is disabled.
Answer(r) == PendingInput(r) /\ r \notin reopening /\ Ask("answer", r)

\* cancelAgentRun: the row settles at once, and the turn of a run that had
\* started is still to wind down at eve.
StopRun(r) ==
    \/ /\ status[r] \in Holding
       /\ status' = [status EXCEPT ![r] = "settled"]
       /\ due' = due \cup {StatusFrame(r, "settled")}
       /\ winding' = IF status[r] = "running" THEN r ELSE winding
    \/ /\ status[r] = "settled"
       /\ UNCHANGED <<status, due, winding>>

HandleStop ==
    /\ asked # None /\ asked.kind = "stop" /\ asked.stage = "sent"
    /\ StopRun(asked.run)
    /\ orphan' = orphan \ {r \in Run : status'[r] = "settled"}
    /\ asked' = [asked EXCEPT !.stage = "ok"]
    /\ UNCHANGED <<bound, log, body, over, ended, silent, streams, rows, sending, fetch, reopening, budget, unheard>>

\* resumeRunInput: the waiting row is flipped and the answer sent; a failed
\* send settles the row without a frame.  The parked tail has published its
\* status by the time the answer's round trips are over.
HandleAnswer ==
    /\ asked # None /\ asked.kind = "answer" /\ asked.stage = "sent"
    /\ LET r == asked.run IN
       \/ /\ status[r] = "waiting" /\ StatusFrame(r, "waiting") \notin due
          /\ \/ /\ status' = [status EXCEPT ![r] = "queued"]
                /\ asked' = [asked EXCEPT !.stage = "ok"]
                /\ UNCHANGED <<unheard, faults>>
             \/ /\ Fault
                /\ status' = [status EXCEPT ![r] = "settled"]
                /\ asked' = [asked EXCEPT !.stage = "error"]
                /\ unheard' = unheard \cup {r}
       \/ /\ status[r] # "waiting"
          /\ asked' = [asked EXCEPT !.stage = "error"]
          /\ UNCHANGED <<status, unheard, faults>>
    /\ UNCHANGED <<bound, log, body, orphan, winding, over, ended, silent, due, streams, rows, sending, fetch, reopening, acts>>

\* A lost request or reply: this tab neither reopens nor refetches.
LoseAsked ==
    /\ Fault /\ asked # None /\ asked.stage # "error"
    /\ unheard' = IF asked.stage = "ok" THEN unheard \cup {asked.run} ELSE unheard
    /\ asked' = [asked EXCEPT !.stage = "error"]
    /\ UNCHANGED <<bound, server, due, streams, rows, sending, fetch, reopening, acts>>

\* Both replies refetch the session, dropping a refetch already under way, and
\* an answered run's stream is to be opened again after it.  The reply's arrival
\* and the server's read are one step: what comes between them might as well
\* come before.
AskedReply ==
    /\ asked # None /\ asked.stage # "sent"
    /\ asked' = None
    /\ fetch' = IF asked.stage = "ok" THEN status ELSE fetch
    /\ reopening' = IF asked.stage = "ok" /\ asked.kind = "answer"
                     THEN reopening \cup {asked.run} ELSE reopening
    /\ UNCHANGED <<bound, server, due, streams, rows, sending, budget, unheard>>

\* The fetched detail replaces the cached one, a run appended since it was
\* read included.
FetchApply ==
    /\ fetch # None
    /\ Attach(fetch)
    /\ fetch' = None
    /\ UNCHANGED <<bound, server, due, sending, asked, reopening, budget, unheard>>

\* The callback of the answer or the control, run when its refetches are in (a
\* refetch that another one replaced is awaited through the other).
Resumed(r) ==
    /\ r \in reopening /\ fetch = None
    /\ reopening' = reopening \ {r}
    /\ IF r \in Listed THEN Reopen(r) ELSE UNCHANGED streams
    /\ UNCHANGED <<bound, server, due, rows, sending, asked, fetch, budget, unheard>>

\* Clear or compact, refused while the slot is held: the control plane drains
\* the marker onto the newest run without publishing it, and the tab refetches
\* the session, then reopens that run's stream if it listed the run.
ContextControl ==
    /\ ~SlotHeld /\ ~retired /\ Idle /\ winding = 0 /\ Used # {}
    /\ LET r == Cardinality(Used) IN
       /\ Len(log[r]) < bound.events /\ ~Unpublished(r)
       /\ log' = [log EXCEPT ![r] = Append(@, "text")]
       /\ reopening' = reopening \cup ({r} \cap Listed)
       /\ silent' = [silent EXCEPT ![r] = @ + 1]
    /\ fetch' = status
    /\ Act("context")
    /\ UNCHANGED <<bound, status, body, orphan, winding, over, ended, due, streams, rows, sending, asked, faults, unheard>>

\* Another tab of the same session: it sends, answers or stops a parked run.
OtherTab ==
    /\ Act("other")
    /\ \/ /\ Idle /\ ~over
          /\ status' = [status EXCEPT ![NextRun] = "queued"]
          /\ UNCHANGED <<due, unheard>>
       \/ \E r \in Run :
             /\ status[r] = "waiting" /\ StatusFrame(r, "waiting") \notin due
             /\ unheard' = unheard \cup {r}
             /\ \/ /\ status' = [status EXCEPT ![r] = "queued"]
                   /\ due' = due
                \/ /\ status' = [status EXCEPT ![r] = "settled"]
                   /\ due' = due \cup {StatusFrame(r, "settled")}
    /\ UNCHANGED <<bound, log, body, orphan, winding, over, ended, silent, streams, rows, sending, asked, fetch, reopening, faults>>

-----------------------------------------------------------------------------
Init ==
    /\ bound \in Bounds
    /\ status = [r \in Run |-> "none"] /\ log = [r \in Run |-> <<>>]
    /\ body = [r \in Run |-> <<>>] /\ ended = [r \in Run |-> 0] /\ silent = [r \in Run |-> 0]
    /\ orphan = {} /\ winding = 0 /\ due = {} /\ over = FALSE
    /\ conn = [r \in Run |-> Closed]
    /\ rows = [r \in Run |-> "none"] /\ live = [r \in Run |-> "none"]
    /\ store = [r \in Run |-> {}] /\ cursor = [r \in Run |-> 0]
    /\ follow = [r \in Run |-> "none"]
    /\ typed = 0 /\ queue = <<>> /\ post = None /\ attempts = 0 /\ retry = FALSE
    /\ box = {} /\ gone = {} /\ retired = FALSE /\ bounced = {}
    /\ asked = None /\ fetch = None /\ reopening = {} /\ faults = 0 /\ acts = 0 /\ unheard = {}

\* What a tail, the control plane, the network and the tab's effects do.
System ==
    \/ \E r \in Run : TailStart(r) \/ TailFinish(r) \/ Reconcile(r)
    \/ \E r \in Run, k \in Event : TailEvent(r, k)
    \/ \E f \in due : Publish(f)
    \/ Observe
    \/ \E r \in Run : Connect(r) \/ ReadEvents(r) \/ Flush(r) \/ ReadStatus(r)
                      \/ Snapshot(r) \/ Receive(r)
    \/ FlushQueue \/ RetryEnds \/ HandlePost \/ Dispatch \/ PostReply
    \/ HandleStop \/ HandleAnswer \/ AskedReply \/ FetchApply
    \/ \E r \in Run : Resumed(r)

\* What the user, another tab and faults do.
Environment ==
    \/ Submit \/ ContextControl \/ OtherTab
    \/ \E m \in Msg : RemoveQueued(m)
    \/ \E r \in Run : ClickStop(r) \/ Answer(r) \/ Drop(r)
    \/ Crash \/ LosePost \/ LoseAsked

Next == System \/ Environment

Spec == Init /\ [][Next]_vars

\* Something the system can do gets done: promises resolve, timers fire, an
\* agent's turn ends.  Every system step is one of finitely many between two
\* steps of the environment, so no more than this is needed of the scheduler.
FairSpec == Spec /\ WF_vars(System)
-----------------------------------------------------------------------------
(* Properties. *)

Frames == [run : Run, seq : Nat, st : Status \cup {"event"}]
Conns == [phase : {"off", "replay", "read", "look", "looked", "follow"}, sent : Nat,
          upto : Nat, seen : Status \cup {"none"}, buf : Seq(Frames), out : Seq(Frames)]

\* Type invariant of the composed state.
TypeOK ==
    /\ bound \in Bounds
    /\ status \in [Run -> Status \cup {"none"}] /\ log \in [Run -> Seq(Event)]
    /\ body \in [Run -> Seq(Msg)] /\ ended \in [Run -> Nat] /\ silent \in [Run -> Nat]
    /\ orphan \subseteq Run /\ winding \in Run \cup {0}
    /\ due \subseteq Frames /\ conn \in [Run -> Conns]
    /\ rows \in [Run -> Status \cup {"none"}] /\ live \in [Run -> Status \cup {"none"}]
    /\ store \in [Run -> SUBSET Nat] /\ cursor \in [Run -> Nat]
    /\ \A r \in Run : store[r] \subseteq DOMAIN log[r] /\ cursor[r] \in 0 .. Len(log[r])
    /\ follow \in [Run -> {"none", "connecting", "open", "closed"}]
    /\ typed \in 0 .. bound.typed /\ queue \in Seq(Msg) /\ attempts \in 0 .. MaxBusy - 1
    /\ retry \in BOOLEAN /\ retired \in BOOLEAN /\ over \in BOOLEAN
    /\ box \subseteq Msg /\ gone \subseteq Msg /\ bounced \subseteq Msg /\ unheard \subseteq Run
    /\ post \in Posts \cup {None}
    /\ asked = None \/ asked \in [kind : {"stop", "answer"}, run : Run, stage : {"sent", "ok", "error"}]
    /\ fetch = None \/ fetch \in [Run -> Status \cup {"none"}]
    /\ reopening \subseteq Run
    /\ faults \in 0 .. bound.faults /\ acts \in 0 .. bound.acts

\* "No gap, no double-send" (sse.ts): whatever drops, restarts, reopens and
\* frames published during the replay, the frames a tab holds of a run are an
\* unbroken prefix of its log, for a gap below the resume cursor never fills;
\* no connection carries an event the tab has already stored; and a stream that
\* ended because its run is over has delivered every event the tail had
\* persisted when it settled the row.
TranscriptFaithful ==
    \A r \in Run :
        /\ store[r] = 1 .. Cardinality(store[r])
        /\ \A i \in DOMAIN conn[r].out :
               IsEvent(conn[r].out[i]) => conn[r].out[i].seq \notin store[r]
        /\ follow[r] = "closed" /\ live[r] = "settled" => 1 .. ended[r] \subseteq store[r]

InFlight == IF IsPending THEN ToSet(post.msgs) ELSE {}
SentWith(m) == {r \in Run : m \in ToSet(body[r])}

\* Every message the user typed is somewhere: waiting, on its way, in a run,
\* back in the box, or taken out by the user; and the tab itself never sends
\* one twice, nor keeps it queued once it is back in the box or acknowledged.
NoMessageLost ==
    \A m \in 1 .. typed :
        /\ m \in ToSet(queue) \cup InFlight \cup box \cup gone \/ SentWith(m) # {}
        /\ Cardinality(SentWith(m)) <= 1
        /\ m \in ToSet(queue) => m \notin box /\ (SentWith(m) = {} \/ m \in InFlight)

\* Messages reach the agent in the order they were typed ("a later message
\* must join the tail rather than overtake it", ThreadContainer), except for
\* one whose direct send was refused: it joins the queue behind what was typed
\* while it was on its way.
SentInOrder ==
    \A m1, m2 \in 1 .. typed : \A r1 \in SentWith(m1), r2 \in SentWith(m2) :
        m1 < m2 /\ m1 \notin bounced => r1 <= r2

ShownOver(r) == r \in Listed /\ status[r] = "settled" => ~ShownHolding(r)

\* A run of the thread that is over is shown as over again and again, through
\* drops, restarts and reopens, unless it changed where no frame could tell
\* this tab.
EndsAreShown == []<>(\A r \in Run : ShownOver(r) \/ r \in unheard)

\* The stream "closes after a stream-terminal status" (sse.ts), however the
\* row came by it.
EveryEndIsShown == []<>(\A r \in Run : ShownOver(r))

\* A queued message never strands: it is sent, handed back or removed, unless
\* the session is over or a run is parked for a person, or shown as if it were.
QueueDrains ==
    []<>(\/ queue = <<>> \/ retired
         \/ \E r \in Run : status[r] = "waiting" \/ (r \in unheard /\ ShownHolding(r)))

=============================================================================
