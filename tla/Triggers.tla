------------------------------ MODULE Triggers ------------------------------
(***************************************************************************)
(* How a workflow fires: the schedule ticker's scan, claim and dispatch,   *)
(* the webhook and Slack ingress with their in-process memories, the       *)
(* manual run, the admission every one of them goes through (a connection  *)
(* of the lock pool, the workspace cap lock, the overlap policy, the run   *)
(* row), and the edits that rewrite a trigger row meanwhile.               *)
(*                                                                         *)
(* Several control planes share the database; the pool, the idempotency    *)
(* map and the Slack memory belong to one process and die with it.  A cron *)
(* expression is the set Windows of the instants it matches.  Every run    *)
(* here is a pipeline run; PipelineRunner has what its driver does.        *)
(***************************************************************************)
EXTENDS Naturals, Sequences, FiniteSets, FiniteSetsExt

CONSTANTS
    Proc,        \* control-plane processes
    Req,         \* slots for requests in flight
    Ed,          \* slots for edits in flight
    Wf,          \* workflows of one workspace
    StartType,   \* the trigger type each workflow is published with at first
    Skip,        \* the workflows with overlap "skip"; the others allow it
    Types,       \* the trigger types an editor may choose
    Sources,     \* the kinds of request that arrive
    Key,         \* idempotency keys, None for a delivery without one
    Msg,         \* Slack messages
    Mention,     \* the messages that @mention the bot: two events each
    Cap,         \* workspaceRunCap
    Pool,        \* connections of a process's pipeline lock pool
    MaxIdem,     \* IDEMPOTENCY_MAX
    MaxSeen,     \* SlackEventDedup.maxEntries
    Windows,     \* the instants the cron expression matches
    MaxNow,      \* bound: the clock
    MaxRuns,     \* bound: runs ever created
    MaxEdits,    \* bound: edits
    MaxFaults    \* bound: crashes and failed claims

ASSUME TriggersAssumption ==
    /\ StartType \in [Wf -> {"schedule", "webhook", "slack"}]
    /\ IsFiniteSet(Proc) /\ IsFiniteSet(Req)
    /\ Proc \cap Req = {} /\ "none" \notin Proc \cup Req
    /\ Skip \subseteq Wf /\ Mention \subseteq Msg
    /\ Types \subseteq {"schedule", "webhook", "slack"}
    /\ Sources \subseteq {"webhook", "slack", "manual"}
    /\ Cap \in Nat \ {0} /\ Pool \in Nat \ {0}
    /\ MaxIdem \in Nat \ {0} /\ MaxSeen \in Nat \ {0}
    /\ Windows \subseteq Nat \ {0}
    /\ MaxNow \in Nat /\ MaxRuns \in Nat /\ MaxEdits \in Nat /\ MaxFaults \in Nat

None == "none"
Actor == Req \cup Proc

VARIABLES
    now,     \* the clock, in ticks of the cron's grid
    wf,      \* workflows: master switch and the draft's trigger type
    trig,    \* triggers: one row per workflow, next = 0 when disarmed
    runs,    \* the pipeline runs, in order of creation
    adm,     \* what each actor (a request, a process's ticker) is doing
    capLock, \* who holds the workspace's advisory lock
    pins,    \* reserved connections of each process's lock pool
    idem,    \* idempotency map of each process, oldest first
    seen,    \* SlackEventDedup of each process, oldest first
    ed,      \* edits in flight
    edits,
    faults,
    hist     \* history: last tick that claimed, late re-arms, forgotten events

vars == <<now, wf, trig, runs, adm, capLock, pins, idem, seen, ed, edits, faults, hist>>

NoAdm == [pc |-> "idle", p |-> None, src |-> None, w |-> None, todo |-> {},
          key |-> None, msg |-> None, ok |-> FALSE, at |-> 0,
          run |-> 0, hit |-> 0]
NoEdit == [pc |-> "idle", w |-> None, to |-> FALSE, was |-> FALSE,
           type |-> None, next |-> 0]

\* nextFire: the first match strictly after t; 0 when there is none.
NextFire(t) == IF \E x \in Windows : x > t THEN Min({x \in Windows : x > t}) ELSE 0

\* Every workflow is published and enabled, its trigger row synced, a Slack
\* trigger bound to a team and a webhook's token minted.
Init ==
    /\ now = 0
    /\ wf = [w \in Wf |-> [on |-> TRUE, draft |-> StartType[w]]]
    /\ trig = [w \in Wf |->
         [type |-> StartType[w], on |-> TRUE,
          next |-> IF StartType[w] = "schedule" THEN NextFire(0) ELSE 0,
          tok |-> StartType[w] = "webhook", team |-> StartType[w] = "slack"]]
    /\ runs = <<>>
    /\ adm = [a \in Actor |-> NoAdm]
    /\ capLock = None
    /\ pins = [p \in Proc |-> 0]
    /\ idem = [p \in Proc |-> <<>>]
    /\ seen = [p \in Proc |-> <<>>]
    /\ ed = [e \in Ed |-> NoEdit]
    /\ edits = 0 /\ faults = 0
    /\ hist = [last |-> [w \in Wf |-> 0], late |-> [w \in Wf |-> FALSE],
               forgot |-> {}, boot |-> [p \in Proc |-> 0]]

DB == <<now, wf, trig, ed, edits>>
Memory == <<idem, seen>>

(***************************************************************************)
(* Admission: PipelineRunner.start and its run creator.                    *)
(***************************************************************************)

Live == {i \in DOMAIN runs : runs[i].live}
Admitted == {"create", "insert", "refuse"}

\* A reservation is granted while the pool has a free connection (and while
\* the bound on runs leaves room).
Free(p) ==
    /\ pins[p] < Pool
    /\ Len(runs) + Cardinality({a \in Actor : adm[a].pc \in Admitted}) < MaxRuns

\* Mutant of Over: the timer chain ends with its first dispatch.
OverStops(a) == [adm[a] EXCEPT !.pc = "stopped"]

\* What an actor does after one dispatch: its next trigger row, or nothing.
Over(a) ==
    IF adm[a].todo = {} THEN NoAdm
    ELSE [adm[a] EXCEPT !.pc = IF a \in Proc THEN "claim" ELSE "route",
                        !.w = None, !.run = 0]

\* LOCK-BEFORE-CLAIM: the run's advisory lock rides a reserved connection.
Reserve(a) ==
    /\ adm[a].pc = "reserve" /\ Free(adm[a].p)
    /\ pins' = [pins EXCEPT ![adm[a].p] = @ + 1]
    /\ adm' = [adm EXCEPT ![a].pc = "create"]
    /\ UNCHANGED <<DB, Memory, runs, capLock, faults, hist>>

\* No connection within 2 s: refused, and nothing was created.
Exhausted(a) ==
    /\ adm[a].pc = "reserve" /\ ~Free(adm[a].p)
    /\ adm' = [adm EXCEPT ![a] = Over(a)]
    /\ UNCHANGED <<DB, Memory, runs, capLock, pins, faults, hist>>

\* Mutant of CapLockFree: the lock is not transaction-scoped, or not taken.
CapLockIgnored == TRUE
CapLockFree == capLock = None

OverlapHit(w) == w \in Skip /\ \E i \in Live : runs[i].w = w

\* create, under the workspace lock: the counts are read ...
Decide(a) ==
    /\ adm[a].pc = "create" /\ CapLockFree
    /\ capLock' = a
    /\ adm' = [adm EXCEPT ![a].pc =
         IF OverlapHit(adm[a].w) \/ Cardinality(Live) + 1 > Cap THEN "refuse" ELSE "insert"]
    /\ UNCHANGED <<DB, Memory, runs, pins, faults, hist>>

\* Mutant of ReleasedOnRefusal: the early return forgets the connection.
KeptOnRefusal(p) == pins
ReleasedOnRefusal(p) == [pins EXCEPT ![p] = @ - 1]

\* ... overlap_skipped or workspace_run_cap_exceeded: the lock is released ...
Refuse(a) ==
    /\ adm[a].pc = "refuse"
    /\ capLock' = None
    /\ pins' = ReleasedOnRefusal(adm[a].p)
    /\ adm' = [adm EXCEPT ![a] = Over(a)]
    /\ UNCHANGED <<DB, Memory, runs, faults, hist>>

\* ... or the row is inserted and the transaction commits.
Insert(a) ==
    /\ adm[a].pc = "insert"
    /\ capLock' = None
    /\ runs' = Append(runs, [w |-> adm[a].w, live |-> TRUE, drv |-> None, msg |-> adm[a].msg,
                             by |-> <<adm[a].p, hist.boot[adm[a].p]>>, lost |-> FALSE])
    /\ adm' = [adm EXCEPT ![a].pc = "launch", ![a].run = Len(runs) + 1]
    /\ UNCHANGED <<DB, Memory, pins, faults, hist>>

\* rememberIdempotent: a Map keeps a key's place when it is set again.
Remember(q, k, i) ==
    LET kept == IF \E j \in DOMAIN q : q[j].key = k
                THEN [j \in DOMAIN q |-> IF q[j].key = k THEN [key |-> k, run |-> i] ELSE q[j]]
                ELSE Append(q, [key |-> k, run |-> i])
    IN  IF Len(kept) > MaxIdem THEN Tail(kept) ELSE kept

\* The run remembered for a key of a trigger; 0 when there is none.
Recall(p, k) ==
    LET hits == {j \in DOMAIN idem[p] : idem[p][j].key = k}
    IN  IF hits = {} THEN 0 ELSE idem[p][Max(hits)].run

\* launch registers the handle and starts the driver; the caller answers, and
\* a keyed delivery is remembered.
Launch(a) ==
    /\ adm[a].pc = "launch"
    /\ runs' = [runs EXCEPT ![adm[a].run].drv = adm[a].p]
    /\ idem' = IF adm[a].key = None THEN idem
               ELSE [idem EXCEPT ![adm[a].p] = Remember(@, <<adm[a].w, adm[a].key>>, adm[a].run)]
    /\ adm' = [adm EXCEPT ![a] = Over(a)]
    /\ UNCHANGED <<DB, seen, capLock, pins, faults, hist>>

\* The driver settles its run; its connection is given back after that.
Settle(i) ==
    /\ runs[i].live /\ runs[i].drv # None
    /\ runs' = [runs EXCEPT ![i].live = FALSE]
    /\ UNCHANGED <<DB, Memory, adm, capLock, pins, faults, hist>>

Release(i) ==
    /\ ~runs[i].live /\ runs[i].drv # None
    /\ pins' = [pins EXCEPT ![runs[i].drv] = @ - 1]
    /\ runs' = [runs EXCEPT ![i].drv = None]
    /\ UNCHANGED <<DB, Memory, adm, capLock, faults, hist>>

\* recoverPipelineRuns: a live run whose lock nobody holds is driven again.
Adopt(p, i) ==
    /\ runs[i].live /\ runs[i].drv = None
    /\ \A a \in Actor : ~(adm[a].pc = "launch" /\ adm[a].run = i)
    /\ pins[p] < Pool
    /\ pins' = [pins EXCEPT ![p] = @ + 1]
    /\ runs' = [runs EXCEPT ![i].drv = p]
    /\ UNCHANGED <<DB, Memory, adm, capLock, faults, hist>>

(***************************************************************************)
(* The schedule ticker.                                                    *)
(***************************************************************************)

Due(w, t) ==
    /\ trig[w].type = "schedule" /\ trig[w].on
    /\ trig[w].next # 0 /\ trig[w].next <= t
    /\ wf[w].on

\* A tick reads the clock and the due rows; one without any does nothing.
Scan(p) ==
    /\ adm[p].pc = "idle"
    /\ \E w \in Wf : Due(w, now)
    /\ adm' = [adm EXCEPT ![p] = [NoAdm EXCEPT !.pc = "claim", !.p = p, !.src = "schedule",
                                  !.todo = {w \in Wf : Due(w, now)}, !.at = now]]
    /\ UNCHANGED <<DB, Memory, runs, capLock, pins, faults, hist>>

\* Mutant of Claimable: no re-check of the cursor.
ClaimableUnchecked(w, t) == trig[w].type = "schedule" /\ trig[w].on

\* The claim's re-check, with the tick's clock, and its new cursor.
Claimable(w, t) ==
    /\ trig[w].type = "schedule" /\ trig[w].on
    /\ trig[w].next # 0 /\ trig[w].next <= t
Advance(w, t) == NextFire(t)

\* claimDueScheduleFire, serialised by the trigger's advisory lock.
Claim(p, w) ==
    /\ adm[p].pc = "claim" /\ w \in adm[p].todo
    /\ IF Claimable(w, adm[p].at)
       THEN /\ trig' = [trig EXCEPT ![w].next = Advance(w, adm[p].at)]
            /\ hist' = [hist EXCEPT !.last[w] = Max({@, adm[p].at}),
                                    !.late[w] = @ /\ Advance(w, adm[p].at) <= hist.last[w]]
            /\ adm' = [adm EXCEPT ![p].pc = "load", ![p].todo = @ \ {w}, ![p].w = w]
       ELSE /\ adm' = [adm EXCEPT ![p] = LET rest == [adm[p] EXCEPT !.todo = @ \ {w}]
                                         IN  IF rest.todo = {} THEN NoAdm ELSE rest]
            /\ UNCHANGED <<trig, hist>>
    /\ UNCHANGED <<now, wf, ed, edits, Memory, runs, capLock, pins, faults>>

\* The claim's transaction fails: the row waits for the next tick.
ClaimFails(p, w) ==
    /\ adm[p].pc = "claim" /\ w \in adm[p].todo
    /\ faults < MaxFaults /\ faults' = faults + 1
    /\ adm' = [adm EXCEPT ![p] = LET rest == [adm[p] EXCEPT !.todo = @ \ {w}]
                                 IN  IF rest.todo = {} THEN NoAdm ELSE rest]
    /\ UNCHANGED <<DB, Memory, runs, capLock, pins, hist>>

\* resolveEnabledPipeline (published snapshots are never withdrawn).
Enabled(w) == wf[w].on

\* dispatchDue reloads the workflow; the cursor has moved whatever it finds.
Load(p) ==
    /\ adm[p].pc = "load"
    /\ adm' = [adm EXCEPT ![p] = IF Enabled(adm[p].w) THEN [@ EXCEPT !.pc = "reserve"] ELSE Over(p)]
    /\ UNCHANGED <<DB, Memory, runs, capLock, pins, faults, hist>>

(***************************************************************************)
(* Requests: webhook deliveries, Slack events and manual runs.             *)
(***************************************************************************)

\* POST /t/:token with the token of w; `hit' is what an answer given before
\* this delivery arrived had promised.
Deliver(r, p, w, k) ==
    /\ adm[r].pc = "idle" /\ trig[w].tok
    /\ adm' = [adm EXCEPT ![r] = [NoAdm EXCEPT !.pc = "lookup", !.p = p, !.src = "webhook", !.w = w,
                                  !.key = k,
                                  !.hit = IF k = None THEN 0 ELSE Recall(p, <<w, k>>)]]
    /\ UNCHANGED <<DB, Memory, runs, capLock, pins, faults, hist>>

\* resolveTriggerByTokenHash: one read of trigger and workflow.
Lookup(r) ==
    LET w == adm[r].w IN
    /\ adm[r].pc = "lookup"
    /\ adm' = [adm EXCEPT ![r] = IF trig[w].tok /\ trig[w].on /\ trig[w].type = "webhook"
                                 THEN [@ EXCEPT !.pc = "check", !.ok = Enabled(w)] ELSE NoAdm]
    /\ UNCHANGED <<DB, Memory, runs, capLock, pins, faults, hist>>

Answered(r) == adm[r].key # None /\ Recall(adm[r].p, <<adm[r].w, adm[r].key>>) # 0

\* The idempotency key first, then the kill switch as it was read.
Check(r) ==
    /\ adm[r].pc = "check"
    /\ adm' = [adm EXCEPT ![r] =
         IF Answered(r) \/ ~adm[r].ok THEN NoAdm ELSE [@ EXCEPT !.pc = "reserve"]]
    /\ UNCHANGED <<DB, Memory, runs, capLock, pins, faults, hist>>

Known(p, id) == \E j \in DOMAIN seen[p] : seen[p][j] = id

\* A Slack event: marked seen, acknowledged, routed in the background.
SlackEvent(r, p, m, kind) ==
    LET id == <<m, kind>>
        all == Append(seen[p], id)
        full == Len(all) > MaxSeen
    IN
    /\ adm[r].pc = "idle" /\ ~Known(p, id)
    /\ kind = "app_mention" => m \in Mention
    /\ seen' = [seen EXCEPT ![p] = IF full THEN Tail(all) ELSE all]
    /\ hist' = IF full THEN [hist EXCEPT !.forgot = @ \cup {<<p, hist.boot[p], Head(all)[1]>>}] ELSE hist
    /\ adm' = [adm EXCEPT ![r] = [NoAdm EXCEPT !.pc = "list", !.p = p, !.src = kind, !.msg = m]]
    /\ UNCHANGED <<DB, idem, runs, capLock, pins, faults>>

\* Mutant of Twin: only a leading mention counts.
TwinMissed(r) == FALSE
Twin(r) == adm[r].src = "message" /\ adm[r].msg \in Mention

\* routeSlackEvent reads the integration and the triggers bound to it, and
\* drops the raw twin of a mention.
ListTriggers(r) ==
    LET bound == {w \in Wf : trig[w].type = "slack" /\ trig[w].on /\ trig[w].team /\ Enabled(w)} IN
    /\ adm[r].pc = "list"
    /\ adm' = [adm EXCEPT ![r] = IF Twin(r) \/ bound = {} THEN NoAdm
                                 ELSE [@ EXCEPT !.pc = "route", !.todo = bound]]
    /\ UNCHANGED <<DB, Memory, runs, capLock, pins, faults, hist>>

\* The next trigger: the thread is known or the binding lets it start, or not.
Route(r, w) ==
    /\ adm[r].pc = "route" /\ w \in adm[r].todo
    /\ \/ adm' = [adm EXCEPT ![r].pc = "reserve", ![r].w = w, ![r].todo = @ \ {w}]
       \/ adm' = [adm EXCEPT ![r] = LET rest == [adm[r] EXCEPT !.todo = @ \ {w}]
                                    IN  IF rest.todo = {} THEN NoAdm ELSE rest]
    /\ UNCHANGED <<DB, Memory, runs, capLock, pins, faults, hist>>

\* Run now: the published snapshot, whatever the master switch says.
RunNow(r, p, w) ==
    /\ adm[r].pc = "idle"
    /\ adm' = [adm EXCEPT ![r] = [NoAdm EXCEPT !.pc = "reserve", !.p = p, !.src = "manual",
                                  !.w = w]]
    /\ UNCHANGED <<DB, Memory, runs, capLock, pins, faults, hist>>

(***************************************************************************)
(* Edits: the master switch, publish, token and Slack binding.             *)
(***************************************************************************)

NotEditing == <<now, runs, capLock, pins, Memory, faults>>

BeginEdit(e, pc, w, to) ==
    /\ ed[e].pc = "idle" /\ edits < MaxEdits
    /\ edits' = edits + 1
    /\ ed' = [ed EXCEPT ![e] = [NoEdit EXCEPT !.pc = pc, !.w = w, !.to = to,
                                !.was = wf[w].on, !.type = wf[w].draft]]
    /\ UNCHANGED <<wf, trig, adm, hist, NotEditing>>

\* PATCH {draft}: one update.
SaveDraft(w, t) ==
    /\ edits < MaxEdits /\ edits' = edits + 1
    /\ wf[w].draft # t
    /\ wf' = [wf EXCEPT ![w].draft = t]
    /\ UNCHANGED <<trig, adm, ed, hist, NotEditing>>

\* A publish holds the workflow's row lock until it commits.
RowFree(w) == \A e \in Ed : ~(ed[e].pc = "commit" /\ ed[e].w = w)

\* PATCH {enabled}: the switch is written; the trigger row follows when the
\* value differs from the one loaded at first.
PatchWrite(e) ==
    LET w == ed[e].w IN
    /\ ed[e].pc = "patch" /\ RowFree(w)
    /\ wf' = [wf EXCEPT ![w].on = ed[e].to]
    /\ ed' = [ed EXCEPT ![e] = IF ed[e].to # ed[e].was THEN [@ EXCEPT !.pc = "sync"] ELSE NoEdit]
    /\ UNCHANGED <<trig, adm, edits, hist, NotEditing>>

\* syncTriggerEnabled reads the row and computes the cursor from its clock ...
SyncRead(e) ==
    LET w == ed[e].w IN
    /\ ed[e].pc = "sync"
    /\ ed' = [ed EXCEPT ![e].pc = "mirror", ![e].type = trig[w].type,
                        ![e].next = IF ed[e].to THEN NextFire(now) ELSE 0]
    /\ UNCHANGED <<wf, trig, adm, edits, hist, NotEditing>>

\* A late write may put back a window that was claimed meanwhile.
LateMark(w, next) == [hist EXCEPT !.late[w] = next # 0 /\ next <= hist.last[w]]

\* ... and writes the switch, and the cursor of a schedule.
SyncWrite(e) ==
    LET w == ed[e].w
        next == IF ed[e].type = "schedule" THEN ed[e].next ELSE trig[w].next
    IN
    /\ ed[e].pc = "mirror"
    /\ trig' = [trig EXCEPT ![w].on = ed[e].to, ![w].next = next]
    /\ hist' = IF ed[e].type = "schedule" THEN LateMark(w, next) ELSE hist
    /\ ed' = [ed EXCEPT ![e] = NoEdit]
    /\ UNCHANGED <<wf, adm, edits, NotEditing>>

\* Publish: the transaction writes the snapshot of the draft loaded before
\* it, reads the switch and computes the cursor ...
PublishRead(e) ==
    LET w == ed[e].w IN
    /\ ed[e].pc = "publish" /\ RowFree(w)
    /\ ed' = [ed EXCEPT ![e].pc = "commit", ![e].to = wf[w].on,
         ![e].next = IF ed[e].type = "schedule" /\ wf[w].on THEN NextFire(now) ELSE 0]
    /\ UNCHANGED <<wf, trig, adm, edits, hist, NotEditing>>

\* ... and syncTriggerForPublish clears what belongs to the other types.
PublishCommit(e) ==
    LET w == ed[e].w
        t == ed[e].type
    IN
    /\ ed[e].pc = "commit"
    /\ trig' = [trig EXCEPT ![w] = [type |-> t, on |-> ed[e].to, next |-> ed[e].next,
                                    tok |-> @.tok /\ t = "webhook",
                                    team |-> @.team /\ t = "slack"]]
    /\ hist' = LateMark(w, ed[e].next)
    /\ ed' = [ed EXCEPT ![e] = NoEdit]
    /\ UNCHANGED <<wf, adm, edits, NotEditing>>

\* upsertTriggerType writes the type alone: mintToken's when the draft it
\* loaded is a webhook's (nothing is written when not), PUT triggers/slack's.
UpsertType(e) ==
    LET w == ed[e].w IN
    \/ /\ ed[e].pc = "mint" /\ ed[e].type # "webhook"
       /\ ed' = [ed EXCEPT ![e] = NoEdit]
       /\ UNCHANGED <<wf, trig, adm, edits, hist, NotEditing>>
    \/ /\ ed[e].pc = "mint" /\ ed[e].type = "webhook"
       /\ trig' = [trig EXCEPT ![w].type = "webhook"]
       /\ ed' = [ed EXCEPT ![e].pc = "token"]
       /\ UNCHANGED <<wf, adm, edits, hist, NotEditing>>
    \/ /\ ed[e].pc = "bind"
       /\ trig' = [trig EXCEPT ![w].type = "slack"]
       /\ ed' = [ed EXCEPT ![e].pc = "team"]
       /\ UNCHANGED <<wf, adm, edits, hist, NotEditing>>

\* setTriggerToken, in an update of its own: a schedule's cursor stays.
SetToken(e) ==
    /\ ed[e].pc = "token"
    /\ trig' = [trig EXCEPT ![ed[e].w] = [@ EXCEPT !.type = "webhook", !.on = TRUE,
                                                   !.tok = TRUE, !.team = FALSE]]
    /\ ed' = [ed EXCEPT ![e] = NoEdit]
    /\ UNCHANGED <<wf, adm, edits, hist, NotEditing>>

\* setSlackBinding, likewise.
SetSlackBinding(e) ==
    /\ ed[e].pc = "team"
    /\ trig' = [trig EXCEPT ![ed[e].w] = [@ EXCEPT !.type = "slack", !.on = TRUE,
                                                   !.tok = FALSE, !.team = TRUE]]
    /\ ed' = [ed EXCEPT ![e] = NoEdit]
    /\ UNCHANGED <<wf, adm, edits, hist, NotEditing>>

(***************************************************************************)
(* Environment, specification.                                             *)
(***************************************************************************)

Clock ==
    /\ now < MaxNow /\ now' = now + 1
    /\ UNCHANGED <<wf, trig, ed, edits, Memory, runs, adm, capLock, pins, faults, hist>>

\* A control plane dies and comes back: its requests, its tick, the edits it
\* served, its memories and its connections are gone; a transaction it had
\* open is rolled back.
Crash(p) ==
    LET mine == {a \in Actor : adm[a].p = p} IN
    /\ faults < MaxFaults /\ faults' = faults + 1
    /\ adm' = [a \in Actor |-> IF a \in mine THEN NoAdm ELSE adm[a]]
    /\ capLock' = IF capLock \in mine THEN None ELSE capLock
    /\ pins' = [pins EXCEPT ![p] = 0]
    /\ idem' = [idem EXCEPT ![p] = <<>>]
    /\ seen' = [seen EXCEPT ![p] = <<>>]
    /\ runs' = [i \in DOMAIN runs |->
         IF runs[i].drv = p \/ \E a \in mine : adm[a].pc = "launch" /\ adm[a].run = i
         THEN [runs[i] EXCEPT !.drv = None, !.lost = TRUE] ELSE runs[i]]
    /\ hist' = [hist EXCEPT !.boot[p] = @ + 1]
    /\ \E gone \in SUBSET Ed : ed' = [e \in Ed |-> IF e \in gone THEN NoEdit ELSE ed[e]]
    /\ UNCHANGED <<now, wf, trig, edits>>

Admit(a) == Reserve(a) \/ Exhausted(a) \/ Decide(a) \/ Refuse(a) \/ Insert(a) \/ Launch(a)
Tick(p) == Scan(p) \/ Load(p) \/ \E w \in Wf : Claim(p, w)
Serve(r) == Lookup(r) \/ Check(r) \/ ListTriggers(r) \/ \E w \in Wf : Route(r, w)
Arrive(r, p) ==
    \/ "webhook" \in Sources /\ \E w \in Wf, k \in Key : Deliver(r, p, w, k)
    \/ "slack" \in Sources /\ \E m \in Msg, kind \in {"app_mention", "message"} : SlackEvent(r, p, m, kind)
    \/ "manual" \in Sources /\ \E w \in Wf : RunNow(r, p, w)
Edit(e) == PatchWrite(e) \/ SyncRead(e) \/ SyncWrite(e) \/ PublishRead(e) \/ PublishCommit(e)
           \/ UpsertType(e) \/ SetToken(e) \/ SetSlackBinding(e)
Begin(e, w) ==
    \/ \E b \in BOOLEAN : BeginEdit(e, "patch", w, b)
    \/ BeginEdit(e, "publish", w, FALSE)
    \/ BeginEdit(e, "mint", w, FALSE)
    \/ BeginEdit(e, "bind", w, FALSE)

Next ==
    \/ \E a \in Actor : Admit(a)
    \/ \E p \in Proc : Tick(p)
    \/ \E p \in Proc, w \in Wf : ClaimFails(p, w)
    \/ \E r \in Req : Serve(r)
    \/ \E r \in Req, p \in Proc : Arrive(r, p)
    \/ \E i \in DOMAIN runs : Settle(i) \/ Release(i) \/ \E p \in Proc : Adopt(p, i)
    \/ \E e \in Ed : Edit(e)
    \/ \E e \in Ed, w \in Wf : Begin(e, w)
    \/ \E w \in Wf, t \in Types : SaveDraft(w, t)
    \/ Clock
    \/ \E p \in Proc : Crash(p)

Spec == Init /\ [][Next]_vars

\* A process runs its continuations and its timers; drivers end their runs
\* (each has a wall clock) and the cap lock queues its waiters; edits once begun are served.
\* Nothing makes a request arrive, the clock advance or a process die.
FairSpec ==
    /\ Spec
    /\ \A a \in Actor : WF_vars(Admit(a)) /\ SF_vars(Decide(a))
    /\ \A p \in Proc : WF_vars(Tick(p))
    /\ \A r \in Req : WF_vars(Serve(r))
    /\ \A e \in Ed : WF_vars(Edit(e))
    /\ \A i \in 1..MaxRuns :
         WF_vars(i \in DOMAIN runs /\ (Settle(i) \/ Release(i)))

(***************************************************************************)
(* Properties.                                                             *)
(***************************************************************************)

Steps == {"idle", "claim", "load", "lookup", "check", "list", "route",
          "reserve", "create", "refuse", "insert", "launch", "stopped"}
Kinds == {"schedule", "webhook", "slack"}

\* What an actor is doing, a pipeline run, an entry of the idempotency map, an
\* edit.
AdmRow == [pc : Steps, p : Proc \cup {None},
           src : {None, "schedule", "webhook", "manual", "app_mention", "message"},
           w : Wf \cup {None}, todo : SUBSET Wf, key : Key \cup {None}, msg : Msg \cup {None},
           ok : BOOLEAN, at : 0..MaxNow, run : Nat, hit : Nat]
RunRow == [w : Wf, live : BOOLEAN, drv : Proc \cup {None}, msg : Msg \cup {None},
           by : Proc \X Nat, lost : BOOLEAN]
IdemRow == [key : Wf \X (Key \cup {None}), run : Nat]
EdRow == [pc : {"idle", "patch", "sync", "mirror", "publish", "commit",
                "mint", "token", "bind", "team"},
          w : Wf \cup {None}, to : BOOLEAN, was : BOOLEAN, type : Kinds \cup {None},
          next : Windows \cup {0}]

\* Whatever is under way has a process, a dispatch a workflow, an edit both
\* its workflow and a type.
Adm == {r \in AdmRow :
          /\ r.pc # "idle" => r.p \in Proc
          /\ r.pc \in Admitted \cup {"load", "lookup", "check", "reserve", "launch"} => r.w \in Wf}
EdSlot == {r \in EdRow : r.pc # "idle" => r.w \in Wf /\ r.type \in Kinds}

\* The shape of each variable.
Shape ==
    /\ now \in 0..MaxNow /\ edits \in 0..MaxEdits /\ faults \in 0..MaxFaults
    /\ wf \in [Wf -> [on : BOOLEAN, draft : Kinds]]
    /\ trig \in [Wf -> [type : Kinds, on : BOOLEAN, next : Windows \cup {0},
                        tok : BOOLEAN, team : BOOLEAN]]
    /\ runs \in Seq(RunRow)
    /\ adm \in [Actor -> Adm]
    /\ capLock \in Actor \cup {None}
    /\ idem \in [Proc -> Seq(IdemRow)]
    /\ seen \in [Proc -> Seq(Msg \X {"app_mention", "message"})]
    /\ ed \in [Ed -> EdSlot]
    /\ hist \in [last : [Wf -> 0..MaxNow], late : [Wf -> BOOLEAN],
                 forgot : SUBSET (Proc \X Nat \X Msg), boot : [Proc -> Nat]]

\* The variables have their types, and the pools and memories their limits.
TypeOK ==
    /\ Shape
    /\ pins \in [Proc -> 0..Pool]
    /\ Len(runs) <= MaxRuns
    /\ \A p \in Proc : Len(idem[p]) <= MaxIdem /\ Len(seen[p]) <= MaxSeen

\* However many dispatches race, on however many control planes, the
\* workspace never has more live runs than its cap (lockWorkspaceRunCap:
\* "a concurrent burst ... cannot all observe the same under-cap count"), and
\* a workflow with overlap "skip" has one live run at a time, an orphan that
\* waits for recovery included.
LimitsHold ==
    /\ Cardinality(Live) <= Cap
    /\ \A i, j \in Live : runs[i].w = runs[j].w /\ runs[i].w \in Skip => i = j

\* Lock before claim: every connection of a lock pool is held by an admission
\* in flight or by a driver, so no refusal, failure or settlement leaks one;
\* and a live run without a driver has lost it to a crash, or its dispatch is
\* about to launch it, so a refused dispatch leaves no row.
LocksMatchRuns ==
    /\ \A p \in Proc :
        pins[p] = Cardinality({a \in Actor : adm[a].p = p /\ adm[a].pc \in Admitted \cup {"launch"}})
                  + Cardinality({i \in DOMAIN runs : runs[i].drv = p})
    /\ \A i \in Live : runs[i].drv = None /\ ~runs[i].lost =>
        \E a \in Actor : adm[a].pc = "launch" /\ adm[a].run = i

\* The cursor is ahead of every tick that claimed one of the schedule's
\* windows: no window fires twice and none is backfilled, whoever claims.
\* The exception is an edit that computed its cursor before a window passed
\* and wrote it after that window had been claimed.
CursorAhead ==
    \A w \in Wf : trig[w].next # 0 /\ ~hist.late[w] => trig[w].next > hist.last[w]

\* What is told twice starts nothing the second time.  A webhook delivery
\* whose key had an answer when it arrived goes no further while that answer
\* is remembered; a Slack message, retried or told twice, starts at most one
\* run of a workflow as long as the process that took it lives and remembers.
RedeliveryStartsNothing ==
    /\ \A r \in Req :
        adm[r].hit # 0 /\ adm[r].pc \in Admitted \cup {"reserve", "launch"} =>
            Recall(adm[r].p, <<adm[r].w, adm[r].key>>) # adm[r].hit
    /\ \A i, j \in DOMAIN runs :
        /\ runs[i].msg # None /\ runs[i].msg = runs[j].msg
        /\ runs[i].w = runs[j].w /\ runs[i].by = runs[j].by
        => i = j \/ <<runs[i].by[1], runs[i].by[2], runs[i].msg>> \in hist.forgot

\* Once no edit is under way, an enabled workflow's trigger is enabled:
\* updateWorkflow mirrors the switch onto the trigger row.
SwitchMirrored ==
    (\A e \in Ed : ed[e].pc = "idle") => \A w \in Wf : wf[w].on => trig[w].on

\* A due window is claimed, or stops being due: the ticker of no process gets
\* stuck behind a full pool, a held lock or a failed claim.
DueIsClaimed == \A w \in Wf : Due(w, now) ~> ~Due(w, now)
=============================================================================
