----------------------------- MODULE OAuthGrant -----------------------------
(***************************************************************************)
(* One MCP connection's OAuth grant: consent flows (startOauth,            *)
(* handleCallback), the token reader that refreshes centrally              *)
(* (getAccessToken), the mutations of the connection that end a grant      *)
(* (updateConnection, deleteConnection), and the authorization servers     *)
(* they talk to.                                                           *)
(*                                                                         *)
(* An MCP server is its url and names its own authorization server, so a   *)
(* url stands for both and for the endpoints and client registration that  *)
(* discovery yields there.  A token is its number; `minted' has its issuer *)
(* and its fate.  updated_at is compared with a callback's claim only, so  *)
(* the row keeps the claims whose stamp is still on it.  The column is a   *)
(* Date of millisecond resolution: with SameTick two writes may share one. *)
(* Users are admins of the workspace.  Bookkeeping columns that no step    *)
(* reads (scopes, error codes, health) are left out, but their writes      *)
(* still count as writes.                                                  *)
(***************************************************************************)
EXTENDS Naturals, Sequences, FiniteSets

CONSTANTS
    User,      \* workspace admins
    Url,       \* MCP server urls
    Home,      \* the url of the connection as created
    Browser,   \* callback requests that may be in flight
    Caller,    \* token requests that may be in flight
    MaxFlows,  \* bound: armed flows
    MaxTokens, \* bound: tokens minted
    MaxEdits,  \* bound: mutations of the connection
    MaxFaults, \* bound: crashes and answers lost on their way
    SameTick   \* whether a write may fall into the millisecond of the one before

ASSUME OAuthAssumption ==
    /\ Home \in Url /\ "none" \notin Browser
    /\ SameTick \in BOOLEAN
    /\ MaxFlows \in Nat /\ MaxTokens \in Nat /\ MaxEdits \in Nat /\ MaxFaults \in Nat

None == "none"

VARIABLES
    conn,     \* the connections row
    grant,    \* the connection_oauth row (id 0: there is none)
    gens,     \* grants created or blanked so far: each is a generation
    flows,    \* every flow ever armed: its state is its index
    start,    \* startOauth per user, between its reads and its write
    cb,       \* handleCallback requests
    reader,   \* getAccessToken transactions past their reads
    edit,     \* the mutation of the connection under way
    minted,   \* tokens issued by the authorization servers
    edits, faults

vars == <<conn, grant, gens, flows, start, cb, reader, edit, minted, edits, faults>>

NoRow == [id |-> 0, status |-> "pending", as |-> None, at |-> 0, rt |-> 0, fresh |-> FALSE,
          by |-> None, flow |-> 0, gen |-> 0, last |-> {}]
NoStart == [url |-> None, row |-> 0, status |-> None]
NoCallback == [pc |-> "idle", user |-> None, flow |-> 0, row |-> 0, had |-> FALSE,
               gen |-> 0, at |-> 0]
NoReader == [pc |-> "idle", rt |-> 0, as |-> None, at |-> 0, got |-> 0]
NoEdit == [pc |-> "idle", kind |-> None, url |-> None, row |-> 0, rt |-> 0]

\* A connection created with oauth has its blank grant row.
Init ==
    /\ conn = [there |-> TRUE, auth |-> "oauth", url |-> Home]
    /\ grant = [NoRow EXCEPT !.id = 1, !.gen = 1]
    /\ gens = 1
    /\ flows = <<>>
    /\ start = [u \in User |-> NoStart]
    /\ cb = [b \in Browser |-> NoCallback]
    /\ reader = [c \in Caller |-> NoReader]
    /\ edit = NoEdit
    /\ minted = <<>>
    /\ edits = 0 /\ faults = 0

\* Mutant of RowUnlocked: no FOR UPDATE.
RowUnlockedAssumed == TRUE

\* A transaction of getAccessToken holds the row from its read to its commit;
\* other writers and other readers' transactions wait.
RowUnlocked == \A c \in Caller : reader[c].pc = "idle"

\* The claims whose stamp a write leaves on the row: none, unless the write
\* falls into their millisecond.
Stamps == IF SameTick THEN {{}, grant.last} ELSE {{}}

\* A write of row `id' under the columns' condition; zero rows otherwise.
Writes(id, cond, new) ==
    /\ RowUnlocked
    /\ \E last \in Stamps :
         grant' = IF grant.id = id /\ id # 0 /\ cond THEN [new EXCEPT !.last = last] ELSE grant

(***************************************************************************)
(* startOauth.                                                             *)
(***************************************************************************)

\* Reads the connection and ensures the grant row.
StartReads(u) ==
    /\ start[u] = NoStart /\ Len(flows) < MaxFlows
    /\ conn.there /\ conn.auth = "oauth"
    /\ IF grant.id # 0
       THEN /\ start' = [start EXCEPT ![u] = [url |-> conn.url, row |-> grant.id, status |-> grant.status]]
            /\ UNCHANGED <<grant, gens>>
       ELSE /\ gens' = gens + 1
            /\ grant' = [NoRow EXCEPT !.id = gens + 1, !.gen = gens + 1]
            /\ start' = [start EXCEPT ![u] = [url |-> conn.url, row |-> gens + 1, status |-> "pending"]]
    /\ UNCHANGED <<conn, flows, cb, reader, edit, minted, edits, faults>>

\* Mutant of Armed: what discovery found goes onto the live columns.
ArmedInPlace(s, n) ==
    [grant EXCEPT !.flow = n, !.as = s.url,
                  !.status = IF s.status = "connected" THEN @ ELSE "pending"]

\* The one write of armConsentFlow: discovery stays in the flow, and the
\* status goes to pending unless the row READ AT THE START was connected.
Armed(s, n) ==
    [grant EXCEPT !.flow = n, !.status = IF s.status = "connected" THEN @ ELSE "pending"]

Arm(u) ==
    /\ start[u] # NoStart /\ Len(flows) < MaxFlows
    /\ Writes(start[u].row, TRUE, Armed(start[u], Len(flows) + 1))
    /\ flows' = Append(flows, [url |-> start[u].url, by |-> u, used |-> 0])
    /\ start' = [start EXCEPT ![u] = NoStart]
    /\ UNCHANGED <<gens, conn, cb, reader, edit, minted, edits, faults>>

\* Discovery or registration failed: recordFailure, without a stamp to match.
StartFails(u) ==
    /\ start[u] # NoStart
    /\ Writes(start[u].row, TRUE, grant)
    /\ start' = [start EXCEPT ![u] = NoStart]
    /\ UNCHANGED <<gens, conn, flows, cb, reader, edit, minted, edits, faults>>

(***************************************************************************)
(* handleCallback.  The popup's url may be opened twice, by anyone.        *)
(***************************************************************************)

\* The flow belongs to the person who armed it.
MayComplete(u, n) == flows[n].by = u

\* findPendingFlow takes the snapshot everything below works from.
CallbackFinds(b, u) ==
    /\ cb[b].pc = "idle"
    /\ conn.there /\ grant.flow # 0 /\ MayComplete(u, grant.flow)
    /\ cb' = [cb EXCEPT ![b] = [pc |-> "claim", user |-> u, flow |-> grant.flow, row |-> grant.id,
                                had |-> grant.status = "connected" /\ grant.at # 0,
                                gen |-> 0, at |-> 0]]
    /\ UNCHANGED <<conn, grant, gens, flows, start, reader, edit, minted, edits, faults>>

\* Compare on pending_state.
StillArmed(n) == grant.flow = n

\* Compare-and-clear; an expired flow is burnt by it too.
CallbackClaims(b) ==
    LET hit == grant.id = cb[b].row /\ StillArmed(cb[b].flow) IN
    /\ cb[b].pc = "claim" /\ RowUnlocked
    /\ \E last \in Stamps :
         grant' = IF hit THEN [grant EXCEPT !.flow = 0, !.last = last \cup {b}] ELSE grant
    /\ \E expired \in BOOLEAN :
         cb' = [cb EXCEPT ![b] = IF hit /\ ~expired
                                 THEN [@ EXCEPT !.pc = "exchange", !.gen = grant.gen]
                                 ELSE NoCallback]
    /\ UNCHANGED <<conn, gens, flows, start, reader, edit, minted, edits, faults>>

\* The code is redeemed at the flow's own server, once; or the response was
\* foreign or a refusal, the exchange failed, or its answer never came.
CallbackExchanges(b) ==
    LET n == cb[b].flow IN
    /\ cb[b].pc = "exchange"
    /\ \/ /\ Len(minted) < MaxTokens
          /\ minted' = Append(minted, [as |-> flows[n].url, flow |-> n, gen |-> cb[b].gen, st |-> "live"])
          /\ flows' = [flows EXCEPT ![n].used = @ + 1]
          /\ \/ cb' = [cb EXCEPT ![b].pc = "promote", ![b].at = Len(minted) + 1] /\ faults' = faults
             \/ /\ cb' = [cb EXCEPT ![b].pc = "fail"]
                /\ faults < MaxFaults /\ faults' = faults + 1
       \/ /\ cb' = [cb EXCEPT ![b].pc = "fail"]
          /\ UNCHANGED <<minted, flows, faults>>
    /\ UNCHANGED <<conn, grant, gens, start, reader, edit, edits>>

\* Mutant of Unmoved: promotion and verdict key on the row alone.
UnmovedAssumed(b) == TRUE

\* The claim's stamp is on the row: nothing has written it since.
Unmoved(b) == b \in grant.last

\* Tokens and the endpoints they came from land in one write.  An
\* authorization server may grant no refresh token.
CallbackPromotes(b) ==
    LET n == cb[b].flow IN
    /\ cb[b].pc = "promote"
    /\ \E rt \in {0, cb[b].at} :
         Writes(cb[b].row, Unmoved(b),
                [grant EXCEPT !.at = cb[b].at, !.rt = rt, !.fresh = TRUE, !.as = flows[n].url,
                              !.status = "connected", !.by = cb[b].user])
    /\ cb' = [cb EXCEPT ![b] = NoCallback]
    /\ UNCHANGED <<gens, conn, flows, start, reader, edit, minted, edits, faults>>

\* Mutant of Verdict: every failed callback lands `error'.
VerdictAlways(b) == "error"

\* `error' only when there was nothing to lose.
Verdict(b) == IF cb[b].had THEN grant.status ELSE "error"

CallbackFails(b) ==
    /\ cb[b].pc = "fail"
    /\ Writes(cb[b].row, Unmoved(b), [grant EXCEPT !.status = Verdict(b)])
    /\ cb' = [cb EXCEPT ![b] = NoCallback]
    /\ UNCHANGED <<gens, conn, flows, start, reader, edit, minted, edits, faults>>

(***************************************************************************)
(* getAccessToken.  A grant that is not connected and a fresh token end it *)
(* without a write.                                                        *)
(***************************************************************************)

AccessTokenAges ==
    /\ grant.fresh /\ Len(minted) < MaxTokens
    /\ grant' = [grant EXCEPT !.fresh = FALSE]
    /\ UNCHANGED <<conn, gens, flows, start, cb, reader, edit, minted, edits, faults>>

Stale == grant.id # 0 /\ grant.status = "connected" /\ ~grant.fresh

\* Nothing to refresh with: expired.
ReaderExpires(c) ==
    /\ reader[c].pc = "idle"
    /\ Stale /\ grant.rt = 0
    /\ Writes(grant.id, TRUE, [grant EXCEPT !.status = "expired"])
    /\ UNCHANGED <<gens, conn, flows, start, cb, reader, edit, minted, edits, faults>>

ReaderBegins(c) ==
    /\ reader[c].pc = "idle" /\ RowUnlocked
    /\ Stale /\ grant.rt # 0
    /\ reader' = [reader EXCEPT ![c] = [NoReader EXCEPT !.pc = "refresh", !.rt = grant.rt, !.as = grant.as]]
    /\ UNCHANGED <<conn, grant, gens, flows, start, cb, edit, minted, edits, faults>>

\* The authorization server rotates the refresh token or keeps it, refuses a
\* dead one (a rotated one is a replay, unless the rotation never reached us),
\* or is unavailable; an answer may be lost.
ReaderRefreshes(c) ==
    LET rt == reader[c].rt
        good == minted[rt].st = "live" /\ minted[rt].as = reader[c].as
        n == Len(minted) + 1
        Reissued == [minted[rt] EXCEPT !.st = "live"] IN
    /\ reader[c].pc = "refresh"
    /\ \/ /\ good /\ Len(minted) < MaxTokens
          /\ \E rotates, lost \in BOOLEAN :
               /\ minted' = Append([minted EXCEPT ![rt].st =
                                       IF ~rotates THEN @ ELSE IF lost THEN "lost" ELSE "spent"],
                                   Reissued)
               /\ reader' = [reader EXCEPT ![c] =
                      IF lost THEN NoReader
                      ELSE [@ EXCEPT !.pc = "store", !.at = n, !.got = IF rotates THEN n ELSE rt]]
               /\ IF lost THEN faults < MaxFaults /\ faults' = faults + 1 ELSE faults' = faults
       \/ /\ ~good
          /\ reader' = [reader EXCEPT ![c].pc = "dead"]
          /\ minted' = [minted EXCEPT ![rt].st = IF @ = "spent" THEN "replayed" ELSE @]
          /\ UNCHANGED faults
       \/ /\ reader' = [reader EXCEPT ![c] = NoReader]
          /\ UNCHANGED <<minted, faults>>
    /\ UNCHANGED <<conn, grant, gens, flows, start, cb, edit, edits>>

\* Commit: the rotation is stored, or the grant is retired.
ReaderCommits(c) ==
    /\ reader[c].pc \in {"store", "dead"}
    /\ \E last \in Stamps :
         grant' = IF reader[c].pc = "store"
                  THEN [grant EXCEPT !.at = reader[c].at, !.rt = reader[c].got, !.fresh = TRUE,
                                     !.last = last]
                  ELSE [grant EXCEPT !.status = "expired", !.last = last]
    /\ reader' = [reader EXCEPT ![c] = NoReader]
    /\ UNCHANGED <<conn, gens, flows, start, cb, edit, minted, edits, faults>>

(***************************************************************************)
(* Mutations of the connection.                                            *)
(***************************************************************************)

\* Reads the connection; a change that ends the grant reads the grant too.
EditReads ==
    /\ edit.pc = "idle" /\ conn.there /\ conn.auth = "oauth"
    /\ edits < MaxEdits /\ edits' = edits + 1
    /\ \E kind \in {"leave", "move", "delete"} :
       \E url \in IF kind = "move" THEN Url \ {conn.url} ELSE {conn.url} :
         edit' = [pc |-> "revoke", kind |-> kind, url |-> url, row |-> grant.id,
                  rt |-> grant.rt]
    /\ UNCHANGED <<conn, grant, gens, flows, start, cb, reader, minted, faults>>

\* revokeBestEffort: the token read above, or nothing.
EditRevokes ==
    /\ edit.pc = "revoke"
    /\ \E ok \in BOOLEAN :
         minted' = IF ok /\ edit.rt # 0
                   THEN [minted EXCEPT ![edit.rt].st = IF @ = "live" THEN "revoked" ELSE @]
                   ELSE minted
    /\ edit' = [edit EXCEPT !.pc = IF edit.kind = "delete" THEN "conn" ELSE "grant"]
    /\ UNCHANGED <<conn, grant, gens, flows, start, cb, reader, edits, faults>>

\* Leaving oauth deletes the row; a new url blanks it.
EditGrant ==
    /\ edit.pc = "grant"
    /\ IF edit.kind = "move"
       THEN /\ gens' = gens + 1
            /\ Writes(edit.row, TRUE, [NoRow EXCEPT !.id = edit.row, !.gen = gens + 1])
       ELSE /\ RowUnlocked
            /\ grant' = IF grant.id = edit.row THEN NoRow ELSE grant
            /\ UNCHANGED gens
    /\ edit' = [edit EXCEPT !.pc = "conn"]
    /\ UNCHANGED <<conn, flows, start, cb, reader, minted, edits, faults>>

\* The connection's own write; a delete cascades to the grant.
EditConn ==
    /\ edit.pc = "conn"
    /\ conn' = CASE edit.kind = "delete" -> [conn EXCEPT !.there = FALSE]
                 [] edit.kind = "leave" -> [conn EXCEPT !.auth = "static"]
                 [] OTHER -> [conn EXCEPT !.url = edit.url]
    /\ IF edit.kind = "delete"
       THEN RowUnlocked /\ grant' = NoRow
       ELSE UNCHANGED grant
    /\ edit' = NoEdit
    /\ UNCHANGED <<gens, flows, start, cb, reader, minted, edits, faults>>

\* Back to oauth; the grant row is made by the next start.
EditEnters ==
    /\ edit.pc = "idle" /\ conn.there /\ conn.auth = "static"
    /\ conn' = [conn EXCEPT !.auth = "oauth"]
    /\ UNCHANGED <<grant, gens, flows, start, cb, reader, edit, minted, edits, faults>>

\* The process dies: requests and open transactions go, rows stay.
Crash ==
    /\ faults < MaxFaults /\ faults' = faults + 1
    /\ start' = [u \in User |-> NoStart]
    /\ cb' = [b \in Browser |-> NoCallback]
    /\ reader' = [c \in Caller |-> NoReader]
    /\ minted' = [n \in DOMAIN minted |->
                     IF \E c \in Caller : reader[c].pc = "store" /\ reader[c].rt = n /\ minted[n].st = "spent"
                     THEN [minted[n] EXCEPT !.st = "lost"] ELSE minted[n]]
    /\ edit' = NoEdit
    /\ UNCHANGED <<conn, grant, gens, flows, edits>>

Next ==
    \/ \E u \in User : StartReads(u) \/ Arm(u) \/ StartFails(u)
    \/ \E b \in Browser :
         \/ \E u \in User : CallbackFinds(b, u)
         \/ CallbackClaims(b) \/ CallbackExchanges(b) \/ CallbackPromotes(b) \/ CallbackFails(b)
    \/ \E c \in Caller :
         ReaderExpires(c) \/ ReaderBegins(c) \/ ReaderRefreshes(c) \/ ReaderCommits(c)
    \/ AccessTokenAges
    \/ EditReads \/ EditRevokes \/ EditGrant \/ EditConn \/ EditEnters
    \/ Crash

Spec == Init /\ [][Next]_vars

(***************************************************************************)
(* Properties.                                                             *)
(***************************************************************************)

\* Whoever names a flow or a token names one that exists.
TokenNo == 0..Len(minted)
FlowNo == 0..Len(flows)

Status == {"pending", "connected", "expired", "error"}
Flow == [url : Url, by : User, used : Nat]
Token == [as : Url, flow : Nat, gen : Nat,
          st : {"live", "spent", "lost", "revoked", "replayed"}]
ConnRow == [there : BOOLEAN, auth : {"oauth", "static"}, url : Url]
GrantRow == [id : Nat, status : Status, as : Url \cup {None}, at : TokenNo, rt : TokenNo,
             fresh : BOOLEAN, by : User \cup {None}, flow : FlowNo, gen : Nat,
             last : SUBSET Browser]
StartRequest == [url : Url, row : Nat, status : Status] \cup {NoStart}
CallbackRequest == [pc : {"idle", "claim", "exchange", "promote", "fail"},
                    user : User \cup {None}, flow : FlowNo, row : Nat, had : BOOLEAN,
                    gen : Nat, at : TokenNo]
ReaderRequest == [pc : {"idle", "refresh", "store", "dead"}, rt : TokenNo,
                  as : Url \cup {None}, at : TokenNo, got : TokenNo]
EditRequest == [pc : {"revoke", "grant", "conn"}, kind : {"leave", "move", "delete"},
                url : Url, row : Nat, rt : TokenNo] \cup {NoEdit}

\* The shape of the gens, the requests and what they hold.
TypeOK ==
    /\ conn \in ConnRow /\ grant \in GrantRow
    /\ gens \in Nat /\ edits \in 0..MaxEdits /\ faults \in 0..MaxFaults
    /\ flows \in Seq(Flow) /\ Len(flows) <= MaxFlows
    /\ minted \in Seq(Token) /\ Len(minted) <= MaxTokens
    /\ start \in [User -> StartRequest]
    /\ cb \in [Browser -> CallbackRequest]
    /\ reader \in [Caller -> ReaderRequest]
    /\ edit \in EditRequest

\* Discovery is flow state (broker.ts): whatever starts are armed, abandoned,
\* refused or superseded, the endpoints on the row are the ones the row's own
\* tokens came from, so a refresh goes nowhere else.
PairedEndpoints ==
    \A n \in {grant.at, grant.rt} \ {0} : minted[n].as = grant.as

\* The claim stamp (broker.ts handleCallback): tokens of a flow claimed before
\* the grant was reset or deleted are never on the row that came after, be it
\* the blanked one or a new one; as long as no two writes of the row share a
\* millisecond.
NoResurrection == grant.at # 0 => minted[grant.at].gen = grant.gen

\* What may be used once is used once: however often a callback is delivered,
\* one flow's code is redeemed at most once (compare-and-clear on
\* pending_state), and a refresh token the control plane has seen rotated is
\* never presented again by any number of concurrent readers (the row lock of
\* getAccessToken).
UsedOnce ==
    /\ \A n \in DOMAIN flows : flows[n].used <= 1
    /\ \A n \in DOMAIN minted : minted[n].st # "replayed"

\* A re-consent that is started, abandoned or fails never takes a working
\* grant out of service; only the authorization server's verdict, a token that
\* cannot be refreshed, an edit of the connection, or a start that read the
\* row before it was connected does.  This rests on the claim stamp too.
GrantKept ==
    [][grant.status = "connected" /\ grant'.status # "connected" =>
         \/ \E c \in Caller : reader[c].pc = "dead" /\ reader'[c] = NoReader
         \/ Stale /\ grant.rt = 0
         \/ edit.pc \in {"grant", "conn"} /\ edit' # edit
         \/ \E u \in User : start[u].status \in Status \ {"connected"} /\ start'[u] = NoStart]_vars

\* broker.ts: "never persist a credential against a row whose url or auth mode
\* has moved".
TokensMatchUrl == grant.status = "connected" /\ edit.pc = "idle" => grant.as = conn.url
=============================================================================
