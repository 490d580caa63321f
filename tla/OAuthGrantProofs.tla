-------------------------- MODULE OAuthGrantProofs --------------------------
(***************************************************************************)
(* What OAuthGrant promises, for any number of admins, callbacks, token    *)
(* requests, servers and faults.  The inductive invariant says who may     *)
(* hold what: the row lock gives the row's refresh token to one reader,    *)
(* compare-and-clear gives a flow to one callback, and the claim stamp     *)
(* ties what a callback holds to the generation of the row it claimed.     *)
(* What rests on the stamp needs it to be exact (~SameTick); the pairing   *)
(* of tokens and endpoints and the single use of codes and tokens do not.  *)
(***************************************************************************)
EXTENDS OAuthGrant, TLAPS, SequenceTheorems

\* A missing row is blank, and a connected one has a token.
RowShape ==
    /\ grant.id = 0 => grant = NoRow
    /\ grant.status = "connected" => grant.at # 0

\* A token of the row's generation, as far as the stamp tells.
OfThisGrant(n) == ~SameTick => minted[n].gen = grant.gen

\* Both tokens of the row were issued by the row's endpoints to a flow that
\* was claimed since the grant was last reset.
TokensOfRow ==
    \A n \in {grant.at, grant.rt} \ {0} : minted[n].as = grant.as /\ OfThisGrant(n)

\* The row lock: one reader at a time, and the row it read is the row it
\* writes.
ReaderHolds ==
    /\ \A c, d \in Caller : reader[c].pc # "idle" /\ reader[d].pc # "idle" => c = d
    /\ \A c \in Caller : reader[c].pc # "idle" =>
        /\ grant.id # 0 /\ reader[c].rt = grant.rt /\ grant.rt # 0
        /\ reader[c].as = grant.as
    /\ \A c \in Caller : reader[c].pc = "store" =>
        \A n \in {reader[c].at, reader[c].got} :
            n # 0 /\ minted[n].as = grant.as /\ OfThisGrant(n)

\* A callback past its claim holds the flow it claimed, and the generation of
\* the row for as long as nobody else has written it.
CallbackHolds ==
    /\ ~SameTick /\ grant.flow # 0 => grant.last = {}
    /\ \A b \in Browser : cb[b].pc # "idle" => cb[b].flow # 0
    /\ ~SameTick => \A b \in Browser :
        cb[b].pc \in {"exchange", "promote", "fail"} /\ b \in grant.last => cb[b].gen = grant.gen
    /\ \A b \in Browser : cb[b].pc = "promote" =>
        /\ cb[b].at # 0
        /\ minted[cb[b].at].as = flows[cb[b].flow].url
        /\ minted[cb[b].at].gen = cb[b].gen

\* A flow is redeemed by the one callback that claimed it.
FlowOnce ==
    /\ grant.flow # 0 => flows[grant.flow].used = 0
    /\ \A b \in Browser : cb[b].pc = "exchange" =>
        flows[cb[b].flow].used = 0 /\ grant.flow # cb[b].flow
    /\ \A b, d \in Browser :
        cb[b].pc = "exchange" /\ cb[d].pc = "exchange" /\ cb[b].flow = cb[d].flow => b = d
    /\ \A n \in 1..Len(flows) : flows[n].used <= 1

\* A token in a callback's hand is in nobody else's, ...
TokenOwned ==
    /\ \A b \in Browser : cb[b].pc = "promote" =>
        /\ cb[b].at # grant.rt
        /\ \A c \in Caller : reader[c].pc = "store" => reader[c].got # cb[b].at
    /\ \A b, d \in Browser :
        cb[b].pc = "promote" /\ cb[d].pc = "promote" /\ cb[b].at = cb[d].at => b = d

\* ... and a refresh token seen rotated is in nobody's: the row names it only
\* until the reader that has its successor commits.
SpentUnheld ==
    /\ \A n \in 1..Len(minted) : minted[n].st # "replayed"
    /\ (\A c \in Caller : reader[c].pc # "store") /\ grant.rt # 0 => minted[grant.rt].st # "spent"
    /\ \A c \in Caller : reader[c].pc = "store" => minted[reader[c].got].st # "spent"
    /\ \A b \in Browser : cb[b].pc = "promote" => minted[cb[b].at].st # "spent"

\* A callback knows whether there is a working grant to lose.
NothingToLose ==
    ~SameTick => \A b \in Browser : grant.status = "connected" /\ ~cb[b].had =>
        /\ cb[b].pc = "claim" => grant.id # cb[b].row \/ grant.flow # cb[b].flow
        /\ cb[b].pc \in {"exchange", "promote", "fail"} => b \notin grant.last

IInv ==
    /\ TypeOK
    /\ RowShape /\ TokensOfRow /\ ReaderHolds /\ CallbackHolds
    /\ FlowOnce /\ TokenOwned /\ SpentUnheld /\ NothingToLose

-----------------------------------------------------------------------------

\* A connection starts with a blank row, and nothing in flight.
LEMMA InitIInv == Init => IInv
<1> SUFFICES ASSUME Init PROVE IInv
  OBVIOUS
<1> USE OAuthAssumption DEF Init, NoRow, NoStart, NoCallback, NoReader, NoEdit, None
<1>1. TypeOK
  <2>1. flows \in Seq(Flow) /\ minted \in Seq(Token) /\ Len(flows) = 0 /\ Len(minted) = 0
    BY EmptySeq
  <2>2. 0 \in TokenNo /\ 0 \in FlowNo
    BY <2>1 DEF TokenNo, FlowNo
  <2>3. conn \in ConnRow /\ grant \in GrantRow
    BY <2>2 DEF ConnRow, GrantRow, Status
  <2>4. start \in [User -> StartRequest] /\ cb \in [Browser -> CallbackRequest]
    BY <2>2 DEF StartRequest, CallbackRequest
  <2>5. reader \in [Caller -> ReaderRequest] /\ edit \in EditRequest
    BY <2>2 DEF ReaderRequest, EditRequest, NoEdit
  <2> QED
    BY <2>1, <2>3, <2>4, <2>5 DEF TypeOK
<1>2. RowShape /\ TokensOfRow /\ ReaderHolds /\ CallbackHolds
  BY DEF RowShape, TokensOfRow, ReaderHolds, CallbackHolds, OfThisGrant
<1>3. FlowOnce /\ TokenOwned /\ SpentUnheld /\ NothingToLose
  BY DEF FlowOnce, TokenOwned, SpentUnheld, NothingToLose
<1> QED
  BY <1>1, <1>2, <1>3 DEF IInv

\* A step that touches neither the grant row, the callbacks, the readers, the
\* flows nor the tokens (a mutation's reads, a start's failure) keeps IInv.
LEMMA FrameIInv ==
    ASSUME IInv, TypeOK', UNCHANGED <<grant, cb, reader, flows, minted>>
    PROVE  IInv'
<1> USE DEF IInv
<1>1. RowShape' /\ TokensOfRow' /\ ReaderHolds' /\ CallbackHolds'
  BY DEF RowShape, TokensOfRow, ReaderHolds, CallbackHolds, OfThisGrant
<1>2. FlowOnce' /\ TokenOwned' /\ SpentUnheld' /\ NothingToLose'
  BY DEF FlowOnce, TokenOwned, SpentUnheld, NothingToLose
<1> QED
  BY <1>1, <1>2

\* Zero, nothing, is always a token and a flow number.
LEMMA Numbers ==
    ASSUME TypeOK
    PROVE  /\ Len(flows) \in Nat /\ Len(minted) \in Nat
           /\ 0 \in TokenNo /\ 0 \in FlowNo
BY LenProperties DEF TypeOK, TokenNo, FlowNo

\* Whoever names a token or a flow names one there is, or none.
LEMMA Ranges ==
    ASSUME TypeOK
    PROVE  /\ grant.at # 0 => grant.at \in 1..Len(minted)
           /\ grant.rt # 0 => grant.rt \in 1..Len(minted)
           /\ grant.flow # 0 => grant.flow \in 1..Len(flows)
           /\ \A b \in Browser :
                /\ cb[b].flow # 0 => cb[b].flow \in 1..Len(flows)
                /\ cb[b].at # 0 => cb[b].at \in 1..Len(minted)
           /\ \A c \in Caller :
                /\ reader[c].rt # 0 => reader[c].rt \in 1..Len(minted)
                /\ reader[c].at # 0 => reader[c].at \in 1..Len(minted)
                /\ reader[c].got # 0 => reader[c].got \in 1..Len(minted)
           /\ edit.rt # 0 => edit.rt \in 1..Len(minted)
<1>1. \A n \in TokenNo : n # 0 => n \in 1..Len(minted)
  BY Numbers DEF TokenNo
<1>2. \A n \in FlowNo : n # 0 => n \in 1..Len(flows)
  BY Numbers DEF FlowNo
<1> QED
  BY <1>1, <1>2 DEF TypeOK, GrantRow, CallbackRequest, ReaderRequest, EditRequest, NoEdit

\* Flows and tokens are only ever added, so what names one still does.
LEMMA TypesGrow ==
    ASSUME TypeOK, Len(flows') \in Nat, Len(minted') \in Nat,
           Len(flows') >= Len(flows), Len(minted') >= Len(minted)
    PROVE  /\ grant \in GrantRow' /\ cb \in [Browser -> CallbackRequest']
           /\ reader \in [Caller -> ReaderRequest'] /\ edit \in EditRequest'
<1>1. \A n \in TokenNo : n \in TokenNo'
  BY Numbers DEF TokenNo
<1>2. \A n \in FlowNo : n \in FlowNo'
  BY Numbers DEF FlowNo
<1>3. grant \in GrantRow' /\ edit \in EditRequest'
  BY <1>1, <1>2 DEF TypeOK, GrantRow, EditRequest, NoEdit
<1>4. cb \in [Browser -> CallbackRequest'] /\ reader \in [Caller -> ReaderRequest']
  BY <1>1, <1>2 DEF TypeOK, CallbackRequest, ReaderRequest
<1> QED
  BY <1>3, <1>4

\* startOauth's reads: a new row is blank.
LEMMA StartReadsIInv ==
    ASSUME IInv, NEW u \in User, StartReads(u)
    PROVE  IInv'
<1> USE OAuthAssumption DEF IInv, StartReads, None
<1>1. start' \in [User -> StartRequest] /\ gens' \in Nat
  BY DEF TypeOK, StartRequest, GrantRow, ConnRow, Status
<1>2. CASE grant.id # 0
  <2>1. TypeOK'
    BY <1>1, <1>2 DEF TypeOK, TokenNo, FlowNo, GrantRow, CallbackRequest, ReaderRequest, EditRequest, NoEdit
  <2> QED
    BY <1>2, <2>1, FrameIInv
<1>3. CASE grant.id = 0
  <2> USE <1>3
  <2>1. grant = NoRow /\ grant' = [NoRow EXCEPT !.id = gens + 1, !.gen = gens + 1]
    BY DEF RowShape
  <2>2. TypeOK'
    BY <1>1, <2>1 DEF TypeOK, TokenNo, FlowNo, GrantRow, CallbackRequest, ReaderRequest, EditRequest, NoEdit, NoRow
  <2>3. \A c \in Caller : reader'[c].pc = "idle"
    BY DEF ReaderHolds, TypeOK, ReaderRequest, OfThisGrant
  <2>4. RowShape' /\ TokensOfRow' /\ ReaderHolds' /\ CallbackHolds'
    BY <2>1, <2>3 DEF RowShape, TokensOfRow, ReaderHolds, CallbackHolds, NoRow, TypeOK, OfThisGrant
  <2>5. FlowOnce' /\ TokenOwned'
    BY <2>1, <2>3 DEF FlowOnce, TokenOwned, CallbackHolds, NoRow, TypeOK, CallbackRequest
  <2>6. SpentUnheld' /\ NothingToLose'
    BY <2>1, <2>3 DEF SpentUnheld, NothingToLose, NoRow, TypeOK
  <2> QED
    BY <2>2, <2>4, <2>5, <2>6
<1> QED
  BY <1>2, <1>3

\* armConsentFlow's write: the flow is new, and takes the row's last write.
LEMMA ArmIInv ==
    ASSUME IInv, NEW u \in User, Arm(u)
    PROVE  IInv'
<1> USE OAuthAssumption DEF IInv, None
<1> DEFINE f == [url |-> start[u].url, by |-> u, used |-> 0]
<1>1. f \in Flow /\ start[u] \in [url : Url, row : Nat, status : Status]
  BY DEF Arm, TypeOK, StartRequest, Flow
<1>2. /\ flows' \in Seq(Flow) /\ Len(flows') = Len(flows) + 1
      /\ \A n \in 1..Len(flows) : flows'[n] = flows[n]
      /\ flows'[Len(flows) + 1] = f
  BY <1>1, AppendProperties DEF Arm, TypeOK
<1>3. \A c \in Caller : reader[c].pc = "idle" /\ reader' = reader
  BY DEF Arm, Writes, RowUnlocked
<1>10. PICK last \in Stamps :
         grant' = IF grant.id = start[u].row /\ start[u].row # 0
                  THEN [Armed(start[u], Len(flows) + 1) EXCEPT !.last = last] ELSE grant
  BY DEF Arm, Writes
<1>11. last \in SUBSET Browser /\ (~SameTick => last = {})
  BY DEF Stamps, TypeOK, GrantRow
<1>12. /\ grant'.id = grant.id /\ grant'.at = grant.at /\ grant'.rt = grant.rt
       /\ grant'.as = grant.as /\ grant'.gen = grant.gen
       /\ grant'.status = grant.status \/ grant'.status = "pending"
       /\ \/ grant' = grant
          \/ grant.id # 0 /\ grant'.flow = Len(flows) + 1 /\ (~SameTick => grant'.last = {})
  BY <1>10, <1>11 DEF Armed, TypeOK, GrantRow
<1>13. UNCHANGED <<gens, conn, cb, reader, edit, minted, edits, faults>>
  BY DEF Arm
<1>4. TypeOK'
  <2>1. grant' \in GrantRow'
    <3>1. grant \in GrantRow'
      BY <1>2, <1>13, LenProperties DEF TypeOK, TokenNo, FlowNo, GrantRow
    <3>2. Len(flows) + 1 \in FlowNo'
      BY <1>2, LenProperties DEF TypeOK, FlowNo
    <3>5. last \in SUBSET Browser /\ Len(flows) + 1 \in FlowNo' /\ "pending" \in Status
      BY <3>2, <1>11 DEF Status
    <3>3. CASE grant' = [grant EXCEPT !.flow = Len(flows) + 1, !.last = last]
      BY <3>1, <3>5, <3>3 DEF GrantRow
    <3>4. CASE grant' = [grant EXCEPT !.flow = Len(flows) + 1, !.status = "pending", !.last = last]
      BY <3>1, <3>5, <3>4 DEF GrantRow
    <3> QED
      BY <3>1, <3>3, <3>4, <1>10 DEF Armed
  <2>2. start' \in [User -> StartRequest]
    BY DEF Arm, TypeOK, StartRequest
  <2>3. cb' \in [Browser -> CallbackRequest']
    BY <1>2, <1>13 DEF TypeOK, CallbackRequest, FlowNo, TokenNo
  <2> QED
    BY <1>2, <1>13, <2>1, <2>2, <2>3 DEF Arm, TypeOK, TokenNo, ReaderRequest, EditRequest, NoEdit
<1>5. RowShape' /\ TokensOfRow' /\ ReaderHolds'
  BY <1>3, <1>12, <1>13 DEF RowShape, TokensOfRow, ReaderHolds, OfThisGrant, NoRow
<1>14. Len(flows) \in Nat /\ grant.flow \in 0..Len(flows) /\ \A b \in Browser : cb[b].flow \in 0..Len(flows)
  BY Numbers DEF TypeOK, GrantRow, CallbackRequest, FlowNo
<1>6. CallbackHolds'
  BY <1>2, <1>12, <1>13, <1>14 DEF CallbackHolds
<1>7. FlowOnce'
  BY <1>2, <1>12, <1>13, <1>14 DEF FlowOnce, CallbackHolds
<1>8. TokenOwned' /\ SpentUnheld'
  BY <1>3, <1>12, <1>13 DEF TokenOwned, SpentUnheld
<1>9. NothingToLose'
  BY <1>12, <1>13, <1>14 DEF NothingToLose
<1> QED
  BY <1>4, <1>5, <1>6, <1>7, <1>8, <1>9

\* recordFailure stamps the row it was started for and changes nothing else.
LEMMA StartFailsIInv ==
    ASSUME IInv, NEW u \in User, StartFails(u)
    PROVE  IInv'
<1> USE DEF IInv
<1>1. \A c \in Caller : reader[c].pc = "idle" /\ reader' = reader
  BY DEF StartFails, Writes, RowUnlocked
<1>2. PICK last \in Stamps :
        grant' = IF grant.id = start[u].row /\ start[u].row # 0 THEN [grant EXCEPT !.last = last] ELSE grant
  BY DEF StartFails, Writes
<1>3. last \in SUBSET Browser /\ (~SameTick => last = {})
  BY DEF Stamps, TypeOK, GrantRow
<1>4. /\ grant'.id = grant.id /\ grant'.at = grant.at /\ grant'.rt = grant.rt
      /\ grant'.as = grant.as /\ grant'.gen = grant.gen /\ grant'.status = grant.status
      /\ grant'.flow = grant.flow
      /\ grant' = grant \/ (grant.id # 0 /\ (~SameTick => grant'.last = {}))
  BY <1>2, <1>3 DEF TypeOK, GrantRow
<1>5. UNCHANGED <<gens, conn, flows, cb, reader, edit, minted, edits, faults>>
  BY DEF StartFails
<1>6. TypeOK'
  <2>1. grant' \in GrantRow
    BY <1>2, <1>3 DEF TypeOK, GrantRow
  <2>2. start' \in [User -> StartRequest]
    BY DEF StartFails, TypeOK, StartRequest
  <2> QED
    BY <1>5, <2>1, <2>2 DEF TypeOK, TokenNo, FlowNo, GrantRow, CallbackRequest, ReaderRequest, EditRequest, NoEdit
<1>7. RowShape' /\ TokensOfRow' /\ ReaderHolds' /\ CallbackHolds'
  BY <1>1, <1>4, <1>5 DEF RowShape, TokensOfRow, ReaderHolds, CallbackHolds, NoRow, OfThisGrant
<1>8. FlowOnce' /\ TokenOwned' /\ SpentUnheld' /\ NothingToLose'
  BY <1>1, <1>4, <1>5 DEF FlowOnce, TokenOwned, SpentUnheld, NothingToLose
<1> QED
  BY <1>6, <1>7, <1>8

\* findPendingFlow's snapshot: the armed flow, its row, and whether that row
\* has a working grant.
LEMMA CallbackFindsIInv ==
    ASSUME IInv, NEW b \in Browser, NEW u \in User, CallbackFinds(b, u)
    PROVE  IInv'
<1> USE OAuthAssumption DEF IInv, CallbackFinds, None
<1> DEFINE r == [pc |-> "claim", user |-> u, flow |-> grant.flow, row |-> grant.id,
                 had |-> grant.status = "connected" /\ grant.at # 0, gen |-> 0, at |-> 0]
<1>1. r \in CallbackRequest
  <2>1. (grant.status = "connected" /\ grant.at # 0) \in BOOLEAN
    OBVIOUS
  <2>2. 0 \in TokenNo /\ grant.flow \in FlowNo /\ grant.id \in Nat
    BY DEF TypeOK, GrantRow, TokenNo
  <2> QED
    BY <2>1, <2>2 DEF CallbackRequest
<1>2. cb' = [cb EXCEPT ![b] = r]
  OBVIOUS
<1> HIDE DEF r
<1>3. TypeOK'
  <2>1. cb' \in [Browser -> CallbackRequest]
    BY <1>1, <1>2 DEF TypeOK
  <2> QED
    BY <2>1 DEF TypeOK, TokenNo, FlowNo, GrantRow, CallbackRequest, ReaderRequest, EditRequest, NoEdit
<1>4. r.pc = "claim" /\ r.flow # 0
  BY DEF r
<1>5. grant.status = "connected" => r.had
  BY DEF r, RowShape
<1>6. RowShape' /\ TokensOfRow' /\ ReaderHolds' /\ CallbackHolds'
  BY <1>2, <1>4 DEF RowShape, TokensOfRow, ReaderHolds, CallbackHolds, TypeOK, OfThisGrant
<1>7. FlowOnce' /\ TokenOwned' /\ SpentUnheld'
  BY <1>2, <1>4 DEF FlowOnce, TokenOwned, SpentUnheld, TypeOK
<1>8. NothingToLose'
  BY <1>2, <1>5 DEF NothingToLose, TypeOK
<1> QED
  BY <1>3, <1>6, <1>7, <1>8

\* Compare-and-clear: of all the callbacks that found the flow, the one that
\* still finds it armed has it alone.
LEMMA CallbackClaimsIInv ==
    ASSUME IInv, NEW b \in Browser, CallbackClaims(b)
    PROVE  IInv'
<1> USE OAuthAssumption DEF IInv, CallbackClaims, StillArmed, None
<1>1. \A c \in Caller : reader[c].pc = "idle" /\ reader' = reader
  BY DEF RowUnlocked
<1> DEFINE hit == grant.id = cb[b].row /\ grant.flow = cb[b].flow
           r == [cb[b] EXCEPT !.pc = "exchange", !.gen = grant.gen]
<1>2. NoCallback \in CallbackRequest /\ r \in CallbackRequest
  <2>1. NoCallback \in CallbackRequest
    BY Numbers DEF CallbackRequest, NoCallback
  <2>2. r \in CallbackRequest
    <3>1. cb[b] \in CallbackRequest /\ grant.gen \in Nat
      BY DEF TypeOK, GrantRow
    <3> HIDE DEF IInv, CallbackClaims
    <3> QED
      BY <3>1 DEF CallbackRequest
  <2> QED
    BY <2>1, <2>2
<1>3. \/ hit /\ cb' = [cb EXCEPT ![b] = r]
      \/ cb' = [cb EXCEPT ![b] = NoCallback]
  BY DEF TypeOK
<1>17. PICK last \in Stamps :
        grant' = IF hit THEN [grant EXCEPT !.flow = 0, !.last = last \cup {b}] ELSE grant
  OBVIOUS
<1>18. last \cup {b} \in SUBSET Browser /\ (~SameTick => last \cup {b} = {b})
  BY DEF Stamps, TypeOK, GrantRow
<1>4. \/ hit /\ grant' = [grant EXCEPT !.flow = 0, !.last = last \cup {b}]
      \/ ~hit /\ grant' = grant /\ cb' = [cb EXCEPT ![b] = NoCallback]
  BY <1>17
<1>5. /\ r.pc = "exchange" /\ r.gen = grant.gen /\ r.flow = cb[b].flow
      /\ r.row = cb[b].row /\ r.had = cb[b].had
  BY DEF TypeOK, CallbackRequest
<1>6. NoCallback.pc = "idle"
  BY DEF NoCallback
<1> HIDE DEF r, CallbackClaims
<1>7. /\ cb[b].pc = "claim"
      /\ UNCHANGED <<conn, gens, flows, start, reader, edit, minted, edits, faults>>
  BY DEF CallbackClaims
<1>8. TypeOK'
  <2>1. grant' \in GrantRow
    BY <1>4, <1>18, Numbers DEF TypeOK, GrantRow
  <2>2. cb' \in [Browser -> CallbackRequest]
    BY <1>2, <1>3 DEF TypeOK
  <2> QED
    BY <2>1, <2>2, <1>7 DEF TypeOK, TokenNo, FlowNo, GrantRow, CallbackRequest, ReaderRequest, EditRequest, NoEdit
<1>9. /\ grant'.id = grant.id /\ grant'.status = grant.status /\ grant'.at = grant.at
      /\ grant'.rt = grant.rt /\ grant'.as = grant.as /\ grant'.gen = grant.gen
      /\ \/ hit /\ grant'.flow = 0 /\ (~SameTick => grant'.last = {b})
         \/ ~hit /\ grant' = grant
  BY <1>4, <1>18 DEF TypeOK, GrantRow
<1>10. \A d \in Browser : d # b => cb'[d] = cb[d]
  BY <1>3 DEF TypeOK
<1>11. cb'[b].pc = "idle" \/ (hit /\ cb'[b] = r)
  BY <1>3, <1>6 DEF TypeOK
<1>12. RowShape' /\ TokensOfRow' /\ ReaderHolds'
  <2>1. hit => grant.id # 0
    BY <1>7 DEF RowShape, NoRow, CallbackHolds
  <2> QED
    BY <1>1, <1>7, <1>9, <2>1 DEF RowShape, TokensOfRow, ReaderHolds, OfThisGrant
<1> HIDE DEF IInv
<1>13. CallbackHolds'
  BY <1>5, <1>7, <1>9, <1>10, <1>11 DEF IInv, CallbackHolds
<1>14. FlowOnce'
  BY <1>5, <1>7, <1>9, <1>10, <1>11 DEF IInv, FlowOnce, CallbackHolds
<1>15. TokenOwned' /\ SpentUnheld'
  BY <1>1, <1>5, <1>7, <1>9, <1>10, <1>11 DEF IInv, TokenOwned, SpentUnheld
<1>16. NothingToLose'
  BY <1>5, <1>7, <1>9, <1>10, <1>11 DEF IInv, NothingToLose, CallbackHolds
<1> QED
  BY <1>8, <1>12, <1>13, <1>14, <1>15, <1>16 DEF IInv

\* The code is redeemed: one more token, in this callback's hand only.
LEMMA CallbackExchangesIInv ==
    ASSUME IInv, NEW b \in Browser, CallbackExchanges(b)
    PROVE  IInv'
<1> DEFINE n == cb[b].flow
           m == Len(minted) + 1
           t == [as |-> flows[n].url, flow |-> n, gen |-> cb[b].gen, st |-> "live"]
           f == [flows[n] EXCEPT !.used = @ + 1]
           ok == [cb[b] EXCEPT !.pc = "promote", !.at = m]
           ko == [cb[b] EXCEPT !.pc = "fail"]
<1>1. /\ cb[b].pc = "exchange"
      /\ UNCHANGED <<conn, grant, gens, start, reader, edit, edits>>
      /\ \/ /\ Len(minted) < MaxTokens
            /\ minted' = Append(minted, t)
            /\ flows' = [flows EXCEPT ![n] = f]
            /\ cb' = [cb EXCEPT ![b] = ok] \/ cb' = [cb EXCEPT ![b] = ko]
         \/ /\ cb' = [cb EXCEPT ![b] = ko]
            /\ UNCHANGED <<minted, flows>>
  BY DEF IInv, TypeOK, CallbackExchanges
<1>2. faults' \in 0..MaxFaults
  BY OAuthAssumption DEF IInv, TypeOK, CallbackExchanges
<1>3. /\ n \in 1..Len(flows) /\ flows[n] \in Flow /\ f \in Flow /\ t \in Token
      /\ f.url = flows[n].url /\ f.used = flows[n].used + 1
  <2>1. n \in 1..Len(flows)
    BY <1>1, Numbers DEF IInv, TypeOK, CallbackRequest, CallbackHolds, FlowNo
  <2>2. flows[n] \in Flow /\ n \in Nat /\ cb[b].gen \in Nat
    BY <2>1, ElementOfSeq DEF IInv, TypeOK, CallbackRequest
  <2>3. f \in Flow /\ f.url = flows[n].url /\ f.used = flows[n].used + 1
    BY <2>2 DEF Flow
  <2>4. t \in Token
    BY <2>2 DEF Flow, Token
  <2> QED
    BY <2>1, <2>2, <2>3, <2>4
<1>4. /\ ok.pc = "promote" /\ ok.at = m /\ ok.flow = n /\ ok.gen = cb[b].gen
      /\ ok.had = cb[b].had /\ ok.row = cb[b].row
      /\ ko.pc = "fail" /\ ko.at = cb[b].at /\ ko.flow = n /\ ko.gen = cb[b].gen
      /\ ko.had = cb[b].had /\ ko.row = cb[b].row
  BY DEF IInv, TypeOK, CallbackRequest
<1>5. /\ t.as = flows[n].url /\ t.gen = cb[b].gen /\ t.st = "live"
  OBVIOUS
<1>6. ASSUME minted' = Append(minted, t), flows' = [flows EXCEPT ![n] = f]
      PROVE  /\ minted' \in Seq(Token) /\ Len(minted') = m /\ minted'[m] = t
             /\ \A i \in 1..Len(minted) : minted'[i] = minted[i]
             /\ flows' \in Seq(Flow) /\ Len(flows') = Len(flows) /\ flows'[n] = f
             /\ \A i \in 1..Len(flows) : i # n => flows'[i] = flows[i]
  <2>1. minted \in Seq(Token) /\ flows \in Seq(Flow)
    BY DEF IInv, TypeOK
  <2>2. /\ minted' \in Seq(Token) /\ Len(minted') = m /\ minted'[m] = t
        /\ \A i \in 1..Len(minted) : minted'[i] = minted[i]
    BY <1>3, <1>6, <2>1, AppendProperties
  <2> HIDE DEF f, n
  <2>3. /\ flows' \in Seq(Flow) /\ Len(flows') = Len(flows)
        /\ \A i \in 1..Len(flows) : flows'[i] = IF i = n THEN f ELSE flows[i]
    BY <1>3, <1>6, <2>1, ExceptSeq
  <2> QED
    BY <1>3, <2>2, <2>3
<1> HIDE DEF t, f, ok, ko
<1>7. /\ minted' \in Seq(Token) /\ flows' \in Seq(Flow)
      /\ Len(flows') = Len(flows) /\ Len(minted') \in {Len(minted), m}
      /\ Len(minted') <= MaxTokens
      /\ \A i \in 1..Len(minted) : minted'[i] = minted[i]
      /\ \A i \in 1..Len(flows) : flows'[i].url = flows[i].url
      /\ \A i \in 1..Len(flows) : i # n => flows'[i] = flows[i]
  <2>1. /\ minted \in Seq(Token) /\ flows \in Seq(Flow) /\ Len(minted) \in Nat
        /\ Len(minted) <= MaxTokens /\ MaxTokens \in Nat
    BY OAuthAssumption, Numbers DEF IInv, TypeOK
  <2>2. CASE UNCHANGED <<minted, flows>>
    BY <2>1, <2>2
  <2>3. CASE Len(minted) < MaxTokens /\ minted' = Append(minted, t) /\ flows' = [flows EXCEPT ![n] = f]
    BY <1>3, <1>6, <2>1, <2>3
  <2> QED
    BY <1>1, <2>2, <2>3
<1>8. /\ \A d \in Browser : d # b => cb'[d] = cb[d]
      /\ \/ /\ cb'[b] = ok
            /\ Len(minted') = m /\ minted'[m] = t /\ flows'[n] = f
         \/ /\ cb'[b] = ko
            /\ \/ flows' = flows /\ Len(minted') = Len(minted)
               \/ flows'[n] = f /\ Len(minted') = m /\ minted'[m] = t
  BY <1>1, <1>6 DEF IInv, TypeOK
<1>9. TypeOK'
  <2>1. /\ grant \in GrantRow' /\ cb \in [Browser -> CallbackRequest']
        /\ reader \in [Caller -> ReaderRequest'] /\ edit \in EditRequest'
    BY <1>7, TypesGrow, Numbers DEF IInv
  <2>2. cb'[b] = ok => ok \in CallbackRequest'
    <3>1. Len(minted') = m => m \in TokenNo'
      BY Numbers DEF IInv, TokenNo
    <3>2. cb[b] \in CallbackRequest'
      BY <2>1
    <3>3. m \in TokenNo' => ok \in CallbackRequest'
      BY <3>2 DEF CallbackRequest, ok
    <3>4. ok # ko
      BY <1>4
    <3> QED
      BY <1>8, <3>1, <3>3, <3>4
  <2>3. ko \in CallbackRequest'
    BY <2>1 DEF CallbackRequest, ko
  <2>4. cb' \in [Browser -> CallbackRequest']
    BY <1>1, <1>8, <2>1, <2>2, <2>3
  <2> QED
    BY <1>1, <1>2, <1>7, <2>1, <2>4 DEF IInv, TypeOK
<1>10. m \notin 1..Len(minted) /\ m # 0 /\ \A i \in 1..Len(minted') : i = m \/ i \in 1..Len(minted)
  BY <1>7, Numbers DEF IInv
<1> HIDE DEF m
<1>11. cb[b].pc = "exchange" /\ grant' = grant /\ reader' = reader
  BY <1>1
<1>12. RowShape' /\ TokensOfRow' /\ ReaderHolds'
  <2>1. RowShape'
    BY <1>11 DEF IInv, RowShape
  <2>2. TokensOfRow'
    BY <1>7, <1>11, Ranges DEF IInv, TokensOfRow, OfThisGrant
  <2>3. ReaderHolds'
    <3>1. \A c \in Caller : reader[c].pc = "store" =>
            minted'[reader[c].at] = minted[reader[c].at] /\ minted'[reader[c].got] = minted[reader[c].got]
      BY <1>7, Ranges DEF IInv, ReaderHolds, OfThisGrant
    <3> QED
      BY <1>11, <3>1 DEF IInv, ReaderHolds, OfThisGrant
  <2> QED
    BY <2>1, <2>2, <2>3
<1>13. CallbackHolds'
  <2>1. ASSUME NEW d \in Browser, d # b, cb[d].pc = "promote"
        PROVE  minted'[cb[d].at] = minted[cb[d].at] /\ flows'[cb[d].flow].url = flows[cb[d].flow].url
    BY <2>1, <1>7, Ranges DEF IInv, CallbackHolds
  <2>2. m # 0 /\ (cb'[b] = ok => minted'[m] = t /\ flows'[n].url = t.as)
    BY <1>3, <1>4, <1>5, <1>8, <1>10
  <2> QED
    BY <1>4, <1>5, <1>8, <1>11, <2>1, <2>2 DEF IInv, CallbackHolds
<1>14. FlowOnce'
  <2>1. flows[n].used = 0 /\ grant.flow # n /\ \A d \in Browser : d # b /\ cb[d].pc = "exchange" => cb[d].flow # n
    BY <1>11 DEF IInv, FlowOnce
  <2>2. f.used = 1 /\ flows'[n].used \in {0, 1}
    BY <1>3, <1>8, <2>1
  <2>3. \A i \in 1..Len(flows) : flows'[i].used <= 1
    BY <1>7, <2>2 DEF IInv, FlowOnce
  <2>4. grant.flow # 0 => flows'[grant.flow].used = 0
    BY <1>7, <2>1, Ranges DEF IInv, FlowOnce
  <2>5. ASSUME NEW d \in Browser, d # b, cb[d].pc = "exchange"
        PROVE  flows'[cb[d].flow].used = 0
    BY <1>7, <2>1, <2>5, Ranges DEF IInv, FlowOnce, CallbackHolds
  <2>6. cb'[b].pc # "exchange" /\ Len(flows') = Len(flows)
    BY <1>4, <1>7, <1>8
  <2> QED
    BY <1>8, <1>11, <2>3, <2>4, <2>5, <2>6 DEF IInv, FlowOnce
<1>15. /\ grant.rt # m
       /\ \A d \in Browser : cb[d].pc = "promote" => cb[d].at # m /\ cb[d].at \in 1..Len(minted)
       /\ \A c \in Caller : reader[c].pc = "store" => reader[c].got # m /\ reader[c].got \in 1..Len(minted)
  BY <1>10, Ranges DEF IInv, ReaderHolds, CallbackHolds, OfThisGrant
<1>16. TokenOwned'
  BY <1>4, <1>8, <1>11, <1>15 DEF IInv, TokenOwned
<1>17. SpentUnheld'
  <2>1. \A i \in 1..Len(minted') : minted'[i].st # "replayed"
    BY <1>5, <1>7, <1>8, <1>10 DEF IInv, SpentUnheld
  <2>2. grant.rt # 0 => minted'[grant.rt] = minted[grant.rt]
    BY <1>7, Ranges DEF IInv
  <2>3. \A c \in Caller : reader[c].pc = "store" => minted'[reader[c].got] = minted[reader[c].got]
    BY <1>7, <1>15
  <2>4. \A d \in Browser : d # b /\ cb[d].pc = "promote" => minted'[cb[d].at] = minted[cb[d].at]
    BY <1>7, <1>15
  <2> QED
    BY <1>4, <1>5, <1>8, <1>11, <2>1, <2>2, <2>3, <2>4 DEF IInv, SpentUnheld
<1>18. NothingToLose'
  BY <1>4, <1>8, <1>11 DEF IInv, NothingToLose
<1> QED
  BY <1>9, <1>12, <1>13, <1>14, <1>16, <1>17, <1>18 DEF IInv

\* A callback that ends holds nothing.
LEMMA ForgetIInv ==
    ASSUME IInv, TypeOK', UNCHANGED <<grant, reader, flows, minted>>,
           \A b \in Browser : cb'[b] = cb[b] \/ cb'[b].pc = "idle"
    PROVE  IInv'
<1>1. RowShape' /\ TokensOfRow' /\ ReaderHolds'
  BY DEF IInv, RowShape, TokensOfRow, ReaderHolds, OfThisGrant
<1>2. CallbackHolds' /\ FlowOnce'
  BY DEF IInv, CallbackHolds, FlowOnce
<1>3. TokenOwned' /\ SpentUnheld' /\ NothingToLose'
  BY DEF IInv, TokenOwned, SpentUnheld, NothingToLose
<1> QED
  BY <1>1, <1>2, <1>3 DEF IInv

\* A write of the row under its lock that arms no flow: what it must say of
\* the tokens it leaves there.
LEMMA RowWriteIInv ==
    ASSUME IInv, TypeOK', UNCHANGED <<flows, minted>>, RowUnlocked',
           \A b \in Browser : cb'[b] = cb[b] \/ cb'[b].pc = "idle",
           ~SameTick => grant'.last = {}, grant'.flow \in {0, grant.flow},
           RowShape', TokensOfRow', NothingToLose',
           grant'.rt # 0 => /\ minted[grant'.rt].st # "spent"
                            /\ \A b \in Browser : cb'[b].pc = "promote" => cb[b].at # grant'.rt
    PROVE  IInv'
<1>1. ReaderHolds'
  BY DEF ReaderHolds, RowUnlocked, OfThisGrant
<1>2. CallbackHolds'
  BY OAuthAssumption DEF IInv, CallbackHolds, None
<1>3. FlowOnce'
  BY DEF IInv, FlowOnce, CallbackHolds
<1>4. TokenOwned'
  BY DEF IInv, TokenOwned, RowUnlocked, CallbackHolds
<1>5. SpentUnheld'
  BY DEF IInv, SpentUnheld, RowUnlocked
<1> QED
  BY <1>1, <1>2, <1>3, <1>4, <1>5 DEF IInv

\* Forgetting a callback is typed.
LEMMA ForgotTyped ==
    ASSUME TypeOK, NEW b \in Browser, cb' = [cb EXCEPT ![b] = NoCallback]
    PROVE  /\ cb' \in [Browser -> CallbackRequest] /\ cb'[b].pc = "idle"
           /\ \A d \in Browser : cb'[d] = cb[d] \/ cb'[d].pc = "idle"
<1>1. NoCallback \in CallbackRequest /\ NoCallback.pc = "idle"
  BY Numbers DEF CallbackRequest, NoCallback, None
<1> QED
  BY <1>1 DEF TypeOK

\* The promotion: nobody has written the row since the claim, so the tokens
\* are of the row's generation, and the endpoints are the flow's.
LEMMA CallbackPromotesIInv ==
    ASSUME IInv, NEW b \in Browser, CallbackPromotes(b)
    PROVE  IInv'
<1> DEFINE n == cb[b].flow
<1>1. PICK rt \in {0, cb[b].at} :
        Writes(cb[b].row, Unmoved(b),
                [grant EXCEPT !.at = cb[b].at, !.rt = rt, !.fresh = TRUE, !.as = flows[n].url,
                              !.status = "connected", !.by = cb[b].user])
  BY DEF CallbackPromotes
<1>2. /\ cb[b].pc = "promote" /\ cb' = [cb EXCEPT ![b] = NoCallback]
      /\ UNCHANGED <<gens, conn, flows, start, reader, edit, minted, edits, faults>>
  BY DEF CallbackPromotes
<1>3. /\ cb' \in [Browser -> CallbackRequest] /\ cb'[b].pc = "idle"
      /\ \A d \in Browser : cb'[d] = cb[d] \/ cb'[d].pc = "idle"
  BY <1>2, ForgotTyped DEF IInv
<1>4. RowUnlocked /\ RowUnlocked'
  BY <1>1, <1>2 DEF Writes, RowUnlocked
<1>5. CASE grant' = grant
  <2>1. TypeOK'
    BY <1>2, <1>3, <1>5 DEF IInv, TypeOK, GrantRow, CallbackRequest, ReaderRequest, EditRequest, NoEdit, TokenNo, FlowNo
  <2> QED
    BY <1>2, <1>3, <1>5, <2>1, ForgetIInv
<1>6. CASE grant' # grant
  <2>1. grant.id # 0 /\ b \in grant.last
    BY <1>1, <1>6 DEF Writes, Unmoved
  <2>2. PICK last \in Stamps :
          grant' = [grant EXCEPT !.at = cb[b].at, !.rt = rt, !.fresh = TRUE, !.as = flows[n].url,
                                 !.status = "connected", !.by = cb[b].user, !.last = last]
    BY <1>1, <1>6 DEF Writes, Unmoved, IInv, TypeOK, GrantRow
  <2>11. last \in SUBSET Browser /\ (~SameTick => last = {})
    BY DEF Stamps, IInv, TypeOK, GrantRow
  <2>3. flows[n].url \in Url
    <3>1. n \in 1..Len(flows) /\ flows \in Seq(Flow)
      BY <1>2, Ranges DEF IInv, CallbackHolds, TypeOK
    <3>2. flows[n] \in Flow
      BY <3>1, ElementOfSeq
    <3> QED
      BY <3>2 DEF Flow
  <2>4. grant' \in GrantRow
    <3>1. cb[b].at \in TokenNo /\ rt \in TokenNo /\ cb[b].user \in User \cup {None}
      BY Numbers DEF IInv, TypeOK, CallbackRequest
    <3> QED
      BY <2>2, <2>3, <2>11, <3>1 DEF IInv, TypeOK, GrantRow, Status
  <2>5. TypeOK'
    BY <1>2, <1>3, <2>4 DEF IInv, TypeOK, GrantRow, CallbackRequest, ReaderRequest, EditRequest, NoEdit, TokenNo, FlowNo
  <2>6. /\ grant'.at = cb[b].at /\ grant'.rt = rt /\ grant'.as = flows[n].url
        /\ (~SameTick => grant'.last = {}) /\ grant'.flow = grant.flow /\ grant'.id = grant.id
        /\ grant'.gen = grant.gen
    BY <2>2, <2>11 DEF IInv, TypeOK, GrantRow
  <2>7. ~SameTick => grant.flow = 0 /\ cb[b].gen = grant.gen
    BY <1>2, <2>1 DEF IInv, CallbackHolds
  <2>12. /\ cb[b].at # 0 /\ minted[cb[b].at].as = flows[n].url
         /\ ~SameTick => minted[cb[b].at].gen = grant.gen
    BY <1>2, <2>7 DEF IInv, CallbackHolds
  <2>13. RowShape'
    BY <2>1, <2>6, <2>12 DEF RowShape
  <2>8. RowShape' /\ TokensOfRow'
    BY <1>2, <2>6, <2>12, <2>13 DEF TokensOfRow, OfThisGrant
  <2>9. NothingToLose'
    BY <1>3, <2>6, <2>7, OAuthAssumption DEF IInv, NothingToLose, CallbackHolds, None
  <2>10. grant'.rt # 0 => /\ minted[grant'.rt].st # "spent"
                          /\ \A d \in Browser : cb'[d].pc = "promote" => cb[d].at # grant'.rt
    BY <1>2, <1>3, <2>6 DEF IInv, SpentUnheld, TokenOwned
  <2> QED
    BY <1>2, <1>3, <1>4, <2>5, <2>6, <2>8, <2>9, <2>10, RowWriteIInv
<1> QED
  BY <1>5, <1>6

\* A failed callback: the verdict lands only on the row as it was claimed.
LEMMA CallbackFailsIInv ==
    ASSUME IInv, NEW b \in Browser, CallbackFails(b)
    PROVE  IInv'
<1>2. /\ cb[b].pc = "fail" /\ cb' = [cb EXCEPT ![b] = NoCallback]
      /\ UNCHANGED <<gens, conn, flows, start, reader, edit, minted, edits, faults>>
      /\ Writes(cb[b].row, Unmoved(b), [grant EXCEPT !.status = Verdict(b)])
  BY DEF CallbackFails
<1>3. /\ cb' \in [Browser -> CallbackRequest] /\ cb'[b].pc = "idle"
      /\ \A d \in Browser : cb'[d] = cb[d] \/ cb'[d].pc = "idle"
  BY <1>2, ForgotTyped DEF IInv
<1>4. RowUnlocked /\ RowUnlocked'
  BY <1>2 DEF Writes, RowUnlocked
<1>5. CASE grant' = grant
  <2>1. TypeOK'
    BY <1>2, <1>3, <1>5 DEF IInv, TypeOK, GrantRow, CallbackRequest, ReaderRequest, EditRequest, NoEdit, TokenNo, FlowNo
  <2> QED
    BY <1>2, <1>3, <1>5, <2>1, ForgetIInv
<1>6. CASE grant' # grant
  <2>1. grant.id # 0 /\ b \in grant.last
    BY <1>2, <1>6 DEF Writes, Unmoved
  <2>2. PICK last \in Stamps : grant' = [grant EXCEPT !.status = Verdict(b), !.last = last]
    BY <1>2, <1>6 DEF Writes, Unmoved, IInv, TypeOK, GrantRow
  <2>11. last \in SUBSET Browser /\ (~SameTick => last = {})
    BY DEF Stamps, IInv, TypeOK, GrantRow
  <2>3. Verdict(b) \in {grant.status, "error"}
    BY DEF Verdict
  <2>4. grant' \in GrantRow
    BY <2>2, <2>3, <2>11 DEF IInv, TypeOK, GrantRow, Status
  <2>5. TypeOK'
    BY <1>2, <1>3, <2>4 DEF IInv, TypeOK, GrantRow, CallbackRequest, ReaderRequest, EditRequest, NoEdit, TokenNo, FlowNo
  <2>6. /\ grant'.at = grant.at /\ grant'.rt = grant.rt /\ grant'.as = grant.as
        /\ (~SameTick => grant'.last = {}) /\ grant'.flow = grant.flow /\ grant'.id = grant.id
        /\ grant'.gen = grant.gen /\ grant'.status \in {grant.status, "error"}
    BY <2>2, <2>3, <2>11 DEF IInv, TypeOK, GrantRow
  <2>7. ~SameTick => grant.flow = 0
    BY <2>1 DEF IInv, CallbackHolds
  <2>8. RowShape' /\ TokensOfRow'
    BY <1>2, <2>1, <2>6 DEF IInv, RowShape, TokensOfRow, OfThisGrant
  <2>9. NothingToLose'
    BY <1>3, <2>6, <2>7, OAuthAssumption DEF IInv, NothingToLose, CallbackHolds, None
  <2>10. grant'.rt # 0 => /\ minted[grant'.rt].st # "spent"
                          /\ \A d \in Browser : cb'[d].pc = "promote" => cb[d].at # grant'.rt
    BY <1>3, <1>4, <2>6 DEF IInv, SpentUnheld, TokenOwned, RowUnlocked
  <2> QED
    BY <1>2, <1>3, <1>4, <2>5, <2>6, <2>8, <2>9, <2>10, RowWriteIInv
<1> QED
  BY <1>5, <1>6

\* Tokens change only their fate, and requests only end: what a revocation, a
\* refused refresh and a crash do to the invariant.
LEMMA FatesIInv ==
    ASSUME IInv, TypeOK', UNCHANGED <<grant, flows>>,
           \A b \in Browser : cb'[b] = cb[b] \/ cb'[b].pc = "idle",
           \A c \in Caller : \/ reader'[c] = reader[c]
                             \/ reader'[c].pc = "idle"
                             \/ /\ reader[c].pc # "idle" /\ reader'[c].pc = "dead"
                                /\ reader'[c].rt = reader[c].rt /\ reader'[c].as = reader[c].as,
           Len(minted') = Len(minted),
           \A i \in 1..Len(minted) : /\ minted'[i].as = minted[i].as
                                     /\ minted'[i].gen = minted[i].gen
                                     /\ minted'[i].st = "spent" => minted[i].st = "spent"
                                     /\ minted'[i].st # "replayed",
           (\A c \in Caller : reader'[c].pc # "store") /\ grant.rt # 0 => minted'[grant.rt].st # "spent"
    PROVE  IInv'
<1>1. RowShape' /\ TokensOfRow'
  BY Ranges DEF IInv, RowShape, TokensOfRow, OfThisGrant
<1>2. \A c \in Caller : reader'[c].pc = "store" => reader'[c] = reader[c]
  OBVIOUS
<1>3. \A c \in Caller : reader'[c].pc = "store" =>
        reader[c].at \in 1..Len(minted) /\ reader[c].got \in 1..Len(minted)
  BY <1>2, Ranges DEF IInv, ReaderHolds, OfThisGrant
<1>4. ReaderHolds'
  BY <1>2, <1>3 DEF IInv, ReaderHolds, OfThisGrant
<1>5. \A b \in Browser : cb'[b].pc = "promote" => cb[b].at \in 1..Len(minted) /\ cb'[b] = cb[b]
  BY Ranges DEF IInv, CallbackHolds
<1>6. CallbackHolds' /\ FlowOnce'
  BY <1>5 DEF IInv, CallbackHolds, FlowOnce
<1>7. TokenOwned' /\ NothingToLose'
  BY <1>2 DEF IInv, TokenOwned, NothingToLose
<1>8. SpentUnheld'
  BY <1>2, <1>3, <1>5 DEF IInv, SpentUnheld
<1> QED
  BY <1>1, <1>4, <1>6, <1>7, <1>8 DEF IInv

\* The access token's lifetime runs out.
LEMMA AccessTokenAgesIInv ==
    ASSUME IInv, AccessTokenAges
    PROVE  IInv'
<1> USE DEF AccessTokenAges
<1>1. TypeOK'
  BY DEF IInv, TypeOK, GrantRow, CallbackRequest, ReaderRequest, EditRequest, NoEdit, TokenNo, FlowNo
<1>2. /\ grant'.at = grant.at /\ grant'.rt = grant.rt /\ grant'.as = grant.as
      /\ grant'.last = grant.last /\ grant'.flow = grant.flow /\ grant'.id = grant.id
      /\ grant'.gen = grant.gen /\ grant'.status = grant.status
  BY DEF IInv, TypeOK, GrantRow
<1>3. RowShape'
  BY <1>2 DEF IInv, RowShape, NoRow
<1>4. TokensOfRow' /\ ReaderHolds' /\ CallbackHolds'
  BY <1>2 DEF IInv, TokensOfRow, ReaderHolds, CallbackHolds, OfThisGrant
<1>5. FlowOnce' /\ TokenOwned' /\ SpentUnheld' /\ NothingToLose'
  BY <1>2 DEF IInv, FlowOnce, TokenOwned, SpentUnheld, NothingToLose
<1> QED
  BY <1>1, <1>3, <1>4, <1>5 DEF IInv

\* A stale token and nothing to refresh it with: the row is marked expired.
LEMMA ReaderExpiresIInv ==
    ASSUME IInv, NEW c \in Caller, ReaderExpires(c)
    PROVE  IInv'
<1> USE DEF ReaderExpires, Stale, Writes
<1>1. RowUnlocked /\ grant.id # 0
  OBVIOUS
<1>7. PICK last \in Stamps : grant' = [grant EXCEPT !.status = "expired", !.last = last]
  BY DEF IInv, TypeOK, GrantRow
<1>8. last \in SUBSET Browser /\ (~SameTick => last = {})
  BY DEF Stamps, IInv, TypeOK, GrantRow
<1>2. TypeOK'
  <2>1. grant' \in GrantRow
    BY <1>7, <1>8 DEF IInv, TypeOK, GrantRow, Status
  <2> QED
    BY <2>1 DEF IInv, TypeOK, GrantRow, CallbackRequest, ReaderRequest, EditRequest, NoEdit, TokenNo, FlowNo
<1>3. /\ grant'.at = grant.at /\ grant'.rt = grant.rt /\ grant'.as = grant.as
      /\ (~SameTick => grant'.last = {}) /\ grant'.flow = grant.flow /\ grant'.id = grant.id
      /\ grant'.gen = grant.gen /\ grant'.status = "expired" /\ grant.rt = 0
  BY <1>7, <1>8 DEF IInv, TypeOK, GrantRow
<1>4. RowShape' /\ TokensOfRow' /\ NothingToLose'
  BY <1>1, <1>3 DEF IInv, RowShape, TokensOfRow, NothingToLose, OfThisGrant
<1>5. \A b \in Browser : cb'[b] = cb[b] \/ cb'[b].pc = "idle"
  OBVIOUS
<1>6. UNCHANGED <<flows, minted>> /\ RowUnlocked'
  BY <1>1 DEF RowUnlocked
<1> QED
  BY <1>1, <1>2, <1>3, <1>4, <1>5, <1>6, RowWriteIInv

\* SELECT ... FOR UPDATE: the reader has the row, its refresh token and its
\* endpoints.
LEMMA ReaderBeginsIInv ==
    ASSUME IInv, NEW c \in Caller, ReaderBegins(c)
    PROVE  IInv'
<1> DEFINE r == [NoReader EXCEPT !.pc = "refresh", !.rt = grant.rt, !.as = grant.as]
<1>1. /\ grant.id # 0 /\ grant.rt # 0 /\ RowUnlocked
      /\ reader' = [reader EXCEPT ![c] = r]
      /\ UNCHANGED <<conn, grant, gens, flows, start, cb, edit, minted, edits, faults>>
  BY DEF ReaderBegins, Stale
<1>2. r \in ReaderRequest /\ r.pc = "refresh" /\ r.rt = grant.rt /\ r.as = grant.as
  BY Numbers DEF IInv, TypeOK, GrantRow, ReaderRequest, NoReader
<1> HIDE DEF r
<1>3. TypeOK'
  BY <1>1, <1>2 DEF IInv, TypeOK, GrantRow, CallbackRequest, ReaderRequest, EditRequest, NoEdit, TokenNo, FlowNo
<1>4. reader'[c] = r /\ \A d \in Caller : d # c => reader'[d].pc = "idle"
  BY <1>1 DEF IInv, TypeOK, RowUnlocked
<1>5. RowShape' /\ TokensOfRow' /\ CallbackHolds' /\ FlowOnce' /\ NothingToLose'
  BY <1>1 DEF IInv, RowShape, TokensOfRow, CallbackHolds, FlowOnce, NothingToLose, OfThisGrant
<1>6. ReaderHolds' /\ TokenOwned' /\ SpentUnheld'
  BY <1>1, <1>2, <1>4 DEF IInv, ReaderHolds, TokenOwned, SpentUnheld, RowUnlocked, OfThisGrant
<1> QED
  BY <1>3, <1>5, <1>6 DEF IInv

\* Nothing is in the hands of an idle reader.
LEMMA NoReaderTyped ==
    ASSUME TypeOK
    PROVE  NoReader \in ReaderRequest /\ NoReader.pc = "idle"
BY Numbers DEF ReaderRequest, NoReader, None

\* The commit: the row it read is the row it writes, with the tokens it was
\* given or with the server's verdict.
LEMMA ReaderCommitsIInv ==
    ASSUME IInv, NEW c \in Caller, ReaderCommits(c)
    PROVE  IInv'
<1>1. /\ reader[c].pc \in {"store", "dead"}
      /\ reader' = [reader EXCEPT ![c] = NoReader]
      /\ UNCHANGED <<conn, gens, flows, start, cb, edit, minted, edits, faults>>
  BY DEF ReaderCommits
<1>2. reader' \in [Caller -> ReaderRequest] /\ RowUnlocked'
  BY <1>1, NoReaderTyped DEF IInv, TypeOK, RowUnlocked, ReaderHolds, OfThisGrant
<1>3. \A b \in Browser : cb'[b] = cb[b] \/ cb'[b].pc = "idle"
  BY <1>1
<1>4. CASE reader[c].pc = "store"
  <2>1. PICK last \in Stamps :
          grant' = [grant EXCEPT !.at = reader[c].at, !.rt = reader[c].got, !.fresh = TRUE, !.last = last]
    BY <1>4 DEF ReaderCommits
  <2>8. last \in SUBSET Browser /\ (~SameTick => last = {})
    BY DEF Stamps, IInv, TypeOK, GrantRow
  <2>2. grant' \in GrantRow
    BY <2>1, <2>8 DEF IInv, TypeOK, GrantRow, ReaderRequest
  <2>3. TypeOK'
    BY <1>1, <1>2, <2>2 DEF IInv, TypeOK, GrantRow, CallbackRequest, ReaderRequest, EditRequest, NoEdit, TokenNo, FlowNo
  <2>4. /\ grant'.at = reader[c].at /\ grant'.rt = reader[c].got /\ grant'.as = grant.as
        /\ (~SameTick => grant'.last = {}) /\ grant'.flow = grant.flow /\ grant'.id = grant.id
        /\ grant'.gen = grant.gen /\ grant'.status = grant.status
    BY <2>1, <2>8 DEF IInv, TypeOK, GrantRow
  <2>5. RowShape' /\ TokensOfRow'
    BY <1>1, <1>4, <2>4 DEF IInv, RowShape, TokensOfRow, ReaderHolds, OfThisGrant
  <2>6. NothingToLose'
    BY <1>1, <2>4, OAuthAssumption DEF IInv, NothingToLose, None
  <2>7. /\ minted[grant'.rt].st # "spent"
        /\ \A b \in Browser : cb'[b].pc = "promote" => cb[b].at # grant'.rt
    BY <1>1, <1>4, <2>4 DEF IInv, SpentUnheld, TokenOwned
  <2> QED
    BY <1>1, <1>2, <1>3, <2>3, <2>4, <2>5, <2>6, <2>7, RowWriteIInv
<1>5. CASE reader[c].pc = "dead"
  <2>1. PICK last \in Stamps : grant' = [grant EXCEPT !.status = "expired", !.last = last]
    BY <1>5 DEF ReaderCommits
  <2>8. last \in SUBSET Browser /\ (~SameTick => last = {})
    BY DEF Stamps, IInv, TypeOK, GrantRow
  <2>2. grant' \in GrantRow
    BY <2>1, <2>8 DEF IInv, TypeOK, GrantRow, Status
  <2>3. TypeOK'
    BY <1>1, <1>2, <2>2 DEF IInv, TypeOK, GrantRow, CallbackRequest, ReaderRequest, EditRequest, NoEdit, TokenNo, FlowNo
  <2>4. /\ grant'.at = grant.at /\ grant'.rt = grant.rt /\ grant'.as = grant.as
        /\ (~SameTick => grant'.last = {}) /\ grant'.flow = grant.flow /\ grant'.id = grant.id
        /\ grant'.gen = grant.gen /\ grant'.status = "expired"
    BY <2>1, <2>8 DEF IInv, TypeOK, GrantRow
  <2>5. RowShape' /\ TokensOfRow' /\ NothingToLose'
    BY <1>1, <1>5, <2>4 DEF IInv, RowShape, TokensOfRow, ReaderHolds, NothingToLose, OfThisGrant
  <2>6. grant.rt # 0 => minted[grant.rt].st # "spent"
    BY <1>5 DEF IInv, SpentUnheld, ReaderHolds, OfThisGrant
  <2>7. \A b \in Browser : cb'[b].pc = "promote" => cb[b].at # grant'.rt
    BY <1>1, <2>4 DEF IInv, TokenOwned
  <2> QED
    BY <1>1, <1>2, <1>3, <2>3, <2>4, <2>5, <2>6, <2>7, RowWriteIInv
<1> QED
  BY <1>1, <1>4, <1>5

\* The authorization server answers a refresh.  The reader holds the row, so
\* the token it presents is not one that another reader saw rotated.
LEMMA ReaderRefreshesIInv ==
    ASSUME IInv, NEW c \in Caller, ReaderRefreshes(c)
    PROVE  IInv'
<1> DEFINE rt == reader[c].rt
           m == Len(minted) + 1
           good == minted[rt].st = "live" /\ minted[rt].as = reader[c].as
           Reissued == [minted[rt] EXCEPT !.st = "live"]
<1>1. /\ reader[c].pc = "refresh" /\ c \in Caller
      /\ UNCHANGED <<conn, grant, gens, flows, start, cb, edit, edits>>
  BY DEF ReaderRefreshes
<1>2. /\ rt = grant.rt /\ rt \in 1..Len(minted) /\ minted[rt] \in Token /\ minted[rt].st # "spent"
      /\ \A d \in Caller : d # c => reader[d].pc = "idle"
  <2>1. /\ rt = grant.rt /\ grant.rt # 0
        /\ \A d \in Caller : d # c => reader[d].pc = "idle"
    BY <1>1 DEF IInv, ReaderHolds, OfThisGrant
  <2>2. minted[rt].st # "spent"
    BY <1>1, <2>1 DEF IInv, SpentUnheld
  <2>3. rt \in 1..Len(minted) /\ minted \in Seq(Token)
    BY <2>1, Ranges DEF IInv, TypeOK
  <2>4. minted[rt] \in Token
    BY <2>3, ElementOfSeq
  <2> QED
    BY <2>1, <2>2, <2>3, <2>4
<1>3. \A b \in Browser : cb'[b] = cb[b] \/ cb'[b].pc = "idle"
  BY <1>1
<1>4. CASE /\ ~good
           /\ reader' = [reader EXCEPT ![c].pc = "dead"]
           /\ minted' = [minted EXCEPT ![rt].st = IF @ = "spent" THEN "replayed" ELSE @]
           /\ UNCHANGED faults
  <2>1. minted' = minted
    BY <1>2, <1>4 DEF IInv, TypeOK, Token
  <2>2. reader' \in [Caller -> ReaderRequest]
    BY <1>4 DEF IInv, TypeOK, ReaderRequest
  <2>3. TypeOK'
    BY <1>1, <1>4, <2>1, <2>2 DEF IInv, TypeOK, GrantRow, CallbackRequest, ReaderRequest, EditRequest, NoEdit, TokenNo, FlowNo
  <2>4. /\ \A d \in Caller : d # c => reader'[d] = reader[d]
        /\ reader'[c].pc = "dead" /\ reader'[c].rt = rt /\ reader'[c].as = reader[c].as
    BY <1>4 DEF IInv, TypeOK, ReaderRequest
  <2>5. \A i \in 1..Len(minted) : minted[i].st # "replayed"
    BY DEF IInv, SpentUnheld
  <2> QED
    BY <1>1, <1>2, <1>3, <2>1, <2>3, <2>4, <2>5, FatesIInv
<1>5. CASE reader' = [reader EXCEPT ![c] = NoReader] /\ UNCHANGED <<minted, faults>>
  <2>1. reader' \in [Caller -> ReaderRequest] /\ reader'[c].pc = "idle"
    BY <1>5, NoReaderTyped DEF IInv, TypeOK
  <2>2. TypeOK'
    BY <1>1, <1>5, <2>1 DEF IInv, TypeOK, GrantRow, CallbackRequest, ReaderRequest, EditRequest, NoEdit, TokenNo, FlowNo
  <2>3. \A d \in Caller : d # c => reader'[d] = reader[d]
    BY <1>5 DEF IInv, TypeOK
  <2>4. \A i \in 1..Len(minted) : minted[i].st # "replayed"
    BY DEF IInv, SpentUnheld
  <2> QED
    BY <1>1, <1>2, <1>3, <1>5, <2>1, <2>2, <2>3, <2>4, FatesIInv
<1>6. ASSUME NEW rotates \in BOOLEAN, NEW lost \in BOOLEAN, good, Len(minted) < MaxTokens,
             minted' = Append([minted EXCEPT ![rt].st =
                                 IF ~rotates THEN @ ELSE IF lost THEN "lost" ELSE "spent"], Reissued),
             reader' = [reader EXCEPT ![c] =
                      IF lost THEN NoReader
                      ELSE [@ EXCEPT !.pc = "store", !.at = m, !.got = IF rotates THEN m ELSE rt]],
             IF lost THEN faults < MaxFaults /\ faults' = faults + 1 ELSE faults' = faults
      PROVE  IInv'
  <2> DEFINE o == [minted[rt] EXCEPT !.st = IF ~rotates THEN @ ELSE IF lost THEN "lost" ELSE "spent"]
             mid == [minted EXCEPT ![rt] = o]
             g == IF rotates THEN m ELSE rt
             r == [reader[c] EXCEPT !.pc = "store", !.at = m, !.got = g]
  <2>1. /\ o \in Token /\ o.as = minted[rt].as /\ o.gen = minted[rt].gen
        /\ o.st # "replayed" /\ (o.st = "spent" => rotates /\ ~lost)
    BY <1>2, <1>6 DEF Token
  <2>2. /\ Reissued \in Token /\ Reissued.as = minted[rt].as /\ Reissued.gen = minted[rt].gen
        /\ Reissued.st = "live"
    BY <1>2 DEF Token
  <2>3. minted' = Append(mid, Reissued)
    BY <1>6
  <2> HIDE DEF o, Reissued
  <2>4. /\ mid \in Seq(Token) /\ Len(mid) = Len(minted)
        /\ \A i \in 1..Len(minted) : mid[i] = IF i = rt THEN o ELSE minted[i]
    BY <1>2, <2>1, ExceptSeq DEF IInv, TypeOK
  <2> HIDE DEF mid
  <2>5. /\ minted' \in Seq(Token) /\ Len(minted') = m /\ minted'[m] = Reissued
        /\ \A i \in 1..Len(minted) : minted'[i] = IF i = rt THEN o ELSE minted[i]
    BY <2>2, <2>3, <2>4, AppendProperties
  <2>6. /\ m \notin 1..Len(minted) /\ m # 0 /\ Len(minted) \in Nat
        /\ \A i \in 1..Len(minted') : i = m \/ i \in 1..Len(minted)
    BY <2>5, Numbers DEF IInv
  <2>7. /\ r.pc = "store" /\ r.rt = rt /\ r.as = reader[c].as /\ r.at = m /\ r.got = g
        /\ g \in {m, rt}
    BY DEF IInv, TypeOK, ReaderRequest
  <2>8. /\ \A d \in Caller : d # c => reader'[d] = reader[d]
        /\ reader'[c] = IF lost THEN NoReader ELSE r
    BY <1>6 DEF IInv, TypeOK
  <2>9. TypeOK'
    <3>1. faults' \in 0..MaxFaults
      BY <1>6, OAuthAssumption DEF IInv, TypeOK
    <3>2. /\ grant \in GrantRow' /\ cb \in [Browser -> CallbackRequest']
          /\ reader \in [Caller -> ReaderRequest'] /\ edit \in EditRequest'
      BY <1>1, <2>5, <2>6, TypesGrow, Numbers DEF IInv
    <3>3. m \in TokenNo' /\ rt \in TokenNo' /\ 0 \in TokenNo'
      BY <1>2, <2>5, <2>6 DEF TokenNo
    <3>4. r \in ReaderRequest'
      BY <3>2, <3>3 DEF ReaderRequest
    <3>5. NoReader \in ReaderRequest'
      BY <3>3 DEF ReaderRequest, NoReader
    <3>6. reader' \in [Caller -> ReaderRequest']
      BY <1>6, <3>2, <3>4, <3>5
    <3>7. Len(minted') <= MaxTokens
      BY <1>6, <2>5, <2>6, OAuthAssumption
    <3> QED
      BY <1>1, <2>5, <3>1, <3>2, <3>6, <3>7 DEF IInv, TypeOK
  <2> HIDE DEF m, r, rt, g
  <2>10. \A i \in 1..Len(minted) : minted'[i].as = minted[i].as /\ minted'[i].gen = minted[i].gen
    BY <2>1, <2>5
  <2>11. RowShape' /\ TokensOfRow' /\ NothingToLose'
    BY <1>1, <2>10, Ranges DEF IInv, RowShape, TokensOfRow, NothingToLose, OfThisGrant
  <2>12. NoReader.pc = "idle"
    BY DEF NoReader
  <2>13. minted[grant.rt].as = grant.as /\ OfThisGrant(grant.rt) /\ grant.id # 0 /\ grant.rt # 0
    BY <1>1 DEF IInv, TokensOfRow, ReaderHolds, OfThisGrant
  <2>14. reader'[c].pc = "idle" \/ (~lost /\ reader'[c] = r)
    BY <2>8, <2>12
  <2>15. \A n \in {m, rt} : n # 0 /\ minted'[n].as = grant.as /\ (~SameTick => minted'[n].gen = grant.gen)
    BY <1>2, <2>1, <2>2, <2>5, <2>6, <2>13 DEF OfThisGrant, rt
  <2>16. ReaderHolds'
    BY <1>1, <1>2, <2>6, <2>7, <2>8, <2>13, <2>14, <2>15 DEF IInv, ReaderHolds, rt, OfThisGrant
  <2>17. CallbackHolds' /\ FlowOnce'
    <3>1. \A b \in Browser : cb[b].pc = "promote" => cb[b].at \in 1..Len(minted)
      BY Ranges DEF IInv, CallbackHolds
    <3> QED
      BY <1>1, <2>10, <3>1 DEF IInv, CallbackHolds, FlowOnce
  <2>18. \A b \in Browser : cb[b].pc = "promote" =>
           cb[b].at \in 1..Len(minted) /\ cb[b].at # rt /\ cb[b].at # m
    BY <1>2, <2>6, Ranges DEF IInv, CallbackHolds, TokenOwned
  <2>19. TokenOwned'
    BY <1>1, <1>2, <2>7, <2>8, <2>14, <2>18 DEF IInv, TokenOwned
  <2>20. SpentUnheld'
    <3>1. \A i \in 1..Len(minted') : minted'[i].st # "replayed"
      BY <2>1, <2>2, <2>5, <2>6 DEF IInv, SpentUnheld
    <3>2. (\A d \in Caller : reader'[d].pc # "store") => minted'[grant.rt].st # "spent"
      BY <1>2, <2>1, <2>5, <2>7, <2>8
    <3>3. ~lost => minted'[g].st # "spent"
      BY <1>2, <2>1, <2>2, <2>5 DEF g
    <3>4. \A b \in Browser : cb[b].pc = "promote" => minted'[cb[b].at].st # "spent"
      BY <2>5, <2>18 DEF IInv, SpentUnheld
    <3> QED
      BY <1>1, <1>2, <2>7, <2>8, <2>14, <3>1, <3>2, <3>3, <3>4 DEF SpentUnheld
  <2> QED
    BY <2>9, <2>11, <2>16, <2>17, <2>19, <2>20 DEF IInv
<1> QED
  BY <1>4, <1>5, <1>6 DEF ReaderRefreshes

\* A mutation's reads: the refresh token it will revoke is one there is.
LEMMA EditReadsIInv ==
    ASSUME IInv, EditReads
    PROVE  IInv'
<1>1. edits' \in 0..MaxEdits
  BY OAuthAssumption DEF EditReads, IInv, TypeOK
<1>2. edit' \in EditRequest
  BY DEF EditReads, IInv, TypeOK, EditRequest, NoEdit, ConnRow, GrantRow
<1>3. UNCHANGED <<conn, grant, gens, flows, start, cb, reader, minted, faults>>
  BY DEF EditReads
<1>4. TypeOK'
  BY <1>1, <1>2, <1>3 DEF IInv, TypeOK, GrantRow, CallbackRequest, ReaderRequest, EditRequest, NoEdit, TokenNo, FlowNo
<1> QED
  BY <1>3, <1>4, FrameIInv

\* The connection goes back to oauth.
LEMMA EditEntersIInv ==
    ASSUME IInv, EditEnters
    PROVE  IInv'
<1>1. conn' \in ConnRow
  BY DEF EditEnters, IInv, TypeOK, ConnRow
<1>2. UNCHANGED <<grant, gens, flows, start, cb, reader, edit, minted, edits, faults>>
  BY DEF EditEnters
<1>3. TypeOK'
  BY <1>1, <1>2 DEF IInv, TypeOK, GrantRow, CallbackRequest, ReaderRequest, EditRequest, NoEdit, TokenNo, FlowNo
<1> QED
  BY <1>2, <1>3, FrameIInv

\* revokeBestEffort: a live token may be revoked; no token becomes spent.
LEMMA EditRevokesIInv ==
    ASSUME IInv, EditRevokes
    PROVE  IInv'
<1> DEFINE n == edit.rt
           o == [minted[n] EXCEPT !.st = IF @ = "live" THEN "revoked" ELSE @]
<1>1. UNCHANGED <<conn, grant, gens, flows, start, cb, reader, edits, faults>>
  BY DEF EditRevokes
<1>2. minted' = minted \/ (n # 0 /\ minted' = [minted EXCEPT ![n] = o])
  BY DEF EditRevokes
<1>3. minted \in Seq(Token)
  BY DEF IInv, TypeOK
<1>4. n # 0 => /\ n \in 1..Len(minted) /\ o \in Token /\ o.as = minted[n].as /\ o.gen = minted[n].gen
               /\ (o.st = "spent" => minted[n].st = "spent")
               /\ (o.st = "replayed" => minted[n].st = "replayed")
  <2>1. n # 0 => n \in 1..Len(minted) /\ minted[n] \in Token
    BY <1>3, Ranges, ElementOfSeq DEF IInv
  <2> QED
    BY <2>1 DEF Token
<1> HIDE DEF o
<1>5. /\ minted' \in Seq(Token) /\ Len(minted') = Len(minted)
      /\ \A i \in 1..Len(minted) : minted'[i] = minted[i] \/ (i = n /\ minted'[i] = o)
  <2>1. CASE minted' = minted
    BY <1>3, <2>1
  <2>2. CASE n # 0 /\ minted' = [minted EXCEPT ![n] = o]
    BY <1>3, <1>4, <2>2, ExceptSeq
  <2> QED
    BY <1>2, <2>1, <2>2
<1>6. \A i \in 1..Len(minted) : /\ minted'[i].as = minted[i].as
                                /\ minted'[i].gen = minted[i].gen
                                /\ minted'[i].st = "spent" => minted[i].st = "spent"
                                /\ minted'[i].st # "replayed"
  <2>1. \A i \in 1..Len(minted) : i # 0 /\ minted[i].st # "replayed"
    BY DEF IInv, SpentUnheld
  <2> QED
    BY <1>4, <1>5, <2>1
<1>7. TypeOK'
  <2>1. /\ grant \in GrantRow' /\ cb \in [Browser -> CallbackRequest']
        /\ reader \in [Caller -> ReaderRequest'] /\ edit \in EditRequest'
    BY <1>1, <1>5, TypesGrow, Numbers DEF IInv
  <2>2. edit' \in EditRequest'
    BY <2>1 DEF EditRevokes, EditRequest, NoEdit
  <2>3. Len(minted') <= MaxTokens
    BY <1>5 DEF IInv, TypeOK
  <2> QED
    BY <1>1, <1>5, <2>1, <2>2, <2>3 DEF IInv, TypeOK
<1>8. (\A c \in Caller : reader'[c].pc # "store") /\ grant.rt # 0 => minted'[grant.rt].st # "spent"
  BY <1>1, <1>6, Ranges DEF IInv, SpentUnheld
<1> QED
  BY <1>1, <1>5, <1>6, <1>7, <1>8, FatesIInv

\* The process dies: what a reader was given and had not stored is lost, and
\* the row's refresh token is not one it has seen rotated.
LEMMA CrashIInv ==
    ASSUME IInv, Crash
    PROVE  IInv'
<1> DEFINE gone(n) == \E c \in Caller : reader[c].pc = "store" /\ reader[c].rt = n /\ minted[n].st = "spent"
<1>1. /\ faults' \in 0..MaxFaults
      /\ UNCHANGED <<conn, grant, gens, flows, edits>>
  BY OAuthAssumption DEF Crash, IInv, TypeOK
<1>2. minted' = [n \in 1..Len(minted) |-> IF gone(n) THEN [minted[n] EXCEPT !.st = "lost"] ELSE minted[n]]
  BY LenProperties DEF Crash, IInv, TypeOK
<1>3. \A n \in 1..Len(minted) : minted[n] \in Token
  BY ElementOfSeq DEF IInv, TypeOK
<1>4. \A n \in 1..Len(minted) :
        /\ minted'[n] \in Token /\ minted'[n].as = minted[n].as /\ minted'[n].gen = minted[n].gen
        /\ minted'[n].st \in {"lost", minted[n].st}
        /\ gone(n) => minted'[n].st = "lost"
  BY <1>2, <1>3 DEF Token
<1>5. minted' \in Seq(Token) /\ Len(minted') = Len(minted)
  BY <1>2, <1>4, Numbers, IsASeq DEF IInv
<1>6. \A i \in 1..Len(minted) : /\ minted'[i].as = minted[i].as
                                /\ minted'[i].gen = minted[i].gen
                                /\ minted'[i].st = "spent" => minted[i].st = "spent"
                                /\ minted'[i].st # "replayed"
  BY <1>4 DEF IInv, SpentUnheld
<1>7. /\ start' = [u \in User |-> NoStart] /\ cb' = [b \in Browser |-> NoCallback]
      /\ reader' = [c \in Caller |-> NoReader] /\ edit' = NoEdit
  BY DEF Crash
<1>8. /\ \A b \in Browser : cb'[b].pc = "idle"
      /\ \A c \in Caller : reader'[c].pc = "idle"
  BY <1>7 DEF NoCallback, NoReader
<1>9. TypeOK'
  <2>1. grant' \in GrantRow' /\ 0 \in TokenNo' /\ 0 \in FlowNo'
    BY <1>1, <1>5, TypesGrow, Numbers DEF IInv, TokenNo, FlowNo
  <2>2. NoCallback \in CallbackRequest' /\ NoReader \in ReaderRequest'
    BY <2>1 DEF NoCallback, NoReader, CallbackRequest, ReaderRequest
  <2>3. NoEdit \in EditRequest' /\ NoStart \in StartRequest
    BY <2>1 DEF NoEdit, EditRequest, NoEdit, StartRequest
  <2>4. Len(minted') <= MaxTokens
    BY <1>5 DEF IInv, TypeOK
  <2> QED
    BY <1>1, <1>5, <1>7, <2>1, <2>2, <2>3, <2>4 DEF IInv, TypeOK
<1>10. grant.rt # 0 => minted'[grant.rt].st # "spent"
  <2>1. SUFFICES ASSUME grant.rt # 0 PROVE minted'[grant.rt].st # "spent"
    OBVIOUS
  <2>2. grant.rt \in 1..Len(minted)
    BY <2>1, Ranges DEF IInv
  <2>3. CASE \E c \in Caller : reader[c].pc = "store"
    BY <1>4, <2>2, <2>3 DEF IInv, ReaderHolds, OfThisGrant
  <2>4. CASE \A c \in Caller : reader[c].pc # "store"
    BY <1>6, <2>1, <2>2, <2>4 DEF IInv, SpentUnheld
  <2> QED
    BY <2>3, <2>4
<1> QED
  BY <1>1, <1>5, <1>6, <1>8, <1>9, <1>10, FatesIInv

\* Ending the grant: a missing or blanked row carries nothing over.
LEMMA BlankIInv ==
    ASSUME IInv, RowUnlocked, UNCHANGED <<start, cb, reader, flows, minted, edits, faults>>,
           gens' \in Nat, conn' \in ConnRow, edit' \in EditRequest,
           NEW i \in Nat, NEW g \in Nat, NEW last \in Stamps, i = 0 => grant' = NoRow,
           i # 0 => grant' = [[NoRow EXCEPT !.id = i, !.gen = g] EXCEPT !.last = last]
    PROVE  IInv'
<1> DEFINE Row == [id : Nat, status : {"pending"}, as : {None}, at : {0}, rt : {0}, fresh : {FALSE},
                   by : {None}, flow : {0}, gen : Nat, last : {{}, last}]
<1>0. NoRow \in Row /\ NoRow.id = 0
  BY DEF NoRow
<1>5. last \in SUBSET Browser /\ (~SameTick => last = {})
  BY DEF Stamps, IInv, TypeOK, GrantRow
<1>1. /\ i = 0 => grant'.id = 0 /\ grant' = NoRow
      /\ i # 0 => grant'.id # 0
      /\ grant' \in Row
  <2>1. CASE i = 0
    BY <1>0, <2>1
  <2>2. CASE i # 0
    BY <1>0, <2>2
  <2> QED
    BY <2>1, <2>2
<1>2. TypeOK'
  <2>1. grant' \in GrantRow
    BY <1>1, <1>5, Numbers DEF IInv, GrantRow, Status
  <2> QED
    BY <2>1 DEF IInv, TypeOK, GrantRow, CallbackRequest, ReaderRequest, EditRequest, NoEdit, TokenNo, FlowNo
<1>3. RowShape' /\ TokensOfRow' /\ NothingToLose'
  BY <1>1 DEF RowShape, TokensOfRow, NothingToLose, OfThisGrant
<1>4. RowUnlocked' /\ \A b \in Browser : cb'[b] = cb[b] \/ cb'[b].pc = "idle"
  BY DEF RowUnlocked
<1> QED
  BY <1>1, <1>2, <1>3, <1>4, <1>5, RowWriteIInv

\* The grant's end in updateConnection.
LEMMA EditGrantIInv ==
    ASSUME IInv, EditGrant
    PROVE  IInv'
<1>1. /\ RowUnlocked
      /\ UNCHANGED <<conn, flows, start, cb, reader, minted, edits, faults>>
  BY DEF EditGrant, Writes
<1>2. edit' \in EditRequest /\ conn' \in ConnRow
  BY DEF EditGrant, IInv, TypeOK, EditRequest, NoEdit
<1>3. gens + 1 \in Nat /\ gens' \in Nat /\ edit.row \in Nat
  <2>1. gens \in Nat /\ (gens' = gens + 1 \/ gens' = gens)
    BY DEF EditGrant, IInv, TypeOK
  <2>2. edit.row \in Nat
    BY DEF IInv, TypeOK, EditRequest, NoEdit
  <2> QED
    BY <2>1, <2>2
<1>4. CASE grant' = grant
  <2>1. TypeOK'
    BY <1>1, <1>2, <1>3, <1>4 DEF IInv, TypeOK, GrantRow, CallbackRequest, ReaderRequest, EditRequest, NoEdit, TokenNo, FlowNo
  <2> QED
    BY <1>1, <1>4, <2>1, FrameIInv
<1>5. CASE edit.kind = "move" /\ grant' # grant
  <2>1. /\ edit.row # 0
        /\ \E last \in Stamps :
             grant' = [[NoRow EXCEPT !.id = edit.row, !.gen = gens + 1] EXCEPT !.last = last]
    BY <1>5 DEF EditGrant, Writes
  <2> QED
    BY <1>1, <1>2, <1>3, <2>1, BlankIInv
<1>6. CASE edit.kind # "move" /\ grant' # grant
  <2>1. grant' = NoRow
    BY <1>6 DEF EditGrant
  <2>2. {} \in Stamps
    BY DEF Stamps
  <2> QED
    BY <1>1, <1>2, <1>3, <2>1, <2>2, BlankIInv
<1> QED
  BY <1>4, <1>5, <1>6

\* The connection's own write, and the cascade of a delete.
LEMMA EditConnIInv ==
    ASSUME IInv, EditConn
    PROVE  IInv'
<1>1. UNCHANGED <<gens, flows, start, cb, reader, minted, edits, faults>> /\ edit' = NoEdit
  BY DEF EditConn
<1>2. edit' \in EditRequest
  BY <1>1, Numbers DEF IInv, EditRequest, NoEdit
<1>3. CASE edit.kind = "delete"
  <2>1. RowUnlocked /\ grant' = NoRow /\ conn' \in ConnRow
    BY <1>3 DEF EditConn, IInv, TypeOK, ConnRow
  <2>2. {} \in Stamps /\ gens' \in Nat
    BY <1>1 DEF Stamps, IInv, TypeOK
  <2> QED
    BY <1>1, <1>2, <2>1, <2>2, BlankIInv
<1>4. CASE edit.kind # "delete"
  <2>1. grant' = grant
    BY <1>4 DEF EditConn
  <2>2. TypeOK'
    <3>1. edit.kind \in {"leave", "move"} /\ edit.url \in Url
      BY <1>4 DEF EditConn, IInv, TypeOK, EditRequest, NoEdit
    <3>2. conn' = [conn EXCEPT !.auth = "static"] \/ conn' = [conn EXCEPT !.url = edit.url]
      BY <3>1 DEF EditConn
    <3>3. conn' \in ConnRow
      BY <3>1, <3>2 DEF IInv, TypeOK, ConnRow
    <3> QED
      BY <1>1, <1>2, <2>1, <3>3 DEF IInv, TypeOK, GrantRow, CallbackRequest, ReaderRequest, EditRequest, NoEdit, TokenNo, FlowNo
  <2> QED
    BY <1>1, <2>1, <2>2, FrameIInv
<1> QED
  BY <1>3, <1>4

-----------------------------------------------------------------------------

\* Every step of the system keeps the invariant.
LEMMA NextIInv == IInv /\ [Next]_vars => IInv'
<1> SUFFICES ASSUME IInv, [Next]_vars PROVE IInv'
  OBVIOUS
<1>1. ASSUME NEW u \in User, StartReads(u) \/ Arm(u) \/ StartFails(u) PROVE IInv'
  BY <1>1, StartReadsIInv, ArmIInv, StartFailsIInv
<1>2. ASSUME NEW b \in Browser, NEW u \in User, CallbackFinds(b, u) PROVE IInv'
  BY <1>2, CallbackFindsIInv
<1>3. ASSUME NEW b \in Browser,
             CallbackClaims(b) \/ CallbackExchanges(b) \/ CallbackPromotes(b) \/ CallbackFails(b)
      PROVE  IInv'
  BY <1>3, CallbackClaimsIInv, CallbackExchangesIInv, CallbackPromotesIInv, CallbackFailsIInv
<1>4. ASSUME NEW c \in Caller,
             ReaderExpires(c) \/ ReaderBegins(c) \/ ReaderRefreshes(c) \/ ReaderCommits(c)
      PROVE  IInv'
  BY <1>4, ReaderExpiresIInv, ReaderBeginsIInv, ReaderRefreshesIInv, ReaderCommitsIInv
<1>5. CASE AccessTokenAges
  BY <1>5, AccessTokenAgesIInv
<1>6. CASE EditReads \/ EditRevokes \/ EditGrant \/ EditConn \/ EditEnters
  BY <1>6, EditReadsIInv, EditRevokesIInv, EditGrantIInv, EditConnIInv, EditEntersIInv
<1>7. CASE Crash
  BY <1>7, CrashIInv
<1>8. CASE UNCHANGED vars
  <2>1. TypeOK'
    BY <1>8 DEF vars, IInv, TypeOK, GrantRow, CallbackRequest, ReaderRequest, EditRequest, TokenNo, FlowNo
  <2> QED
    BY <1>8, <2>1, FrameIInv DEF vars
<1> QED
  BY <1>1, <1>2, <1>3, <1>4, <1>5, <1>6, <1>7, <1>8 DEF Next

\* The invariant holds throughout.
THEOREM InvariantHolds == Spec => []IInv
BY InitIInv, NextIInv, PTL DEF Spec

\* The rows, the requests and what they hold keep their shape: no request
\* names a flow that was not armed or a token that was not minted.
THEOREM TypeCorrect == Spec => []TypeOK
<1>1. IInv => TypeOK
  BY DEF IInv
<1> QED
  BY <1>1, InvariantHolds, PTL

\* broker.ts keeps discovery in the flow until the promotion, so the row's
\* endpoints are always the ones its tokens came from.
THEOREM EndpointsPaired == Spec => []PairedEndpoints
<1>1. IInv => PairedEndpoints
  BY DEF IInv, TokensOfRow, PairedEndpoints, OfThisGrant
<1> QED
  BY <1>1, InvariantHolds, PTL

\* handleCallback's claim stamp: no token of a flow claimed before a reset or
\* a delete is ever on the row, if no two writes of it share a millisecond.
THEOREM NeverResurrected == ~SameTick => (Spec => []NoResurrection)
<1> SUFFICES ASSUME ~SameTick PROVE Spec => []NoResurrection
  OBVIOUS
<1>1. IInv => NoResurrection
  BY DEF IInv, TokensOfRow, NoResurrection, OfThisGrant
<1> QED
  BY <1>1, InvariantHolds, PTL

\* The compare-and-clear on pending_state and the row lock of getAccessToken:
\* a code is redeemed once and a rotated refresh token is never replayed, for
\* any number of callbacks, readers and crashes.
THEOREM CodesAndTokensUsedOnce == Spec => []UsedOnce
<1>1. IInv => UsedOnce
  <2> SUFFICES ASSUME IInv PROVE UsedOnce
    OBVIOUS
  <2>1. DOMAIN flows = 1..Len(flows) /\ DOMAIN minted = 1..Len(minted)
    BY LenProperties DEF IInv, TypeOK
  <2> QED
    BY <2>1 DEF IInv, FlowOnce, SpentUnheld, UsedOnce
<1> QED
  BY <1>1, InvariantHolds, PTL

\* What GrantKept says of a step.
KeptStep ==
    grant.status = "connected" /\ grant'.status # "connected" =>
         \/ \E c \in Caller : reader[c].pc = "dead" /\ reader'[c] = NoReader
         \/ Stale /\ grant.rt = 0
         \/ edit.pc \in {"grant", "conn"} /\ edit' # edit
         \/ \E u \in User : start[u].status \in Status \ {"connected"} /\ start'[u] = NoStart

\* Only the server's verdict, an unrefreshable token, an edit, or a start that
\* saw no connected row takes a working grant out of service.
LEMMA StepKeepsGrant == ~SameTick /\ IInv /\ [Next]_vars => KeptStep
<1> SUFFICES ASSUME ~SameTick, IInv, [Next]_vars, grant.status = "connected", grant'.status # "connected"
             PROVE  KeptStep
  BY DEF KeptStep
<1> USE DEF KeptStep
<1>0. grant \in GrantRow /\ grant.id # 0 /\ grant' # grant
  BY DEF IInv, TypeOK, RowShape, NoRow
<1>1. ASSUME NEW u \in User, StartReads(u) PROVE FALSE
  BY <1>0, <1>1 DEF StartReads
<1>2. ASSUME NEW u \in User, Arm(u) PROVE KeptStep
  <2>1. start[u] \in [url : Url, row : Nat, status : Status] /\ start'[u] = NoStart
    BY <1>2 DEF Arm, IInv, TypeOK, StartRequest
  <2>2. start[u].status # "connected"
    BY <1>0, <1>2 DEF Arm, Writes, Armed, GrantRow
  <2> QED
    BY <2>1, <2>2
<1>3. ASSUME NEW u \in User, StartFails(u) PROVE FALSE
  BY <1>0, <1>3 DEF StartFails, Writes, GrantRow
<1>4. ASSUME NEW b \in Browser, NEW u \in User, CallbackFinds(b, u) PROVE FALSE
  BY <1>0, <1>4 DEF CallbackFinds
<1>5. ASSUME NEW b \in Browser, CallbackClaims(b) PROVE FALSE
  BY <1>0, <1>5 DEF CallbackClaims, GrantRow
<1>6. ASSUME NEW b \in Browser, CallbackExchanges(b) PROVE FALSE
  BY <1>0, <1>6 DEF CallbackExchanges
<1>7. ASSUME NEW b \in Browser, CallbackPromotes(b) PROVE FALSE
  BY <1>0, <1>7 DEF CallbackPromotes, Writes, GrantRow
<1>8. ASSUME NEW b \in Browser, CallbackFails(b) PROVE FALSE
  <2>1. /\ cb[b].pc = "fail" /\ b \in grant.last
        /\ \E last \in Stamps : grant' = [[grant EXCEPT !.status = Verdict(b)] EXCEPT !.last = last]
    BY <1>0, <1>8 DEF CallbackFails, Writes, Unmoved
  <2>2. cb[b].had
    BY <2>1 DEF IInv, NothingToLose
  <2> QED
    BY <1>0, <2>1, <2>2 DEF Verdict, GrantRow
<1>9. ASSUME NEW c \in Caller, ReaderExpires(c) PROVE KeptStep
  BY <1>9 DEF ReaderExpires
<1>10. ASSUME NEW c \in Caller, ReaderBegins(c) \/ ReaderRefreshes(c) PROVE FALSE
  BY <1>0, <1>10 DEF ReaderBegins, ReaderRefreshes
<1>11. ASSUME NEW c \in Caller, ReaderCommits(c) PROVE KeptStep
  BY <1>0, <1>11 DEF ReaderCommits, GrantRow, IInv, TypeOK
<1>12. CASE AccessTokenAges
  BY <1>0, <1>12 DEF AccessTokenAges, GrantRow
<1>13. CASE EditReads \/ EditRevokes \/ EditEnters
  BY <1>0, <1>13 DEF EditReads, EditRevokes, EditEnters
<1>14. CASE EditGrant
  <2>1. edit.pc = "grant" /\ edit'.pc = "conn"
    BY <1>14 DEF EditGrant, IInv, TypeOK, EditRequest, NoEdit
  <2> QED
    BY <2>1
<1>15. CASE EditConn
  <2>1. edit.pc = "conn" /\ edit'.pc = "idle"
    BY <1>15 DEF EditConn, NoEdit
  <2> QED
    BY <2>1
<1>16. CASE Crash
  BY <1>0, <1>16 DEF Crash
<1>17. CASE UNCHANGED vars
  BY <1>0, <1>17 DEF vars
<1> QED
  BY <1>1, <1>2, <1>3, <1>4, <1>5, <1>6, <1>7, <1>8, <1>9, <1>10, <1>11, <1>12, <1>13, <1>14,
     <1>15, <1>16, <1>17 DEF Next

\* A re-consent that is started, abandoned or fails leaves a working grant in
\* service, if no two writes of the row share a millisecond.
THEOREM WorkingGrantKept == ~SameTick => (Spec => GrantKept)
<1> SUFFICES ASSUME ~SameTick PROVE Spec => GrantKept
  OBVIOUS
<1>1. IInv /\ [Next]_vars => [KeptStep]_vars
  BY StepKeepsGrant
<1> QED
  BY <1>1, InvariantHolds, PTL DEF Spec, GrantKept, KeptStep

=============================================================================
