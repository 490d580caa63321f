--------------------------- MODULE TriggersProofs ---------------------------
(***************************************************************************)
(* What Triggers promises, for any number of processes, requests, edits,   *)
(* workflows, messages and keys.  The invariant comes in layers, each      *)
(* proved on the one before it: the shape of the variables, the holder of  *)
(* the workspace lock and what it has counted (CapInv), who holds each     *)
(* connection (LockInv), the schedule's cursor, and what each delivery and *)
(* each Slack message in flight has found or left (HookInv, SlackInv).     *)
(***************************************************************************)
EXTENDS Triggers, FiniteSetTheorems, WellFoundedInduction, TLAPS

-----------------------------------------------------------------------------
(* Operators.                                                              *)

\* A nonempty set of naturals has a least element, and Min is it.
LEMMA MinInSet ==
  ASSUME NEW S \in SUBSET Nat, S # {}
  PROVE  Min(S) \in S /\ \A y \in S : Min(S) <= y
<1> DEFINE R == {ss \in Nat \X Nat : ss[1] < ss[2]}
<1>1. \E x \in S : \A y \in S : x <= y
  <2>1. IsWellFoundedOn(R, Nat)
    BY NatLessThanWellFounded DEF OpToRel
  <2> HIDE DEF R
  <2>2. PICK x \in S : \A y \in S : ~(<<y, x>> \in R)
    BY <2>1, WFMin
  <2>3. \A y \in S : ~(y < x)
    BY <2>2 DEF R
  <2> QED
    BY <2>3
<1> QED
  BY <1>1 DEF Min

\* A nonempty set of numbers up to n has a greatest one, and Max is it.
LEMMA MaxInSet ==
  ASSUME NEW n \in Nat, NEW S \in SUBSET (0..n), S # {}
  PROVE  Max(S) \in S /\ \A y \in S : Max(S) >= y
<1> DEFINE T == {n - x : x \in S}
<1>1. T \in SUBSET Nat /\ T # {}
  <2>1. \A x \in S : n - x \in Nat
    OBVIOUS
  <2> QED
    BY <2>1
<1>2. Min(T) \in T /\ \A y \in T : Min(T) <= y
  BY <1>1, MinInSet
<1>3. PICK x \in S : Min(T) = n - x
  BY <1>2
<1>4. \A y \in S : x >= y
  BY <1>2, <1>3
<1> QED
  BY <1>4 DEF Max

\* The next match of the cron expression, if any, is after the instant asked
\* for.
LEMMA NextFireAhead ==
  ASSUME NEW t \in Nat
  PROVE  NextFire(t) \in Windows \cup {0} /\ (NextFire(t) # 0 => NextFire(t) > t)
<1>1. CASE \E x \in Windows : x > t
  <2> DEFINE S == {x \in Windows : x > t}
  <2>1. S \in SUBSET Nat /\ S # {}
    BY <1>1, TriggersAssumption
  <2>2. Min(S) \in S
    BY <2>1, MinInSet
  <2> QED
    BY <1>1, <2>2 DEF NextFire
<1>2. CASE ~\E x \in Windows : x > t
  BY <1>2 DEF NextFire
<1> QED
  BY <1>1, <1>2

\* A cursor is a number, 0 for none.
LEMMA CursorNat == \A n \in Windows \cup {0} : n \in Nat
BY TriggersAssumption

\* The later of two instants.
LEMMA MaxOfTwo ==
  ASSUME NEW n \in Nat, NEW x \in 0..n, NEW y \in 0..n
  PROVE  Max({x, y}) \in 0..n /\ Max({x, y}) = IF x >= y THEN x ELSE y
<1>1. Max({x, y}) \in {x, y} /\ \A z \in {x, y} : Max({x, y}) >= z
  BY MaxInSet
<1> QED
  BY <1>1

\* Remember keeps entries of the map, but for the one it adds, and no more
\* than MaxIdem of them.
LEMMA RememberKeeps ==
  ASSUME NEW S, NEW q \in Seq(S), NEW k, NEW i, [key |-> k, run |-> i] \in S
  PROVE  /\ Remember(q, k, i) \in Seq(S)
         /\ \A j \in DOMAIN Remember(q, k, i) :
              \/ Remember(q, k, i)[j] = [key |-> k, run |-> i]
              \/ \E l \in DOMAIN q : Remember(q, k, i)[j] = q[l]
         /\ Len(q) <= MaxIdem => Len(Remember(q, k, i)) <= MaxIdem
<1> DEFINE e == [key |-> k, run |-> i]
           put == [j \in DOMAIN q |-> IF q[j].key = k THEN e ELSE q[j]]
           kept == IF \E j \in DOMAIN q : q[j].key = k THEN put ELSE Append(q, e)
<1>1. /\ put \in Seq(S) /\ Len(put) = Len(q)
      /\ \A j \in 1..Len(put) : put[j] = e \/ \E l \in DOMAIN q : put[j] = q[l]
  OBVIOUS
<1>2. /\ Append(q, e) \in Seq(S) /\ Len(Append(q, e)) = Len(q) + 1
      /\ \A j \in 1..Len(q) + 1 : Append(q, e)[j] = IF j <= Len(q) THEN q[j] ELSE e
  OBVIOUS
<1> HIDE DEF put, e
<1>3. /\ kept \in Seq(S)
      /\ Len(kept) <= Len(q) + 1
      /\ \A j \in 1..Len(kept) : kept[j] = e \/ \E l \in DOMAIN q : kept[j] = q[l]
  <2>1. CASE \E j \in DOMAIN q : q[j].key = k
    BY <1>1, <2>1
  <2>2. CASE ~\E j \in DOMAIN q : q[j].key = k
    <3>1. kept = Append(q, e)
      BY <2>2
    <3> QED
      BY <1>2, <3>1
  <2> QED
    BY <2>1, <2>2
<1>4. Remember(q, k, i) = IF Len(kept) > MaxIdem THEN Tail(kept) ELSE kept
  BY DEF Remember, put, e
<1> HIDE DEF kept
<1>5. MaxIdem \in Nat /\ Len(q) \in Nat
  BY TriggersAssumption
<1>6. CASE Len(kept) > MaxIdem
  <2>1. kept # <<>>
    BY <1>3, <1>5, <1>6
  <2>2. /\ Tail(kept) \in Seq(S) /\ Len(Tail(kept)) = Len(kept) - 1
        /\ \A j \in 1..Len(Tail(kept)) : Tail(kept)[j] = kept[j + 1]
    BY <1>3, <2>1
  <2>3. Remember(q, k, i) = Tail(kept)
    BY <1>4, <1>6
  <2>4. \A j \in 1..Len(Tail(kept)) : j + 1 \in 1..Len(kept)
    BY <1>3, <2>1, <2>2
  <2> QED
    BY <1>3, <1>5, <2>2, <2>3, <2>4 DEF e
<1>7. CASE ~(Len(kept) > MaxIdem)
  BY <1>3, <1>4, <1>5, <1>7 DEF e
<1> QED
  BY <1>6, <1>7

\* What is recalled for a key is the run of one of its entries.
LEMMA RecallFinds ==
  ASSUME NEW p, NEW k, idem[p] \in Seq(IdemRow), Recall(p, k) # 0
  PROVE  \E j \in DOMAIN idem[p] : idem[p][j].key = k /\ idem[p][j].run = Recall(p, k)
<1> DEFINE hits == {j \in DOMAIN idem[p] : idem[p][j].key = k}
<1>1. hits # {}
  BY DEF Recall
<1>2. hits \in SUBSET (0..Len(idem[p])) /\ Len(idem[p]) \in Nat
  OBVIOUS
<1>3. Max(hits) \in hits
  BY <1>1, <1>2, MaxInSet
<1> QED
  BY <1>1, <1>3 DEF Recall

\* A key that has an entry whose run is not 0 is not forgotten.
LEMMA RecallMisses ==
  ASSUME NEW p, NEW k, idem[p] \in Seq(IdemRow), Recall(p, k) = 0,
         NEW j \in DOMAIN idem[p], idem[p][j].key = k,
         \A l \in DOMAIN idem[p] : idem[p][l].run # 0
  PROVE  FALSE
<1> DEFINE hits == {l \in DOMAIN idem[p] : idem[p][l].key = k}
<1>1. hits # {}
  OBVIOUS
<1>2. hits \in SUBSET (0..Len(idem[p])) /\ Len(idem[p]) \in Nat
  OBVIOUS
<1>3. Max(hits) \in hits
  BY <1>1, <1>2, MaxInSet
<1> QED
  BY <1>1, <1>3 DEF Recall

-----------------------------------------------------------------------------
(* Shape.                                                                  *)

\* The actor that does nothing, and the slot without an edit, have their
\* shapes.
LEMMA Idle == ASSUME Shape PROVE NoAdm \in Adm /\ NoEdit \in EdSlot
BY TriggersAssumption DEF Shape, NoAdm, NoEdit, Adm, AdmRow, EdSlot, EdRow, Steps, Admitted, None

\* What an actor is doing, one field at a time.
LEMMA RowStages ==
  ASSUME NEW r \in AdmRow
  PROVE  /\ \A v \in Steps : [r EXCEPT !.pc = v] \in AdmRow
         /\ \A v \in Wf \cup {None} : [r EXCEPT !.w = v] \in AdmRow
         /\ \A v \in SUBSET Wf : [r EXCEPT !.todo = v] \in AdmRow
         /\ \A v \in Nat : [r EXCEPT !.run = v] \in AdmRow
         /\ \A v \in BOOLEAN : [r EXCEPT !.ok = v] \in AdmRow
BY DEF AdmRow

\* Over leaves an actor idle, or at its next trigger.
LEMMA OverShape ==
  ASSUME Shape, NEW a \in Actor, adm[a].pc # "idle"
  PROVE  /\ Over(a) \in Adm
         /\ Over(a).pc \in {"idle", "claim", "route"}
         /\ Over(a).w = None
<1>1. CASE adm[a].todo = {}
  BY <1>1, Idle DEF Over, NoAdm
<1>2. CASE adm[a].todo # {}
  <2> DEFINE pc == IF a \in Proc THEN "claim" ELSE "route"
             r == adm[a]
             s == [[[r EXCEPT !.pc = pc] EXCEPT !.w = None] EXCEPT !.run = 0]
  <2>1. r \in AdmRow /\ pc \in Steps /\ pc \in {"claim", "route"}
    BY DEF Shape, Adm, Steps
  <2>2. s \in AdmRow
    BY <2>1, RowStages
  <2>3. Over(a) = s
    BY <1>2, <2>1 DEF Over, AdmRow
  <2>4. s.pc = pc /\ s.w = None /\ s.p = r.p
    BY <2>1 DEF AdmRow
  <2>5. r.p \in Proc
    BY <1>2 DEF Shape, Adm
  <2> QED
    BY <2>1, <2>2, <2>3, <2>4, <2>5 DEF Adm, Admitted
<1> QED
  BY <1>1, <1>2

\* A step that changes what one actor does keeps the shape of the others.
LEMMA AdmShape ==
  ASSUME Shape, NEW a \in Actor, NEW r \in Adm, adm' = [adm EXCEPT ![a] = r]
  PROVE  adm' \in [Actor -> Adm] /\ adm'[a] = r /\ \A b \in Actor \ {a} : adm'[b] = adm[b]
BY DEF Shape

\* An actor under way turns to another step of its work.
LEMMA PcShape ==
  ASSUME Shape, NEW a \in Actor, NEW v \in Steps \ {"idle"}, adm[a].pc # "idle",
         v \in Admitted \cup {"load", "lookup", "check", "reserve", "launch"} => adm[a].w \in Wf
  PROVE  /\ [adm[a] EXCEPT !.pc = v] \in Adm
         /\ [adm[a] EXCEPT !.pc = v].pc = v
<1>1. adm[a] \in AdmRow /\ adm[a].p \in Proc
  BY DEF Shape, Adm
<1>2. [adm[a] EXCEPT !.pc = v] \in AdmRow
  BY <1>1, RowStages
<1>3. /\ [adm[a] EXCEPT !.pc = v].pc = v
      /\ [adm[a] EXCEPT !.pc = v].p = adm[a].p
      /\ [adm[a] EXCEPT !.pc = v].w = adm[a].w
  BY <1>1 DEF AdmRow
<1> QED
  BY <1>1, <1>2, <1>3 DEF Adm

\* Steps that change nothing but what one actor does.
LEMMA OnlyAdmShape ==
  ASSUME Shape, NEW a \in Actor, NEW r \in Adm, adm' = [adm EXCEPT ![a] = r],
         UNCHANGED <<DB, idem, seen, runs, capLock, faults, hist>>
  PROVE  Shape'
BY AdmShape DEF Shape, DB

\* A run changes its driver, or settles.
LEMMA RunsShape ==
  ASSUME Shape, NEW i \in DOMAIN runs
  PROVE  /\ \A p \in Proc \cup {None} : [runs EXCEPT ![i].drv = p] \in Seq(RunRow)
         /\ [runs EXCEPT ![i].live = FALSE] \in Seq(RunRow)
<1>1. runs[i] \in RunRow
  BY DEF Shape
<1>2. \A p \in Proc \cup {None} : [runs[i] EXCEPT !.drv = p] \in RunRow
  BY <1>1 DEF RunRow
<1>3. [runs[i] EXCEPT !.live = FALSE] \in RunRow
  BY <1>1 DEF RunRow
<1>4. \A r \in RunRow : [runs EXCEPT ![i] = r] \in Seq(RunRow)
  BY DEF Shape
<1> QED
  BY <1>2, <1>3, <1>4

\* A run that changes its driver keeps its other fields.
LEMMA DrvFields ==
  ASSUME Shape, NEW i, NEW p, NEW f, f = [runs EXCEPT ![i].drv = p]
  PROVE  /\ DOMAIN f = DOMAIN runs
         /\ \A j \in DOMAIN runs :
              /\ j # i => f[j] = runs[j]
              /\ f[j].w = runs[j].w /\ f[j].msg = runs[j].msg /\ f[j].by = runs[j].by
              /\ f[j].lost = runs[j].lost /\ f[j].live = runs[j].live
              /\ f[j].drv = IF j = i THEN p ELSE runs[j].drv
<1>1. \A j \in DOMAIN runs : runs[j] \in RunRow
  BY DEF Shape
<1>2. DOMAIN f = DOMAIN runs
  OBVIOUS
<1>3. \A j \in DOMAIN runs : f[j] = IF j = i THEN [runs[j] EXCEPT !.drv = p] ELSE runs[j]
  OBVIOUS
<1> QED
  BY <1>1, <1>2, <1>3 DEF RunRow

\* A run that settles keeps its other fields.
LEMMA LiveFields ==
  ASSUME Shape, NEW i, NEW f, f = [runs EXCEPT ![i].live = FALSE]
  PROVE  /\ DOMAIN f = DOMAIN runs
         /\ \A j \in DOMAIN runs :
              /\ j # i => f[j] = runs[j]
              /\ f[j].w = runs[j].w /\ f[j].msg = runs[j].msg /\ f[j].by = runs[j].by
              /\ f[j].lost = runs[j].lost /\ f[j].drv = runs[j].drv
              /\ f[j].live <=> (j # i /\ runs[j].live)
<1>1. \A j \in DOMAIN runs : runs[j] \in RunRow
  BY DEF Shape
<1>2. DOMAIN f = DOMAIN runs
  OBVIOUS
<1>3. \A j \in DOMAIN runs : f[j] = IF j = i THEN [runs[j] EXCEPT !.live = FALSE] ELSE runs[j]
  OBVIOUS
<1>4. ASSUME NEW j \in DOMAIN runs PROVE f[j].live <=> (j # i /\ runs[j].live)
  <2>1. runs[j].live \in BOOLEAN
    BY <1>1 DEF RunRow
  <2>2. CASE j = i
    BY <1>1, <1>3, <2>2 DEF RunRow
  <2>3. CASE j # i
    BY <1>3, <2>1, <2>3
  <2> QED
    BY <2>2, <2>3
<1> QED
  BY <1>1, <1>2, <1>3, <1>4 DEF RunRow

\* Admission keeps the shape of the variables, launches of inserted runs among
\* them.
LEMMA AdmitShape ==
  ASSUME Shape, NEW a \in Actor, Admit(a),
         adm[a].pc = "launch" => adm[a].run \in DOMAIN runs
  PROVE  Shape'
<1>1. CASE Reserve(a)
  <2>1. adm[a].pc = "reserve" /\ adm' = [adm EXCEPT ![a] = [adm[a] EXCEPT !.pc = "create"]]
    BY <1>1 DEF Reserve
  <2>2. [adm[a] EXCEPT !.pc = "create"] \in Adm
    BY <2>1, PcShape DEF Steps, Shape, Adm
  <2> QED
    BY <1>1, <2>1, <2>2, OnlyAdmShape DEF Reserve, DB, Memory
<1>2. CASE Exhausted(a)
  BY <1>2, OverShape, OnlyAdmShape DEF Exhausted, DB, Memory
<1>3. CASE Decide(a)
  <2> DEFINE v == IF OverlapHit(adm[a].w) \/ Cardinality(Live) + 1 > Cap THEN "refuse" ELSE "insert"
  <2>1. adm[a].pc = "create" /\ adm' = [adm EXCEPT ![a] = [adm[a] EXCEPT !.pc = v]]
    BY <1>3 DEF Decide
  <2>2. v \in {"refuse", "insert"}
    OBVIOUS
  <2> HIDE DEF v
  <2>3. adm[a].w \in Wf
    BY <2>1 DEF Shape, Adm, Admitted
  <2>4. [adm[a] EXCEPT !.pc = v] \in Adm
    BY <2>1, <2>2, <2>3, PcShape DEF Steps
  <2>5. adm' \in [Actor -> Adm]
    BY <2>1, <2>4, AdmShape
  <2>6. capLock' = a /\ UNCHANGED <<now, wf, trig, ed, edits, idem, seen, runs, faults, hist>>
    BY <1>3 DEF Decide, DB, Memory
  <2> QED
    BY <2>5, <2>6 DEF Shape
<1>4. CASE Refuse(a)
  <2>1. adm[a].pc = "refuse" /\ adm' = [adm EXCEPT ![a] = Over(a)] /\ capLock' = None
        /\ UNCHANGED <<now, wf, trig, ed, edits, idem, seen, runs, faults, hist>>
    BY <1>4 DEF Refuse, DB, Memory
  <2>2. adm' \in [Actor -> Adm]
    BY <2>1, OverShape, AdmShape
  <2> QED
    BY <2>1, <2>2 DEF Shape
<1>5. CASE Insert(a)
  <2> DEFINE r == [w |-> adm[a].w, live |-> TRUE, drv |-> None, msg |-> adm[a].msg,
                   by |-> <<adm[a].p, hist.boot[adm[a].p]>>, lost |-> FALSE]
             s == [[adm[a] EXCEPT !.pc = "launch"] EXCEPT !.run = Len(runs) + 1]
  <2>1. /\ adm[a].pc = "insert" /\ capLock' = None /\ runs' = Append(runs, r)
        /\ adm' = [adm EXCEPT ![a] = [adm[a] EXCEPT !.pc = "launch", !.run = Len(runs) + 1]]
        /\ UNCHANGED <<now, wf, trig, ed, edits, idem, seen, faults, hist>>
    BY <1>5 DEF Insert, DB, Memory
  <2>2. adm[a] \in AdmRow /\ adm[a].p \in Proc /\ adm[a].w \in Wf
    BY <2>1 DEF Shape, Adm, Admitted
  <2>3. hist.boot[adm[a].p] \in Nat
    BY <2>2 DEF Shape
  <2>4. r \in RunRow
    BY <2>2, <2>3 DEF AdmRow, RunRow
  <2>5. runs' \in Seq(RunRow) /\ Len(runs) + 1 \in Nat
    BY <2>1, <2>4 DEF Shape
  <2>6. s \in AdmRow
    BY <2>2, <2>5, RowStages DEF Steps
  <2>7. s.pc = "launch" /\ s.p \in Proc /\ s.w \in Wf /\
        s = [adm[a] EXCEPT !.pc = "launch", !.run = Len(runs) + 1]
    BY <2>2 DEF AdmRow
  <2>8. s \in Adm
    BY <2>6, <2>7 DEF Adm
  <2> HIDE DEF r, s
  <2>9. adm' \in [Actor -> Adm]
    BY <2>1, <2>7, <2>8, AdmShape
  <2> QED
    BY <2>1, <2>5, <2>9 DEF Shape
<1>6. CASE Launch(a)
  <2>1. /\ adm[a].pc = "launch" /\ runs' = [runs EXCEPT ![adm[a].run].drv = adm[a].p]
        /\ adm' = [adm EXCEPT ![a] = Over(a)]
        /\ UNCHANGED <<now, wf, trig, ed, edits, seen, capLock, faults, hist>>
    BY <1>6 DEF Launch, DB
  <2>2. adm[a] \in AdmRow /\ adm[a].p \in Proc /\ adm[a].w \in Wf
    BY <2>1 DEF Shape, Adm
  <2>3. runs' \in Seq(RunRow)
    BY <2>1, <2>2, RunsShape
  <2>4. adm' \in [Actor -> Adm]
    BY <2>1, OverShape, AdmShape
  <2>5. idem' \in [Proc -> Seq(IdemRow)]
    <3> DEFINE k == <<adm[a].w, adm[a].key>>
               q == idem[adm[a].p]
    <3>1. idem' = idem \/ idem' = [idem EXCEPT ![adm[a].p] = Remember(q, k, adm[a].run)]
      BY <1>6 DEF Launch
    <3>2. q \in Seq(IdemRow) /\ [key |-> k, run |-> adm[a].run] \in IdemRow
      BY <2>2 DEF Shape, IdemRow, AdmRow
    <3>3. Remember(q, k, adm[a].run) \in Seq(IdemRow)
      BY <3>2, RememberKeeps
    <3> QED
      BY <3>1, <3>3 DEF Shape
  <2> QED
    BY <2>1, <2>3, <2>4, <2>5 DEF Shape
<1> QED
  BY <1>1, <1>2, <1>3, <1>4, <1>5, <1>6 DEF Admit

\* An actor drops a workflow from those it still has to see, and rests when
\* none is left.
LEMMA DropShape ==
  ASSUME Shape, NEW a \in Actor, NEW w \in Wf, adm[a].pc \in {"claim", "route"},
         NEW r, r = LET rest == [adm[a] EXCEPT !.todo = @ \ {w}]
                    IN  IF rest.todo = {} THEN NoAdm ELSE rest
  PROVE  r \in Adm /\ (r = NoAdm \/ r = [adm[a] EXCEPT !.todo = adm[a].todo \ {w}])
<1> DEFINE s == [adm[a] EXCEPT !.todo = adm[a].todo \ {w}]
<1>1. adm[a] \in AdmRow /\ adm[a].p \in Proc
  BY DEF Shape, Adm
<1>2. adm[a].todo \ {w} \in SUBSET Wf
  BY <1>1 DEF AdmRow
<1>3. s \in AdmRow
  BY <1>1, <1>2, RowStages
<1>4. s.pc = adm[a].pc /\ s.p = adm[a].p
  BY <1>1 DEF AdmRow
<1>5. s \in Adm
  BY <1>1, <1>3, <1>4 DEF Adm, Admitted
<1>6. r = NoAdm \/ r = s
  BY <1>1 DEF AdmRow
<1> QED
  BY <1>5, <1>6, Idle

\* An actor takes a workflow from those it still has to see.
LEMMA TakeShape ==
  ASSUME Shape, NEW a \in Actor, NEW w \in Wf, adm[a].pc \in {"claim", "route"},
         NEW v \in {"load", "reserve"}
  PROVE  [adm[a] EXCEPT !.pc = v, !.todo = adm[a].todo \ {w}, !.w = w] \in Adm
<1> DEFINE s == [[[adm[a] EXCEPT !.pc = v] EXCEPT !.todo = adm[a].todo \ {w}] EXCEPT !.w = w]
<1>1. adm[a] \in AdmRow /\ adm[a].p \in Proc
  BY DEF Shape, Adm
<1>2. adm[a].todo \ {w} \in SUBSET Wf
  BY <1>1 DEF AdmRow
<1>3. s \in AdmRow
  BY <1>1, <1>2, RowStages DEF Steps
<1>4. s.p = adm[a].p /\ s.w = w
  BY <1>1 DEF AdmRow
<1>5. s \in Adm
  BY <1>1, <1>3, <1>4 DEF Adm
<1>6. s = [adm[a] EXCEPT !.pc = v, !.todo = adm[a].todo \ {w}, !.w = w]
  BY <1>1 DEF AdmRow
<1> QED
  BY <1>5, <1>6

\* The ticker keeps the shape of the variables.
LEMMA TickShape ==
  ASSUME Shape, NEW p \in Proc,
         Tick(p) \/ \E w \in Wf : ClaimFails(p, w)
  PROVE  Shape'
<1>0. p \in Actor
  BY DEF Actor
<1>1. CASE Scan(p)
  <2> DEFINE r == [NoAdm EXCEPT !.pc = "claim", !.p = p, !.src = "schedule",
                                !.todo = {w \in Wf : Due(w, now)}, !.at = now]
  <2>1. r \in Adm
    BY DEF Shape, NoAdm, Adm, AdmRow, Steps, None, Admitted
  <2> QED
    BY <1>0, <1>1, <2>1, OnlyAdmShape DEF Scan, Memory
<1>2. CASE Load(p)
  <2>1. CASE Enabled(adm[p].w)
    <3>1. adm[p].pc = "load" /\ adm' = [adm EXCEPT ![p] = [adm[p] EXCEPT !.pc = "reserve"]]
      BY <1>2, <2>1 DEF Load
    <3>2. [adm[p] EXCEPT !.pc = "reserve"] \in Adm
      BY <1>0, <3>1, PcShape DEF Steps, Shape, Adm
    <3> QED
      BY <1>0, <1>2, <3>1, <3>2, OnlyAdmShape DEF Load, Memory
  <2>2. CASE ~Enabled(adm[p].w)
    <3>1. adm[p].pc = "load" /\ adm' = [adm EXCEPT ![p] = Over(p)]
      BY <1>2, <2>2 DEF Load
    <3> QED
      BY <1>0, <1>2, <3>1, OverShape, OnlyAdmShape DEF Load, Memory
  <2> QED
    BY <2>1, <2>2
<1>3. ASSUME NEW w \in Wf, ClaimFails(p, w) PROVE Shape'
  <2>1. adm[p].pc = "claim" /\ w \in adm[p].todo
    BY <1>3 DEF ClaimFails
  <2>2. PICK r : adm' = [adm EXCEPT ![p] = r] /\ r = LET rest == [adm[p] EXCEPT !.todo = @ \ {w}]
                                                     IN  IF rest.todo = {} THEN NoAdm ELSE rest
    BY <1>3 DEF ClaimFails
  <2>3. r \in Adm
    BY <1>0, <2>1, <2>2, DropShape
  <2>4. adm' \in [Actor -> Adm]
    BY <1>0, <2>2, <2>3, AdmShape
  <2>5. faults' \in 0..MaxFaults
        /\ UNCHANGED <<now, wf, trig, ed, edits, idem, seen, runs, capLock, hist>>
    BY <1>3, TriggersAssumption DEF ClaimFails, DB, Memory, Shape
  <2> QED
    BY <2>4, <2>5 DEF Shape
<1>4. ASSUME NEW w \in Wf, Claim(p, w) PROVE Shape'
  <2>1. /\ adm[p].pc = "claim" /\ w \in adm[p].todo
        /\ UNCHANGED <<now, wf, ed, edits, idem, seen, runs, capLock, faults>>
    BY <1>4 DEF Claim, Memory
  <2>2. CASE Claimable(w, adm[p].at)
    <3> DEFINE t == adm[p].at
    <3>1. /\ trig' = [trig EXCEPT ![w].next = Advance(w, t)]
          /\ hist' = [hist EXCEPT !.last[w] = Max({hist.last[w], t}),
                                  !.late[w] = hist.late[w] /\ Advance(w, t) <= hist.last[w]]
          /\ adm' = [adm EXCEPT ![p] = [adm[p] EXCEPT !.pc = "load", !.todo = adm[p].todo \ {w}, !.w = w]]
      BY <1>4, <2>2 DEF Claim
    <3>2. t \in 0..MaxNow /\ hist.last[w] \in 0..MaxNow /\ MaxNow \in Nat
      BY <1>0, TriggersAssumption DEF Shape, Adm, AdmRow
    <3>3. Max({hist.last[w], t}) \in 0..MaxNow
      BY <3>2, MaxOfTwo
    <3>4. Advance(w, t) \in Windows \cup {0}
      BY <3>2, NextFireAhead DEF Advance
    <3>5. adm' \in [Actor -> Adm]
      <4>1. [adm[p] EXCEPT !.pc = "load", !.todo = adm[p].todo \ {w}, !.w = w] \in Adm
        BY <1>0, <2>1, TakeShape
      <4> QED
        BY <1>0, <3>1, <4>1, AdmShape
    <3> HIDE DEF t
    <3>6. trig' \in [Wf -> [type : Kinds, on : BOOLEAN, next : Windows \cup {0},
                            tok : BOOLEAN, team : BOOLEAN]]
      <4>1. [trig[w] EXCEPT !.next = Advance(w, t)] \in
              [type : Kinds, on : BOOLEAN, next : Windows \cup {0}, tok : BOOLEAN, team : BOOLEAN]
        BY <3>4 DEF Shape
      <4> QED
        BY <3>1, <4>1 DEF Shape
    <3>7. hist' \in [last : [Wf -> 0..MaxNow], late : [Wf -> BOOLEAN],
                     forgot : SUBSET (Proc \X Nat \X Msg), boot : [Proc -> Nat]]
      <4> DEFINE la == [hist.last EXCEPT ![w] = Max({hist.last[w], t})]
                 lt == [hist.late EXCEPT ![w] = hist.late[w] /\ Advance(w, t) <= hist.last[w]]
      <4>1. la \in [Wf -> 0..MaxNow]
        BY <3>3 DEF Shape
      <4>2. lt \in [Wf -> BOOLEAN]
        BY DEF Shape
      <4>3. hist' = [[hist EXCEPT !.last = la] EXCEPT !.late = lt]
        BY <3>1 DEF Shape
      <4> QED
        BY <4>1, <4>2, <4>3 DEF Shape
    <3> QED
      BY <2>1, <3>5, <3>6, <3>7 DEF Shape
  <2>3. CASE ~Claimable(w, adm[p].at)
    <3>1. PICK r : adm' = [adm EXCEPT ![p] = r] /\ r = LET rest == [adm[p] EXCEPT !.todo = @ \ {w}]
                                                       IN  IF rest.todo = {} THEN NoAdm ELSE rest
      BY <1>4, <2>3 DEF Claim
    <3>2. r \in Adm
      BY <1>0, <2>1, <3>1, DropShape
    <3> QED
      BY <1>0, <1>4, <2>1, <2>3, <3>1, <3>2, OnlyAdmShape DEF Claim, DB
  <2> QED
    BY <2>2, <2>3
<1> QED
  BY <1>1, <1>2, <1>3, <1>4 DEF Tick

\* A memory to which an entry is added keeps it or gives up its oldest one.
LEMMA PushShape ==
  ASSUME NEW S, NEW q \in Seq(S), NEW e \in S
  PROVE  /\ Append(q, e) \in Seq(S)
         /\ Tail(Append(q, e)) \in Seq(S)
         /\ Head(Append(q, e)) \in S
<1>1. Append(q, e) \in Seq(S) /\ Len(Append(q, e)) = Len(q) + 1 /\ Len(q) \in Nat
  OBVIOUS
<1>2. Append(q, e) # <<>>
  BY <1>1, Len(Append(q, e)) # 0
<1> QED
  BY <1>1, <1>2

\* Arrivals and the reads of a request keep the shape of the variables.
LEMMA RequestShape ==
  ASSUME Shape, NEW r \in Req, Serve(r) \/ \E p \in Proc : Arrive(r, p)
  PROVE  Shape'
<1>0. r \in Actor
  BY DEF Actor
<1>1. CASE Lookup(r)
  <2>1. adm[r].pc = "lookup" /\ adm[r] \in AdmRow /\ adm[r].p \in Proc /\ adm[r].w \in Wf
    BY <1>0, <1>1 DEF Lookup, Shape, Adm
  <2> DEFINE s == [[adm[r] EXCEPT !.pc = "check"] EXCEPT !.ok = Enabled(adm[r].w)]
  <2>2. Enabled(adm[r].w) \in BOOLEAN
    BY <2>1 DEF Enabled, Shape
  <2>3. s \in AdmRow
    BY <2>1, <2>2, RowStages DEF Steps
  <2>4. s.p \in Proc /\ s.w \in Wf /\ s = [adm[r] EXCEPT !.pc = "check", !.ok = Enabled(adm[r].w)]
    BY <2>1 DEF AdmRow
  <2>5. s \in Adm
    BY <2>3, <2>4 DEF Adm
  <2> HIDE DEF s
  <2>6. adm' = [adm EXCEPT ![r] = s] \/ adm' = [adm EXCEPT ![r] = NoAdm]
    BY <1>1, <2>4 DEF Lookup
  <2> QED
    BY <1>0, <1>1, <2>5, <2>6, Idle, OnlyAdmShape DEF Lookup, Memory
<1>2. CASE Check(r)
  <2>1. adm[r].pc = "check" /\ adm[r].w \in Wf
    BY <1>0, <1>2 DEF Check, Shape, Adm
  <2>2. [adm[r] EXCEPT !.pc = "reserve"] \in Adm
    BY <1>0, <2>1, PcShape DEF Steps
  <2>3. adm' = [adm EXCEPT ![r] = NoAdm] \/ adm' = [adm EXCEPT ![r] = [adm[r] EXCEPT !.pc = "reserve"]]
    BY <1>2 DEF Check
  <2> QED
    BY <1>0, <1>2, <2>2, <2>3, Idle, OnlyAdmShape DEF Check, Memory
<1>3. CASE ListTriggers(r)
  <2> DEFINE bound == {w \in Wf : trig[w].type = "slack" /\ trig[w].on /\ trig[w].team /\ Enabled(w)}
             s == [[adm[r] EXCEPT !.pc = "route"] EXCEPT !.todo = bound]
  <2>1. adm[r].pc = "list" /\ adm[r] \in AdmRow /\ adm[r].p \in Proc
    BY <1>0, <1>3 DEF ListTriggers, Shape, Adm
  <2>2. bound \in SUBSET Wf
    OBVIOUS
  <2>3. adm' = [adm EXCEPT ![r] = NoAdm]
        \/ adm' = [adm EXCEPT ![r] = [adm[r] EXCEPT !.pc = "route", !.todo = bound]]
    BY <1>3 DEF ListTriggers
  <2> HIDE DEF bound
  <2>4. s \in AdmRow
    BY <2>1, <2>2, RowStages DEF Steps
  <2>5. s.pc = "route" /\ s.p \in Proc /\ s = [adm[r] EXCEPT !.pc = "route", !.todo = bound]
    BY <2>1 DEF AdmRow
  <2>6. s \in Adm
    BY <2>4, <2>5 DEF Adm, Admitted
  <2> HIDE DEF s
  <2> QED
    BY <1>0, <1>3, <2>3, <2>5, <2>6, Idle, OnlyAdmShape DEF ListTriggers, Memory
<1>4. ASSUME NEW w \in Wf, Route(r, w) PROVE Shape'
  <2>1. adm[r].pc = "route" /\ UNCHANGED <<DB, idem, seen, runs, capLock, faults, hist>>
    BY <1>4 DEF Route, Memory
  <2>2. CASE adm' = [adm EXCEPT ![r].pc = "reserve", ![r].w = w, ![r].todo = @ \ {w}]
    <3> DEFINE s == [adm[r] EXCEPT !.pc = "reserve", !.todo = adm[r].todo \ {w}, !.w = w]
    <3>1. s \in Adm
      BY <1>0, <2>1, TakeShape
    <3>2. adm' = [adm EXCEPT ![r] = s]
      BY <1>0, <2>2 DEF Shape, Adm, AdmRow
    <3> QED
      BY <1>0, <2>1, <3>1, <3>2, OnlyAdmShape
  <2>3. CASE adm' = [adm EXCEPT ![r] = LET rest == [adm[r] EXCEPT !.todo = @ \ {w}]
                                       IN  IF rest.todo = {} THEN NoAdm ELSE rest]
    <3>1. PICK s : adm' = [adm EXCEPT ![r] = s] /\ s = LET rest == [adm[r] EXCEPT !.todo = @ \ {w}]
                                                       IN  IF rest.todo = {} THEN NoAdm ELSE rest
      BY <2>3
    <3> QED
      BY <1>0, <2>1, <3>1, DropShape, OnlyAdmShape
  <2> QED
    BY <1>4, <2>2, <2>3 DEF Route
<1>5. ASSUME NEW p \in Proc, NEW w \in Wf, NEW k \in Key, Deliver(r, p, w, k) PROVE Shape'
  <2> DEFINE h == IF k = None THEN 0 ELSE Recall(p, <<w, k>>)
             s == [NoAdm EXCEPT !.pc = "lookup", !.p = p, !.src = "webhook", !.w = w, !.key = k, !.hit = h]
  <2>1. h \in Nat
    <3>1. CASE Recall(p, <<w, k>>) = 0
      BY <3>1
    <3>2. CASE Recall(p, <<w, k>>) # 0
      <4>1. idem[p] \in Seq(IdemRow)
        BY DEF Shape
      <4>2. PICK j \in DOMAIN idem[p] : idem[p][j].run = Recall(p, <<w, k>>)
        BY <3>2, <4>1, RecallFinds
      <4>3. idem[p][j] \in IdemRow
        BY <4>1
      <4> QED
        BY <4>2, <4>3 DEF IdemRow
    <3> QED
      BY <3>1, <3>2
  <2>2. adm' = [adm EXCEPT ![r] = s]
    BY <1>5 DEF Deliver
  <2> HIDE DEF h
  <2>3. s \in Adm
    <3>1. 0 \in 0..MaxNow
      BY TriggersAssumption
    <3> QED
      BY <2>1, <3>1 DEF NoAdm, Adm, AdmRow, Steps, None, Admitted
  <2> QED
    BY <1>0, <1>5, <2>2, <2>3, OnlyAdmShape DEF Deliver, Memory
<1>6. ASSUME NEW p \in Proc, NEW m \in Msg, NEW kind \in {"app_mention", "message"},
             SlackEvent(r, p, m, kind)
      PROVE  Shape'
  <2> DEFINE id == <<m, kind>>
             all == Append(seen[p], id)
             s == [NoAdm EXCEPT !.pc = "list", !.p = p, !.src = kind, !.msg = m]
  <2>1. adm' = [adm EXCEPT ![r] = s] /\ UNCHANGED <<DB, idem, runs, capLock, faults>>
    BY <1>6 DEF SlackEvent
  <2>2. s \in Adm
    <3>1. 0 \in 0..MaxNow
      BY TriggersAssumption
    <3> QED
      BY <3>1 DEF NoAdm, Adm, AdmRow, Steps, None, Admitted
  <2> HIDE DEF s
  <2>3. adm' \in [Actor -> Adm]
    BY <1>0, <2>1, <2>2, AdmShape
  <2>4. /\ seen[p] \in Seq(Msg \X {"app_mention", "message"}) /\ id \in Msg \X {"app_mention", "message"}
        /\ hist.boot[p] \in Nat /\ hist.forgot \in SUBSET (Proc \X Nat \X Msg)
    BY DEF Shape
  <2>5. /\ all \in Seq(Msg \X {"app_mention", "message"})
        /\ Tail(all) \in Seq(Msg \X {"app_mention", "message"})
        /\ Head(all) \in Msg \X {"app_mention", "message"}
    BY <2>4, PushShape
  <2>6. seen' = [seen EXCEPT ![p] = Tail(all)] \/ seen' = [seen EXCEPT ![p] = all]
    BY <1>6 DEF SlackEvent
  <2>7. hist' = hist \/ hist' = [hist EXCEPT !.forgot = hist.forgot \cup {<<p, hist.boot[p], Head(all)[1]>>}]
    BY <1>6 DEF SlackEvent
  <2> HIDE DEF all, id
  <2>8. seen' \in [Proc -> Seq(Msg \X {"app_mention", "message"})]
    BY <2>5, <2>6 DEF Shape
  <2>9. hist.forgot \cup {<<p, hist.boot[p], Head(all)[1]>>} \in SUBSET (Proc \X Nat \X Msg)
    <3>1. Head(all)[1] \in Msg
      BY <2>5
    <3> QED
      BY <2>4, <3>1
  <2>10. hist' \in [last : [Wf -> 0..MaxNow], late : [Wf -> BOOLEAN],
                    forgot : SUBSET (Proc \X Nat \X Msg), boot : [Proc -> Nat]]
    BY <2>7, <2>9 DEF Shape
  <2> QED
    BY <2>1, <2>3, <2>8, <2>10 DEF Shape, DB
<1>7. ASSUME NEW p \in Proc, NEW w \in Wf, RunNow(r, p, w) PROVE Shape'
  <2> DEFINE s == [NoAdm EXCEPT !.pc = "reserve", !.p = p, !.src = "manual", !.w = w]
  <2>1. s \in Adm
    <3>1. 0 \in 0..MaxNow
      BY TriggersAssumption
    <3> QED
      BY <3>1 DEF NoAdm, Adm, AdmRow, Steps, None, Admitted
  <2> QED
    BY <1>0, <1>7, <2>1, OnlyAdmShape DEF RunNow, Memory
<1> QED
  BY <1>1, <1>2, <1>3, <1>4, <1>5, <1>6, <1>7 DEF Serve, Arrive

\* Drivers settle, give back and take up runs.
LEMMA DriverShape ==
  ASSUME Shape, NEW i \in DOMAIN runs,
         Settle(i) \/ Release(i) \/ \E p \in Proc : Adopt(p, i)
  PROVE  Shape'
<1>1. runs' \in Seq(RunRow)
  <2>1. \/ runs' = [runs EXCEPT ![i].live = FALSE]
        \/ \E p \in Proc \cup {None} : runs' = [runs EXCEPT ![i].drv = p]
    BY DEF Settle, Release, Adopt
  <2>2. CASE runs' = [runs EXCEPT ![i].live = FALSE]
    BY <2>2, RunsShape
  <2>3. CASE \E p \in Proc \cup {None} : runs' = [runs EXCEPT ![i].drv = p]
    BY <2>3, RunsShape
  <2> QED
    BY <2>1, <2>2, <2>3
<1>2. UNCHANGED <<now, wf, trig, ed, edits, idem, seen, adm, capLock, faults, hist>>
  BY DEF Settle, Release, Adopt, DB, Memory
<1> QED
  BY <1>1, <1>2 DEF Shape

\* An edit under way turns to its next step, with the cursor it computed.
LEMMA EdStages ==
  ASSUME NEW s \in EdSlot, s.pc # "idle"
  PROVE  /\ \A pc \in {"sync", "token", "team"} : [s EXCEPT !.pc = pc] \in EdSlot
         /\ \A t \in Kinds, n \in Windows \cup {0} :
              [s EXCEPT !.pc = "mirror", !.type = t, !.next = n] \in EdSlot
         /\ \A b \in BOOLEAN, n \in Windows \cup {0} :
              [s EXCEPT !.pc = "commit", !.to = b, !.next = n] \in EdSlot
BY DEF EdSlot, EdRow

\* Rows of triggers.
TrigRow == [type : Kinds, on : BOOLEAN, next : Windows \cup {0}, tok : BOOLEAN, team : BOOLEAN]

\* What an edit writes keeps the shape of the variables.
LEMMA EditShape ==
  ASSUME Shape, NEW e \in Ed, Edit(e)
  PROVE  Shape'
<1> DEFINE w == ed[e].w
<1>0. ed[e].pc # "idle" /\ ed[e] \in EdSlot /\ w \in Wf
      /\ ed[e].type \in Kinds /\ ed[e].to \in BOOLEAN /\ ed[e].next \in Windows \cup {0}
  BY DEF Edit, PatchWrite, SyncRead, SyncWrite, PublishRead, PublishCommit, UpsertType, SetToken, SetSlackBinding,
         Shape, EdSlot, EdRow
<1>1. NextFire(now) \in Windows \cup {0}
  BY NextFireAhead, TriggersAssumption DEF Shape
<1>2. trig \in [Wf -> TrigRow] /\ trig[w] \in TrigRow
  BY <1>0 DEF Shape, TrigRow
<1>3. \A n \in Windows \cup {0} : LateMark(w, n) \in
        [last : [Wf -> 0..MaxNow], late : [Wf -> BOOLEAN],
         forgot : SUBSET (Proc \X Nat \X Msg), boot : [Proc -> Nat]]
  <2> TAKE n \in Windows \cup {0}
  <2> DEFINE lt == [hist.late EXCEPT ![w] = n # 0 /\ n <= hist.last[w]]
  <2>1. lt \in [Wf -> BOOLEAN]
    BY DEF Shape
  <2>2. LateMark(w, n) = [hist EXCEPT !.late = lt]
    BY DEF LateMark, Shape
  <2> QED
    BY <2>1, <2>2 DEF Shape
<1>4. CASE PatchWrite(e)
  <2>1. UNCHANGED <<now, trig, edits, idem, seen, runs, adm, capLock, faults, hist>>
    BY <1>4 DEF PatchWrite, NotEditing, Memory
  <2>2. [wf[w] EXCEPT !.on = ed[e].to] \in [on : BOOLEAN, draft : Kinds]
    BY <1>0 DEF Shape
  <2>3. wf' = [wf EXCEPT ![w] = [wf[w] EXCEPT !.on = ed[e].to]]
    BY <1>4 DEF PatchWrite
  <2>4. ed' = [ed EXCEPT ![e] = [ed[e] EXCEPT !.pc = "sync"]] \/ ed' = [ed EXCEPT ![e] = NoEdit]
    BY <1>4 DEF PatchWrite
  <2>5. ed' \in [Ed -> EdSlot]
    BY <1>0, <2>4, EdStages, Idle DEF Shape
  <2>6. wf' \in [Wf -> [on : BOOLEAN, draft : Kinds]]
    BY <2>2, <2>3 DEF Shape
  <2> QED
    BY <2>1, <2>5, <2>6 DEF Shape
<1>5. CASE SyncRead(e)
  <2> DEFINE n == IF ed[e].to THEN NextFire(now) ELSE 0
  <2>1. UNCHANGED <<now, wf, trig, edits, idem, seen, runs, adm, capLock, faults, hist>>
    BY <1>5 DEF SyncRead, NotEditing, Memory
  <2>2. n \in Windows \cup {0} /\ trig[w].type \in Kinds
    BY <1>1, <1>2 DEF TrigRow
  <2>3. ed' = [ed EXCEPT ![e] = [ed[e] EXCEPT !.pc = "mirror", !.type = trig[w].type, !.next = n]]
    BY <1>5 DEF SyncRead
  <2> HIDE DEF n
  <2>4. ed' \in [Ed -> EdSlot]
    BY <1>0, <2>2, <2>3, EdStages DEF Shape
  <2> QED
    BY <2>1, <2>4 DEF Shape
<1>6. CASE SyncWrite(e)
  <2> DEFINE n == IF ed[e].type = "schedule" THEN ed[e].next ELSE trig[w].next
  <2>1. UNCHANGED <<now, wf, edits, idem, seen, runs, adm, capLock, faults>>
    BY <1>6 DEF SyncWrite, NotEditing, Memory
  <2>2. n \in Windows \cup {0}
    BY <1>0, <1>2 DEF TrigRow
  <2>3. /\ trig' = [trig EXCEPT ![w] = [trig[w] EXCEPT !.on = ed[e].to, !.next = n]]
        /\ hist' = hist \/ hist' = LateMark(w, n)
        /\ ed' = [ed EXCEPT ![e] = NoEdit]
    BY <1>0, <1>2, <1>6 DEF SyncWrite, TrigRow
  <2> HIDE DEF n
  <2>4. [trig[w] EXCEPT !.on = ed[e].to, !.next = n] \in TrigRow
    BY <1>0, <1>2, <2>2 DEF TrigRow
  <2>5. trig' \in [Wf -> TrigRow]
    BY <1>2, <2>3, <2>4
  <2>6. ed' \in [Ed -> EdSlot]
    BY <2>3, Idle DEF Shape
  <2>7. hist' \in [last : [Wf -> 0..MaxNow], late : [Wf -> BOOLEAN],
                   forgot : SUBSET (Proc \X Nat \X Msg), boot : [Proc -> Nat]]
    BY <1>3, <2>2, <2>3 DEF Shape
  <2> QED
    BY <2>1, <2>5, <2>6, <2>7 DEF Shape, TrigRow
<1>7. CASE PublishRead(e)
  <2> DEFINE n == IF ed[e].type = "schedule" /\ wf[w].on THEN NextFire(now) ELSE 0
  <2>1. UNCHANGED <<now, wf, trig, edits, idem, seen, runs, adm, capLock, faults, hist>>
    BY <1>7 DEF PublishRead, NotEditing, Memory
  <2>2. n \in Windows \cup {0} /\ wf[w].on \in BOOLEAN
    BY <1>0, <1>1 DEF Shape
  <2>3. ed' = [ed EXCEPT ![e] = [ed[e] EXCEPT !.pc = "commit", !.to = wf[w].on, !.next = n]]
    BY <1>7 DEF PublishRead
  <2> HIDE DEF n
  <2>4. ed' \in [Ed -> EdSlot]
    BY <1>0, <2>2, <2>3, EdStages DEF Shape
  <2> QED
    BY <2>1, <2>4 DEF Shape
<1>8. CASE PublishCommit(e)
  <2> DEFINE t == ed[e].type
             r == [type |-> t, on |-> ed[e].to, next |-> ed[e].next,
                   tok |-> trig[w].tok /\ t = "webhook", team |-> trig[w].team /\ t = "slack"]
  <2>1. UNCHANGED <<now, wf, edits, idem, seen, runs, adm, capLock, faults>>
    BY <1>8 DEF PublishCommit, NotEditing, Memory
  <2>2. /\ trig' = [trig EXCEPT ![w] = r]
        /\ hist' = LateMark(w, ed[e].next)
        /\ ed' = [ed EXCEPT ![e] = NoEdit]
    BY <1>8 DEF PublishCommit
  <2>3. r \in TrigRow
    BY <1>0, <1>2 DEF TrigRow
  <2> HIDE DEF r
  <2>4. trig' \in [Wf -> TrigRow]
    BY <1>2, <2>2, <2>3
  <2>5. ed' \in [Ed -> EdSlot]
    BY <2>2, Idle DEF Shape
  <2>6. hist' \in [last : [Wf -> 0..MaxNow], late : [Wf -> BOOLEAN],
                   forgot : SUBSET (Proc \X Nat \X Msg), boot : [Proc -> Nat]]
    BY <1>0, <1>3, <2>2
  <2> QED
    BY <2>1, <2>4, <2>5, <2>6 DEF Shape, TrigRow
<1>9. CASE UpsertType(e) \/ SetToken(e) \/ SetSlackBinding(e)
  <2>1. UNCHANGED <<now, wf, edits, idem, seen, runs, adm, capLock, faults, hist>>
    BY <1>9 DEF UpsertType, SetToken, SetSlackBinding, NotEditing, Memory
  <2>2. ed' \in [Ed -> EdSlot]
    <3>1. \/ ed' = [ed EXCEPT ![e] = NoEdit]
          \/ ed' = [ed EXCEPT ![e] = [ed[e] EXCEPT !.pc = "token"]]
          \/ ed' = [ed EXCEPT ![e] = [ed[e] EXCEPT !.pc = "team"]]
      BY <1>9 DEF UpsertType, SetToken, SetSlackBinding
    <3> QED
      BY <1>0, <3>1, EdStages, Idle DEF Shape
  <2>3. \/ trig' = trig
        \/ \E r \in TrigRow : trig' = [trig EXCEPT ![w] = r]
    <3>1. CASE UpsertType(e)
      <4>1. \A t \in Kinds : [trig[w] EXCEPT !.type = t] \in TrigRow
        BY <1>2 DEF TrigRow
      <4>2. "webhook" \in Kinds /\ "slack" \in Kinds
        BY DEF Kinds
      <4>3. \/ trig' = trig
            \/ trig' = [trig EXCEPT ![w] = [trig[w] EXCEPT !.type = "webhook"]]
            \/ trig' = [trig EXCEPT ![w] = [trig[w] EXCEPT !.type = "slack"]]
        BY <3>1 DEF UpsertType
      <4> QED
        BY <4>1, <4>2, <4>3
    <3>2. CASE SetToken(e)
      <4>1. [trig[w] EXCEPT !.type = "webhook", !.on = TRUE, !.tok = TRUE, !.team = FALSE] \in TrigRow
        BY <1>2 DEF TrigRow, Kinds
      <4> QED
        BY <3>2, <4>1 DEF SetToken
    <3>3. CASE SetSlackBinding(e)
      <4>1. [trig[w] EXCEPT !.type = "slack", !.on = TRUE, !.tok = FALSE, !.team = TRUE] \in TrigRow
        BY <1>2 DEF TrigRow, Kinds
      <4> QED
        BY <3>3, <4>1 DEF SetSlackBinding
    <3> QED
      BY <1>9, <3>1, <3>2, <3>3
  <2>4. trig' \in [Wf -> TrigRow]
    BY <1>2, <2>3
  <2> QED
    BY <2>1, <2>2, <2>4 DEF Shape, TrigRow
<1> QED
  BY <1>4, <1>5, <1>6, <1>7, <1>8, <1>9 DEF Edit

\* The edits that begin, and those that are one update.
LEMMA OtherEditShape ==
  ASSUME Shape, NEW w \in Wf,
         \/ \E e \in Ed : Begin(e, w)
         \/ \E t \in Types : SaveDraft(w, t)
  PROVE  Shape'
<1>0. edits < MaxEdits => edits + 1 \in 0..MaxEdits
  BY TriggersAssumption DEF Shape
<1>1. ASSUME NEW e \in Ed, Begin(e, w) PROVE Shape'
  <2>1. PICK pc \in {"patch", "publish", "mint", "bind"}, b \in BOOLEAN : BeginEdit(e, pc, w, b)
    BY <1>1 DEF Begin
  <2> DEFINE s == [NoEdit EXCEPT !.pc = pc, !.w = w, !.to = b, !.was = wf[w].on, !.type = wf[w].draft]
  <2>2. wf[w].on \in BOOLEAN /\ wf[w].draft \in Kinds
    BY DEF Shape
  <2>3. s \in EdSlot
    BY <2>2 DEF NoEdit, EdSlot, EdRow, None
  <2>4. /\ edits' \in 0..MaxEdits /\ ed' = [ed EXCEPT ![e] = s]
        /\ UNCHANGED <<now, wf, trig, idem, seen, runs, adm, capLock, faults, hist>>
    BY <1>0, <2>1 DEF BeginEdit, NotEditing, Memory
  <2> HIDE DEF s
  <2>5. ed' \in [Ed -> EdSlot]
    BY <2>3, <2>4 DEF Shape
  <2> QED
    BY <2>4, <2>5 DEF Shape
<1>2. ASSUME NEW t \in Types, SaveDraft(w, t) PROVE Shape'
  <2>1. /\ edits' \in 0..MaxEdits /\ wf' = [wf EXCEPT ![w] = [wf[w] EXCEPT !.draft = t]]
        /\ UNCHANGED <<now, trig, ed, idem, seen, runs, adm, capLock, faults, hist>>
    BY <1>0, <1>2 DEF SaveDraft, NotEditing, Memory
  <2>2. [wf[w] EXCEPT !.draft = t] \in [on : BOOLEAN, draft : Kinds]
    <3>1. t \in Kinds
      BY TriggersAssumption DEF Kinds
    <3> QED
      BY <3>1 DEF Shape
  <2>3. wf' \in [Wf -> [on : BOOLEAN, draft : Kinds]]
    BY <2>1, <2>2 DEF Shape
  <2> QED
    BY <2>1, <2>3 DEF Shape
<1> QED
  BY <1>1, <1>2

\* What a crash leaves of the runs: the same rows, some without a driver.
LEMMA CrashRuns ==
  ASSUME Shape, NEW p \in Proc, Crash(p)
  PROVE  /\ runs' \in Seq(RunRow) /\ DOMAIN runs' = DOMAIN runs /\ Len(runs') = Len(runs)
         /\ \A i \in DOMAIN runs :
              /\ runs'[i].w = runs[i].w /\ runs'[i].live = runs[i].live
              /\ runs'[i].msg = runs[i].msg /\ runs'[i].by = runs[i].by
              /\ \/ runs'[i] = runs[i] /\ runs[i].drv # p
                    /\ \A a \in Actor : adm[a].p = p /\ adm[a].pc = "launch" => adm[a].run # i
                 \/ /\ runs'[i].drv = None /\ runs'[i].lost
                    /\ \/ runs[i].drv = p
                       \/ \E a \in Actor : adm[a].p = p /\ adm[a].pc = "launch" /\ adm[a].run = i
<1> DEFINE Hit(i) == runs[i].drv = p \/ \E a \in {b \in Actor : adm[b].p = p} :
                       adm[a].pc = "launch" /\ adm[a].run = i
           f(i) == IF Hit(i) THEN [runs[i] EXCEPT !.drv = None, !.lost = TRUE] ELSE runs[i]
<1>1. runs' = [i \in DOMAIN runs |-> f(i)]
  BY DEF Crash
<1>2. \A i \in DOMAIN runs : runs[i] \in RunRow
  BY DEF Shape
<1>3. ASSUME NEW i \in DOMAIN runs
      PROVE  /\ f(i) \in RunRow
             /\ f(i).w = runs[i].w /\ f(i).live = runs[i].live
             /\ f(i).msg = runs[i].msg /\ f(i).by = runs[i].by
             /\ \/ f(i) = runs[i] /\ ~Hit(i)
                \/ f(i).drv = None /\ f(i).lost /\ Hit(i)
  BY <1>2, <1>3 DEF RunRow
<1>4. \A i \in DOMAIN runs : runs'[i] = f(i)
  BY <1>1
<1>5. \A i \in DOMAIN runs : Hit(i) <=>
        (runs[i].drv = p \/ \E a \in Actor : adm[a].p = p /\ adm[a].pc = "launch" /\ adm[a].run = i)
  OBVIOUS
<1> HIDE DEF f, Hit
<1>6. DOMAIN runs = 1..Len(runs) /\ Len(runs) \in Nat
  BY DEF Shape
<1>7. runs' \in Seq(RunRow) /\ Len(runs') = Len(runs)
  BY <1>1, <1>3, <1>6
<1> QED
  BY <1>3, <1>4, <1>5, <1>6, <1>7

\* What a crash leaves of what the actors do.
LEMMA CrashAdm ==
  ASSUME Shape, NEW p \in Proc, Crash(p)
  PROVE  /\ adm' \in [Actor -> Adm]
         /\ \A a \in Actor : adm'[a] = IF adm[a].p = p THEN NoAdm ELSE adm[a]
BY Idle DEF Crash, Shape

\* A crash forgets no message by itself, and begins another life of its
\* process.
LEMMA CrashHist ==
  ASSUME Shape, NEW p \in Proc, Crash(p)
  PROVE  /\ hist'.forgot = hist.forgot
         /\ \A q \in Proc : hist'.boot[q] = IF q = p THEN hist.boot[p] + 1 ELSE hist.boot[q]
         /\ \A q \in Proc : hist.boot[q] \in Nat
         /\ \A q \in Proc \ {p} : seen'[q] = seen[q]
<1>1. idem' = [idem EXCEPT ![p] = <<>>] /\ seen' = [seen EXCEPT ![p] = <<>>]
  BY DEF Crash
<1>2. \A q \in Proc \ {p} : seen'[q] = seen[q]
  BY <1>1 DEF Shape
<1>3. hist.boot \in [Proc -> Nat]
  BY DEF Shape
<1> DEFINE bt == [hist.boot EXCEPT ![p] = hist.boot[p] + 1]
<1>4. hist' = [hist EXCEPT !.boot = bt]
  BY DEF Crash, Shape
<1>5. \A q \in Proc : bt[q] = IF q = p THEN hist.boot[p] + 1 ELSE hist.boot[q]
  BY <1>3
<1> HIDE DEF bt
<1>6. hist'.forgot = hist.forgot /\ hist'.boot = bt
  BY <1>4 DEF Shape
<1> QED
  BY <1>3, <1>5, <1>6, <1>2

\* A crash keeps the shape of the variables.
LEMMA CrashShape ==
  ASSUME Shape, NEW p \in Proc, Crash(p)
  PROVE  Shape'
<1>1. faults' \in 0..MaxFaults /\ UNCHANGED <<now, wf, trig, edits>>
  <2>1. faults < MaxFaults /\ faults' = faults + 1 /\ UNCHANGED <<now, wf, trig, edits>>
    BY DEF Crash
  <2> QED
    BY <2>1, TriggersAssumption DEF Shape
<1>2. capLock' \in Actor \cup {None}
  BY DEF Crash, Shape
<1>3. idem' \in [Proc -> Seq(IdemRow)] /\ seen' \in [Proc -> Seq(Msg \X {"app_mention", "message"})]
  <2>1. idem' = [idem EXCEPT ![p] = <<>>] /\ seen' = [seen EXCEPT ![p] = <<>>]
    BY DEF Crash
  <2>2. <<>> \in Seq(IdemRow) /\ <<>> \in Seq(Msg \X {"app_mention", "message"})
    OBVIOUS
  <2> QED
    BY <2>1, <2>2 DEF Shape
<1>4. hist' \in [last : [Wf -> 0..MaxNow], late : [Wf -> BOOLEAN],
                 forgot : SUBSET (Proc \X Nat \X Msg), boot : [Proc -> Nat]]
  <2> DEFINE bt == [hist.boot EXCEPT ![p] = hist.boot[p] + 1]
  <2>1. bt \in [Proc -> Nat]
    BY DEF Shape
  <2>2. hist' = [hist EXCEPT !.boot = bt]
    BY DEF Crash, Shape
  <2> QED
    BY <2>1, <2>2 DEF Shape
<1>5. ed' \in [Ed -> EdSlot]
  <2>1. PICK gone \in SUBSET Ed : ed' = [e \in Ed |-> IF e \in gone THEN NoEdit ELSE ed[e]]
    BY DEF Crash
  <2> QED
    BY <2>1, Idle DEF Shape
<1> QED
  BY <1>1, <1>2, <1>3, <1>4, <1>5, CrashRuns, CrashAdm DEF Shape

\* The clock, and a step of something else, keep the shape of the variables.
LEMMA ClockShape ==
  ASSUME Shape, Clock \/ UNCHANGED vars
  PROVE  Shape'
<1>1. now' \in 0..MaxNow
  BY TriggersAssumption DEF Shape, Clock, vars
<1>2. UNCHANGED <<wf, trig, ed, edits, idem, seen, runs, adm, capLock, faults, hist>>
  BY DEF Clock, vars, Memory
<1> QED
  BY <1>1, <1>2 DEF Shape

\* Every step keeps the shape of the variables.
LEMMA ShapeStep ==
  ASSUME Shape, [Next]_vars,
         \A a \in Actor : adm[a].pc = "launch" => adm[a].run \in DOMAIN runs
  PROVE  Shape'
BY AdmitShape, TickShape, RequestShape, DriverShape, EditShape, OtherEditShape,
   CrashShape, ClockShape DEF Next

-----------------------------------------------------------------------------
(* The steps, by what they do to runs, locks and connections.              *)

\* The steps of a dispatch that has a connection.
Held == Admitted \cup {"launch"}

\* Actor a does something that touches neither a run nor a lock.
Aside(a) ==
    /\ adm[a].pc \notin Held /\ adm'[a].pc \notin Held
    /\ \A b \in Actor \ {a} : adm'[b] = adm[b]
    /\ UNCHANGED <<runs, capLock, pins>>

\* The actors' steps outside admission, and a refusal for want of a
\* connection, are of that kind.
LEMMA AsideSteps ==
  ASSUME Shape,
         \/ \E a \in Actor : Exhausted(a)
         \/ \E p \in Proc : Tick(p) \/ \E w \in Wf : ClaimFails(p, w)
         \/ \E r \in Req : Serve(r) \/ \E p \in Proc : Arrive(r, p)
  PROVE  \E a \in Actor : Aside(a)
<1>0. Proc \subseteq Actor /\ Req \subseteq Actor
  BY DEF Actor
<1>1. ASSUME NEW a \in Actor, adm[a].pc \notin Held,
             NEW r, r.pc \notin Held, adm' = [adm EXCEPT ![a] = r],
             UNCHANGED <<runs, capLock, pins>>
      PROVE  Aside(a)
  BY <1>1 DEF Aside, Shape
<1>2. \A a \in Actor : adm[a].pc # "idle" => Over(a).pc \notin Held
  BY OverShape DEF Held, Admitted
<1>3. NoAdm.pc \notin Held
  BY DEF NoAdm, Held, Admitted
<1>4. \A a \in Actor, v \in Steps : [adm[a] EXCEPT !.pc = v].pc = v
  BY DEF Shape, Adm, AdmRow
<1>5. ASSUME NEW a \in Actor, Exhausted(a) PROVE Aside(a)
  <2>1. adm[a].pc = "reserve" /\ adm' = [adm EXCEPT ![a] = Over(a)] /\ UNCHANGED <<runs, capLock, pins>>
    BY <1>5 DEF Exhausted
  <2> QED
    BY <1>1, <1>2, <2>1 DEF Held, Admitted
<1>6. ASSUME NEW p \in Proc, Scan(p) PROVE Aside(p)
  <2>1. PICK r : r.pc = "claim" /\ adm' = [adm EXCEPT ![p] = r]
    BY <1>6 DEF Scan, NoAdm
  <2>2. adm[p].pc = "idle" /\ UNCHANGED <<runs, capLock, pins>>
    BY <1>6 DEF Scan
  <2> QED
    BY <1>0, <1>1, <2>1, <2>2 DEF Held, Admitted
<1>7. ASSUME NEW p \in Proc, Load(p) PROVE Aside(p)
  <2>1. adm[p].pc = "load" /\ UNCHANGED <<runs, capLock, pins>>
    BY <1>7 DEF Load
  <2>2. adm' = [adm EXCEPT ![p] = [adm[p] EXCEPT !.pc = "reserve"]] \/ adm' = [adm EXCEPT ![p] = Over(p)]
    BY <1>7 DEF Load
  <2>3. [adm[p] EXCEPT !.pc = "reserve"].pc \notin Held
    BY <1>0, <1>4 DEF Steps, Held, Admitted
  <2>4. adm[p].pc \notin Held /\ Over(p).pc \notin Held
    BY <1>0, <1>2, <2>1 DEF Held, Admitted
  <2> QED
    BY <1>0, <1>1, <2>1, <2>2, <2>3, <2>4
<1>8. ASSUME NEW a \in Actor, NEW w \in Wf, adm[a].pc \in {"claim", "route"},
             adm' = [adm EXCEPT ![a] = LET rest == [adm[a] EXCEPT !.todo = @ \ {w}]
                                       IN  IF rest.todo = {} THEN NoAdm ELSE rest],
             UNCHANGED <<runs, capLock, pins>>
      PROVE  Aside(a)
  <2>1. PICK r : adm' = [adm EXCEPT ![a] = r] /\ r = LET rest == [adm[a] EXCEPT !.todo = @ \ {w}]
                                                     IN  IF rest.todo = {} THEN NoAdm ELSE rest
    BY <1>8
  <2>2. r = NoAdm \/ r = [adm[a] EXCEPT !.todo = adm[a].todo \ {w}]
    BY <1>8, <2>1, DropShape
  <2>3. [adm[a] EXCEPT !.todo = adm[a].todo \ {w}].pc = adm[a].pc
    BY DEF Shape, Adm, AdmRow
  <2>4. r.pc \notin Held /\ adm[a].pc \notin Held
    BY <1>3, <1>8, <2>2, <2>3 DEF Held, Admitted
  <2> QED
    BY <1>1, <1>8, <2>1, <2>4
<1>9. ASSUME NEW a \in Actor, NEW w \in Wf, NEW v \in {"load", "reserve"}, adm[a].pc \in {"claim", "route"},
             adm' = [adm EXCEPT ![a] = [adm[a] EXCEPT !.pc = v, !.todo = adm[a].todo \ {w}, !.w = w]],
             UNCHANGED <<runs, capLock, pins>>
      PROVE  Aside(a)
  <2> DEFINE r == [adm[a] EXCEPT !.pc = v, !.todo = adm[a].todo \ {w}, !.w = w]
  <2>1. r.pc = v
    BY DEF Shape, Adm, AdmRow
  <2> HIDE DEF r
  <2>2. r.pc \notin Held /\ adm[a].pc \notin Held
    BY <1>9, <2>1 DEF Held, Admitted
  <2>3. adm' = [adm EXCEPT ![a] = r]
    BY <1>9 DEF r
  <2> QED
    BY <1>1, <1>9, <2>2, <2>3
<1>10. ASSUME NEW p \in Proc, NEW w \in Wf, Claim(p, w) \/ ClaimFails(p, w) PROVE Aside(p)
  <2>1. adm[p].pc = "claim" /\ UNCHANGED <<runs, capLock, pins>>
    BY <1>10 DEF Claim, ClaimFails
  <2>2. \/ adm' = [adm EXCEPT ![p] = [adm[p] EXCEPT !.pc = "load", !.todo = adm[p].todo \ {w}, !.w = w]]
        \/ adm' = [adm EXCEPT ![p] = LET rest == [adm[p] EXCEPT !.todo = @ \ {w}]
                                     IN  IF rest.todo = {} THEN NoAdm ELSE rest]
    BY <1>10 DEF Claim, ClaimFails
  <2> QED
    BY <1>0, <1>8, <1>9, <2>1, <2>2
<1>11. ASSUME NEW r \in Req, Lookup(r) PROVE Aside(r)
  <2>1. adm[r].pc = "lookup" /\ UNCHANGED <<runs, capLock, pins>>
    BY <1>11 DEF Lookup
  <2>2. \/ adm' = [adm EXCEPT ![r] = [adm[r] EXCEPT !.pc = "check", !.ok = Enabled(adm[r].w)]]
        \/ adm' = [adm EXCEPT ![r] = NoAdm]
    BY <1>11 DEF Lookup
  <2>3. [adm[r] EXCEPT !.pc = "check", !.ok = Enabled(adm[r].w)].pc = "check"
    BY <1>0 DEF Shape, Adm, AdmRow
  <2>4. "check" \notin Held /\ "lookup" \notin Held
    BY DEF Held, Admitted
  <2> QED
    BY <1>0, <1>1, <1>3, <2>1, <2>2, <2>3, <2>4
<1>12. ASSUME NEW r \in Req, Check(r) PROVE Aside(r)
  <2>1. adm[r].pc = "check" /\ UNCHANGED <<runs, capLock, pins>>
    BY <1>12 DEF Check
  <2>2. adm' = [adm EXCEPT ![r] = NoAdm] \/ adm' = [adm EXCEPT ![r] = [adm[r] EXCEPT !.pc = "reserve"]]
    BY <1>12 DEF Check
  <2>3. [adm[r] EXCEPT !.pc = "reserve"].pc \notin Held
    BY <1>0, <1>4 DEF Steps, Held, Admitted
  <2>4. adm[r].pc \notin Held
    BY <2>1 DEF Held, Admitted
  <2> QED
    BY <1>0, <1>1, <1>3, <2>1, <2>2, <2>3, <2>4
<1>13. ASSUME NEW r \in Req, ListTriggers(r) PROVE Aside(r)
  <2>1. adm[r].pc = "list" /\ UNCHANGED <<runs, capLock, pins>>
    BY <1>13 DEF ListTriggers
  <2>2. PICK T : adm' = [adm EXCEPT ![r] = NoAdm]
                 \/ adm' = [adm EXCEPT ![r] = [adm[r] EXCEPT !.pc = "route", !.todo = T]]
    BY <1>13 DEF ListTriggers
  <2>3. [adm[r] EXCEPT !.pc = "route", !.todo = T].pc = "route"
    BY <1>0 DEF Shape, Adm, AdmRow
  <2>4. "route" \notin Held /\ "list" \notin Held
    BY DEF Held, Admitted
  <2> QED
    BY <1>0, <1>1, <1>3, <2>1, <2>2, <2>3, <2>4
<1>14. ASSUME NEW r \in Req, NEW w \in Wf, Route(r, w) PROVE Aside(r)
  <2>1. adm[r].pc = "route" /\ UNCHANGED <<runs, capLock, pins>>
    BY <1>14 DEF Route
  <2>2. \/ adm' = [adm EXCEPT ![r].pc = "reserve", ![r].w = w, ![r].todo = @ \ {w}]
        \/ adm' = [adm EXCEPT ![r] = LET rest == [adm[r] EXCEPT !.todo = @ \ {w}]
                                     IN  IF rest.todo = {} THEN NoAdm ELSE rest]
    BY <1>14 DEF Route
  <2>3. CASE adm' = [adm EXCEPT ![r].pc = "reserve", ![r].w = w, ![r].todo = @ \ {w}]
    <3>1. adm' = [adm EXCEPT ![r] = [adm[r] EXCEPT !.pc = "reserve", !.todo = adm[r].todo \ {w}, !.w = w]]
      BY <1>0, <2>3 DEF Shape, Adm, AdmRow
    <3> QED
      BY <1>0, <1>9, <2>1, <3>1
  <2> QED
    BY <1>0, <1>8, <2>1, <2>2, <2>3
<1>15. ASSUME NEW r \in Req, NEW p \in Proc, Arrive(r, p) PROVE Aside(r)
  <2>1. adm[r].pc = "idle" /\ UNCHANGED <<runs, capLock, pins>>
    BY <1>15 DEF Arrive, Deliver, SlackEvent, RunNow
  <2>2. \E s : s.pc \in {"lookup", "list", "reserve"} /\ adm' = [adm EXCEPT ![r] = s]
    <3>1. ASSUME NEW w \in Wf, NEW k \in Key, Deliver(r, p, w, k)
          PROVE  \E s : s.pc = "lookup" /\ adm' = [adm EXCEPT ![r] = s]
      <4> DEFINE h == IF k = None THEN 0 ELSE Recall(p, <<w, k>>)
                 s == [NoAdm EXCEPT !.pc = "lookup", !.p = p, !.src = "webhook", !.w = w, !.key = k, !.hit = h]
      <4>1. adm' = [adm EXCEPT ![r] = s]
        BY <3>1 DEF Deliver
      <4> HIDE DEF h
      <4>2. s.pc = "lookup"
        BY DEF NoAdm
      <4> QED
        BY <4>1, <4>2
    <3>2. ASSUME NEW m \in Msg, NEW kind \in {"app_mention", "message"}, SlackEvent(r, p, m, kind)
          PROVE  \E s : s.pc = "list" /\ adm' = [adm EXCEPT ![r] = s]
      BY <3>2 DEF SlackEvent, NoAdm
    <3>3. ASSUME NEW w \in Wf, RunNow(r, p, w)
          PROVE  \E s : s.pc = "reserve" /\ adm' = [adm EXCEPT ![r] = s]
      BY <3>3 DEF RunNow, NoAdm
    <3> QED
      BY <1>15, <3>1, <3>2, <3>3 DEF Arrive
  <2> QED
    BY <1>0, <1>1, <2>1, <2>2 DEF Held, Admitted
<1> QED
  BY <1>0, <1>5, <1>6, <1>7, <1>10, <1>11, <1>12, <1>13, <1>14, <1>15 DEF Tick, Serve

\* Every step is one of admission, one aside, one of a driver, a crash, or
\* has nothing to do with any of them.
LEMMA StepKinds ==
  ASSUME Shape, [Next]_vars
  PROVE  \/ \E a \in Actor : Reserve(a) \/ Decide(a) \/ Refuse(a) \/ Insert(a) \/ Launch(a)
         \/ \E a \in Actor : Aside(a)
         \/ \E i \in DOMAIN runs : Settle(i) \/ Release(i) \/ \E p \in Proc : Adopt(p, i)
         \/ \E p \in Proc : Crash(p)
         \/ UNCHANGED <<runs, adm, capLock, pins>>
<1>1. ASSUME \/ \E e \in Ed : Edit(e)
             \/ \E e \in Ed, w \in Wf : Begin(e, w)
             \/ \E w \in Wf, t \in Types : SaveDraft(w, t)
             \/ Clock
             \/ UNCHANGED vars
      PROVE  UNCHANGED <<runs, adm, capLock, pins>>
  BY <1>1 DEF Edit, PatchWrite, SyncRead, SyncWrite, PublishRead, PublishCommit, UpsertType, SetToken, SetSlackBinding,
              Begin, BeginEdit, SaveDraft, Clock, NotEditing, vars
<1> QED
  BY <1>1, AsideSteps DEF Next, Admit

-----------------------------------------------------------------------------
(* The workspace lock and what is counted under it.                        *)

\* Whoever has counted holds the lock, and who will insert has seen room.
CapInv ==
    /\ \A a \in Actor : adm[a].pc \in {"refuse", "insert"} => capLock = a
    /\ \A a \in Actor : adm[a].pc = "insert" =>
         Cardinality(Live) + 1 <= Cap /\ ~OverlapHit(adm[a].w)
    /\ LimitsHold

\* There are finitely many live runs.
LEMMA LiveFinite ==
  ASSUME Shape
  PROVE  IsFiniteSet(Live) /\ Cardinality(Live) \in Nat
<1>1. DOMAIN runs = 1..Len(runs) /\ Len(runs) \in Nat
  BY DEF Shape
<1>2. IsFiniteSet(1..Len(runs)) /\ Live \subseteq 1..Len(runs)
  BY <1>1, FS_Interval DEF Live
<1> QED
  BY <1>2, FS_Subset, FS_CardinalityType

\* What is counted stays true while no run is added, and the lock is only
\* given up by whoever holds it.
LEMMA CapCalm ==
  ASSUME Shape, CapInv, Live' \subseteq Live, \A i \in Live' : runs'[i].w = runs[i].w,
         \A a \in Actor : adm'[a].pc \in {"refuse", "insert"} =>
           adm'[a] = adm[a] /\ capLock' = capLock
  PROVE  CapInv'
<1>1. IsFiniteSet(Live) /\ IsFiniteSet(Live') /\ Cardinality(Live) \in Nat
      /\ Cardinality(Live') \in Nat /\ Cardinality(Live') <= Cardinality(Live)
  BY LiveFinite, FS_Subset, FS_CardinalityType
<1>2. Cap \in Nat
  BY TriggersAssumption
<1>3. \A w : OverlapHit(w)' => OverlapHit(w)
  BY DEF OverlapHit
<1>4. (\A a \in Actor : adm[a].pc \in {"refuse", "insert"} => capLock = a)'
  BY DEF CapInv
<1>5. ASSUME NEW a \in Actor, adm'[a].pc = "insert"
      PROVE  Cardinality(Live') + 1 <= Cap /\ ~OverlapHit(adm[a].w)'
  <2>1. adm'[a] = adm[a]
    BY <1>5
  <2>2. Cardinality(Live) + 1 <= Cap /\ ~OverlapHit(adm[a].w)
    BY <1>5, <2>1 DEF CapInv
  <2>3. Cardinality(Live') + 1 <= Cap
    BY <1>1, <1>2, <2>2
  <2> QED
    BY <1>3, <2>1, <2>2, <2>3
<1>6. LimitsHold'
  <2>1. Cardinality(Live') <= Cap
    BY <1>1, <1>2 DEF CapInv, LimitsHold
  <2> QED
    BY <2>1 DEF CapInv, LimitsHold
<1> QED
  BY <1>4, <1>5, <1>6 DEF CapInv

\* Counting is done by one at a time, and a run is inserted in the room seen.
LEMMA CapStep ==
  ASSUME Shape, CapInv, [Next]_vars
  PROVE  CapInv'
<1>0. None \notin Actor
  BY TriggersAssumption DEF None, Actor
<1>1. ASSUME NEW a \in Actor, Reserve(a) PROVE CapInv'
  <2>1. adm' = [adm EXCEPT ![a] = [adm[a] EXCEPT !.pc = "create"]] /\ UNCHANGED <<runs, capLock>>
    BY <1>1 DEF Reserve
  <2>2. adm'[a].pc = "create" /\ \A b \in Actor \ {a} : adm'[b] = adm[b]
    BY <2>1 DEF Shape, Adm, AdmRow
  <2>3. Live' = Live
    BY <2>1 DEF Live
  <2> QED
    BY <2>1, <2>2, <2>3, CapCalm
<1>2. ASSUME NEW a \in Actor, Decide(a) PROVE CapInv'
  <2> DEFINE v == IF OverlapHit(adm[a].w) \/ Cardinality(Live) + 1 > Cap THEN "refuse" ELSE "insert"
  <2>1. adm' = [adm EXCEPT ![a] = [adm[a] EXCEPT !.pc = v]] /\ capLock = None /\ capLock' = a /\ runs' = runs
    BY <1>2 DEF Decide, CapLockFree
  <2>2. adm'[a].pc = v /\ adm'[a].w = adm[a].w /\ \A b \in Actor \ {a} : adm'[b] = adm[b]
    BY <2>1 DEF Shape, Adm, AdmRow
  <2>3. \A b \in Actor : adm[b].pc \notin {"refuse", "insert"}
    BY <1>0, <2>1 DEF CapInv
  <2>4. Live' = Live /\ LimitsHold' /\ \A w : OverlapHit(w)' <=> OverlapHit(w)
    BY <2>1 DEF Live, LimitsHold, CapInv, OverlapHit
  <2>5. v = "insert" => Cardinality(Live) + 1 <= Cap /\ ~OverlapHit(adm[a].w)
    BY LiveFinite, TriggersAssumption
  <2> HIDE DEF v
  <2> QED
    BY <2>1, <2>2, <2>3, <2>4, <2>5 DEF CapInv
<1>3. ASSUME NEW a \in Actor, Refuse(a) PROVE CapInv'
  <2>1. adm[a].pc = "refuse" /\ adm' = [adm EXCEPT ![a] = Over(a)] /\ runs' = runs
    BY <1>3 DEF Refuse
  <2>2. adm'[a].pc \notin {"refuse", "insert"} /\ \A b \in Actor \ {a} : adm'[b] = adm[b]
    BY <2>1, OverShape DEF Shape
  <2>3. \A b \in Actor \ {a} : adm[b].pc \notin {"refuse", "insert"}
    BY <2>1 DEF CapInv
  <2>4. Live' = Live
    BY <2>1 DEF Live
  <2> QED
    BY <2>1, <2>2, <2>3, <2>4, CapCalm
<1>4. ASSUME NEW a \in Actor, Insert(a) PROVE CapInv'
  <2> DEFINE r == [w |-> adm[a].w, live |-> TRUE, drv |-> None, msg |-> adm[a].msg,
                   by |-> <<adm[a].p, hist.boot[adm[a].p]>>, lost |-> FALSE]
             n == Len(runs) + 1
  <2>1. /\ adm[a].pc = "insert" /\ runs' = Append(runs, r)
        /\ adm' = [adm EXCEPT ![a] = [adm[a] EXCEPT !.pc = "launch", !.run = Len(runs) + 1]]
    BY <1>4 DEF Insert
  <2>2. adm'[a].pc = "launch" /\ \A b \in Actor \ {a} : adm'[b] = adm[b]
    BY <2>1 DEF Shape, Adm, AdmRow
  <2>3. \A b \in Actor \ {a} : adm[b].pc \notin {"refuse", "insert"}
    BY <2>1 DEF CapInv
  <2>4. r.w = adm[a].w /\ r.live
    OBVIOUS
  <2> HIDE DEF r
  <2>5. /\ DOMAIN runs = 1..Len(runs) /\ Len(runs) \in Nat
        /\ DOMAIN runs' = 1..n /\ runs'[n] = r /\ \A i \in DOMAIN runs : runs'[i] = runs[i]
    BY <2>1 DEF Shape
  <2>6. Live' = Live \cup {n} /\ n \notin Live /\ \A i \in Live : runs'[i].w = runs[i].w
    BY <2>4, <2>5 DEF Live
  <2>7. Cardinality(Live') = Cardinality(Live) + 1
    BY <2>6, LiveFinite, FS_AddElement
  <2>8. Cardinality(Live) + 1 <= Cap /\ ~OverlapHit(adm[a].w)
    BY <2>1 DEF CapInv
  <2>9. \A i, j \in Live' : runs'[i].w = runs'[j].w /\ runs'[i].w \in Skip => i = j
    <3>1. \A i \in Live : ~(runs[i].w = adm[a].w /\ adm[a].w \in Skip)
      BY <2>8 DEF OverlapHit
    <3>2. runs'[n].w = adm[a].w
      BY <2>4, <2>5
    <3>3. \A i, j \in Live : runs[i].w = runs[j].w /\ runs[i].w \in Skip => i = j
      BY DEF CapInv, LimitsHold
    <3> QED
      BY <2>6, <3>1, <3>2, <3>3
  <2> QED
    BY <2>2, <2>3, <2>7, <2>8, <2>9 DEF CapInv, LimitsHold
<1>5. ASSUME NEW a \in Actor, Launch(a) PROVE CapInv'
  <2>1. /\ adm[a].pc = "launch" /\ runs' = [runs EXCEPT ![adm[a].run].drv = adm[a].p]
        /\ adm' = [adm EXCEPT ![a] = Over(a)] /\ capLock' = capLock
    BY <1>5 DEF Launch
  <2>2. adm'[a].pc \notin {"refuse", "insert"} /\ \A b \in Actor \ {a} : adm'[b] = adm[b]
    BY <2>1, OverShape DEF Shape
  <2>3. DOMAIN runs' = DOMAIN runs /\ \A i \in DOMAIN runs : runs'[i].live = runs[i].live /\ runs'[i].w = runs[i].w
    BY <2>1, DrvFields
  <2>4. Live' = Live
    BY <2>3 DEF Live
  <2> QED
    BY <2>1, <2>2, <2>3, <2>4, CapCalm DEF Live
<1>6. ASSUME NEW a \in Actor, Aside(a) PROVE CapInv'
  <2>1. Live' = Live
    BY <1>6 DEF Live, Aside
  <2> QED
    BY <1>6, <2>1, CapCalm DEF Aside, Held, Admitted
<1>7. ASSUME NEW i \in DOMAIN runs, Settle(i) \/ Release(i) \/ \E p \in Proc : Adopt(p, i)
      PROVE  CapInv'
  <2>1. adm' = adm /\ capLock' = capLock
    BY <1>7 DEF Settle, Release, Adopt
  <2>2. \/ runs' = [runs EXCEPT ![i].live = FALSE]
        \/ \E p : runs' = [runs EXCEPT ![i].drv = p]
    BY <1>7 DEF Settle, Release, Adopt
  <2>3. /\ DOMAIN runs' = DOMAIN runs
        /\ \A j \in DOMAIN runs : (runs'[j].live => runs[j].live) /\ runs'[j].w = runs[j].w
    <3>1. CASE runs' = [runs EXCEPT ![i].live = FALSE]
      BY <3>1, LiveFields
    <3>2. CASE \E p : runs' = [runs EXCEPT ![i].drv = p]
      BY <3>2, DrvFields
    <3> QED
      BY <2>2, <3>1, <3>2
  <2>4. Live' \subseteq Live /\ \A j \in Live' : runs'[j].w = runs[j].w
    BY <2>3 DEF Live
  <2> QED
    BY <2>1, <2>4, CapCalm
<1>8. ASSUME NEW p \in Proc, Crash(p) PROVE CapInv'
  <2>1. Live' = Live /\ \A i \in Live' : runs'[i].w = runs[i].w
    BY <1>8, CrashRuns DEF Live
  <2>2. \A a \in Actor : adm'[a] = IF adm[a].p = p THEN NoAdm ELSE adm[a]
    BY <1>8, CrashAdm
  <2>3. \A a \in Actor : adm'[a].pc \in {"refuse", "insert"} => adm'[a] = adm[a] /\ adm[a].p # p
    BY <2>2 DEF NoAdm
  <2>4. \A a \in Actor : capLock = a /\ adm[a].p # p => capLock' = capLock
    BY <1>8 DEF Crash
  <2> QED
    BY <2>1, <2>3, <2>4, CapCalm DEF CapInv
<1>9. ASSUME UNCHANGED <<runs, adm, capLock, pins>> PROVE CapInv'
  <2>1. Live' = Live
    BY <1>9 DEF Live
  <2> QED
    BY <1>9, <2>1, CapCalm
<1> QED
  BY <1>1, <1>2, <1>3, <1>4, <1>5, <1>6, <1>7, <1>8, <1>9, StepKinds

-----------------------------------------------------------------------------
(* The connections of the lock pools.                                      *)

Holders(p) == {a \in Actor : adm[a].p = p /\ adm[a].pc \in Held}
Driven(p) == {i \in DOMAIN runs : runs[i].drv = p}
Admitting == {a \in Actor : adm[a].pc \in Admitted}

\* A run about to be launched is live, without a driver, and one actor's.
Launches ==
    /\ \A a \in Actor : adm[a].pc = "launch" =>
         adm[a].run \in DOMAIN runs /\ runs[adm[a].run].drv = None /\ runs[adm[a].run].live
    /\ \A a, b \in Actor :
         adm[a].pc = "launch" /\ adm[b].pc = "launch" /\ adm[a].run = adm[b].run => a = b

\* A live run without a driver has lost it, or waits for its launch.
Accounted ==
    \A i \in DOMAIN runs : runs[i].live /\ runs[i].drv = None /\ ~runs[i].lost =>
        \E a \in Actor : adm[a].pc = "launch" /\ adm[a].run = i

\* Each connection has its holder, and no pool more than it may.
Pinned ==
    /\ pins \in [Proc -> 0..Pool]
    /\ \A p \in Proc : pins[p] = Cardinality(Holders(p)) + Cardinality(Driven(p))

\* An admission under way has its place below the bound on runs.
Roomy == Len(runs) + Cardinality(Admitting) <= MaxRuns

LockInv == Launches /\ Accounted /\ Pinned /\ Roomy

\* What is counted is finite.
LEMMA HoldersFinite ==
  ASSUME Shape
  PROVE  /\ \A p : /\ IsFiniteSet(Holders(p)) /\ Cardinality(Holders(p)) \in Nat
                   /\ IsFiniteSet(Driven(p)) /\ Cardinality(Driven(p)) \in Nat
         /\ IsFiniteSet(Admitting) /\ Cardinality(Admitting) \in Nat
         /\ Len(runs) \in Nat
<1>1. IsFiniteSet(Actor)
  BY TriggersAssumption, FS_Union DEF Actor
<1>2. DOMAIN runs = 1..Len(runs) /\ Len(runs) \in Nat
  BY DEF Shape
<1>3. IsFiniteSet(DOMAIN runs)
  BY <1>2, FS_Interval
<1>4. \A p : Holders(p) \subseteq Actor /\ Driven(p) \subseteq DOMAIN runs
  BY DEF Holders, Driven
<1>5. Admitting \subseteq Actor
  BY DEF Admitting
<1> QED
  BY <1>1, <1>2, <1>3, <1>4, <1>5, FS_Subset, FS_CardinalityType

\* An element that joins a finite set, or leaves it, counts for one.
LEMMA CountsForOne ==
  ASSUME NEW S, IsFiniteSet(S), NEW x
  PROVE  /\ Cardinality(S) \in Nat
         /\ x \notin S => Cardinality(S \cup {x}) = Cardinality(S) + 1
         /\ x \in S => Cardinality(S \ {x}) = Cardinality(S) - 1 /\ Cardinality(S) >= 1
<1>1. Cardinality(S) \in Nat
  BY FS_CardinalityType
<1>2. x \notin S => Cardinality(S \cup {x}) = Cardinality(S) + 1
  BY FS_AddElement
<1>3. x \in S => Cardinality(S \ {x}) = Cardinality(S) - 1 /\ Cardinality(S \ {x}) \in Nat
  BY FS_RemoveElement, FS_CardinalityType
<1> QED
  BY <1>1, <1>2, <1>3

\* Every connection keeps a holder: a step takes one for the actor or driver
\* that asked, hands it from one to the other, or gives it back.
LEMMA PinnedStep ==
  ASSUME Shape, LockInv, [Next]_vars
  PROVE  Pinned' /\ Roomy'
<1>0. /\ pins \in [Proc -> 0..Pool] /\ Pool \in Nat /\ MaxRuns \in Nat
      /\ \A p \in Proc : pins[p] \in Nat /\ pins[p] <= Pool
                         /\ pins[p] = Cardinality(Holders(p)) + Cardinality(Driven(p))
      /\ Len(runs) + Cardinality(Admitting) <= MaxRuns
      /\ None \notin Proc
      /\ \A a \in Actor : adm[a].pc # "idle" => adm[a].p \in Proc
  BY TriggersAssumption DEF LockInv, Pinned, Roomy, None, Shape, Adm
<1> USE HoldersFinite
<1>1. ASSUME UNCHANGED pins, Len(runs') = Len(runs), Admitting' = Admitting,
             \A p \in Proc : Holders(p)' = Holders(p) /\ Driven(p)' = Driven(p)
      PROVE  Pinned' /\ Roomy'
  BY <1>0, <1>1 DEF Pinned, Roomy
<1>2. ASSUME NEW a \in Actor, Reserve(a) PROVE Pinned' /\ Roomy'
  <2>0. PICK q : q = adm[a].p
    OBVIOUS
  <2>1. /\ adm[a].pc = "reserve" /\ adm' = [adm EXCEPT ![a] = [adm[a] EXCEPT !.pc = "create"]]
        /\ pins' = [pins EXCEPT ![q] = pins[q] + 1] /\ runs' = runs
        /\ pins[q] < Pool /\ Len(runs) + Cardinality(Admitting) < MaxRuns
    BY <2>0, <1>2 DEF Reserve, Free, Admitting
  <2>2. q \in Proc
    BY <2>0, <1>0, <2>1
  <2>3. adm'[a].pc = "create" /\ adm'[a].p = q /\ \A b \in Actor \ {a} : adm'[b] = adm[b]
    BY <2>0, <2>1 DEF Shape, Adm, AdmRow
  <2>4. /\ Holders(q)' = Holders(q) \cup {a} /\ a \notin Holders(q)
        /\ \A p \in Proc \ {q} : Holders(p)' = Holders(p)
        /\ \A p \in Proc : Driven(p)' = Driven(p)
        /\ Admitting' = Admitting \cup {a} /\ a \notin Admitting
    BY <2>0, <2>1, <2>3 DEF Holders, Driven, Admitting, Held, Admitted
  <2>5. Cardinality(Holders(q)') = Cardinality(Holders(q)) + 1
        /\ Cardinality(Admitting') = Cardinality(Admitting) + 1
    BY <2>4, CountsForOne
  <2>6. pins' \in [Proc -> 0..Pool]
    BY <2>0, <1>0, <2>1, <2>2
  <2>7. ASSUME NEW p \in Proc PROVE pins'[p] = Cardinality(Holders(p)') + Cardinality(Driven(p)')
    <3>1. pins'[q] = Cardinality(Holders(q)') + Cardinality(Driven(q)')
      <4>1. /\ Cardinality(Holders(q)) \in Nat /\ Cardinality(Driven(q)) \in Nat
            /\ pins[q] = Cardinality(Holders(q)) + Cardinality(Driven(q)) /\ q \in DOMAIN pins
        BY <1>0, <2>2
      <4> QED
        BY <2>2, <2>1, <2>4, <2>5, <4>1
    <3>2. CASE p # q
      BY <1>0, <2>1, <2>4, <3>2
    <3> QED
      BY <3>1, <3>2
  <2>8. Len(runs') + Cardinality(Admitting') <= MaxRuns
    BY <2>0, <1>0, <2>1, <2>5
  <2> QED
    BY <2>6, <2>7, <2>8 DEF Pinned, Roomy
<1>3. ASSUME NEW a \in Actor, Decide(a) PROVE Pinned' /\ Roomy'
  <2>1. PICK v \in {"refuse", "insert"} :
          adm[a].pc = "create" /\ adm' = [adm EXCEPT ![a] = [adm[a] EXCEPT !.pc = v]]
          /\ UNCHANGED <<runs, pins>>
    BY <1>3 DEF Decide
  <2>2. adm'[a].pc = v /\ adm'[a].p = adm[a].p /\ \A b \in Actor \ {a} : adm'[b] = adm[b]
    BY <2>1 DEF Shape, Adm, AdmRow
  <2>3. Admitting' = Admitting /\ \A p \in Proc : Holders(p)' = Holders(p) /\ Driven(p)' = Driven(p)
    BY <2>1, <2>2 DEF Holders, Driven, Admitting, Held, Admitted
  <2> QED
    BY <1>1, <2>1, <2>3
<1>4. ASSUME NEW a \in Actor, Refuse(a) PROVE Pinned' /\ Roomy'
  <2>0. PICK q : q = adm[a].p
    OBVIOUS
  <2>1. /\ adm[a].pc = "refuse" /\ adm' = [adm EXCEPT ![a] = Over(a)]
        /\ pins' = [pins EXCEPT ![q] = pins[q] - 1] /\ runs' = runs
    BY <2>0, <1>4 DEF Refuse, ReleasedOnRefusal
  <2>2. q \in Proc
    BY <2>0, <1>0, <2>1
  <2>3. adm'[a].pc \notin Held /\ \A b \in Actor \ {a} : adm'[b] = adm[b]
    BY <2>0, <2>1, OverShape DEF Shape, Held, Admitted
  <2>4. /\ Holders(q)' = Holders(q) \ {a} /\ a \in Holders(q)
        /\ \A p \in Proc \ {q} : Holders(p)' = Holders(p)
        /\ \A p \in Proc : Driven(p)' = Driven(p)
        /\ Admitting' = Admitting \ {a} /\ a \in Admitting
    BY <2>0, <2>1, <2>3 DEF Holders, Driven, Admitting, Held, Admitted
  <2>5. Cardinality(Holders(q)') = Cardinality(Holders(q)) - 1 /\ Cardinality(Holders(q)) >= 1
        /\ Cardinality(Admitting') = Cardinality(Admitting) - 1
    BY <2>4, CountsForOne
  <2>6. pins' \in [Proc -> 0..Pool]
    <3>1. pins[q] - 1 \in 0..Pool
      BY <1>0, <2>2, <2>5
    <3> QED
      BY <1>0, <2>1, <3>1
  <2>7. ASSUME NEW p \in Proc PROVE pins'[p] = Cardinality(Holders(p)') + Cardinality(Driven(p)')
    <3>1. pins'[q] = Cardinality(Holders(q)') + Cardinality(Driven(q)')
      <4>1. /\ Cardinality(Holders(q)) \in Nat /\ Cardinality(Driven(q)) \in Nat
            /\ pins[q] = Cardinality(Holders(q)) + Cardinality(Driven(q)) /\ q \in DOMAIN pins
        BY <1>0, <2>2
      <4> QED
        BY <2>2, <2>1, <2>4, <2>5, <4>1
    <3>2. CASE p # q
      BY <1>0, <2>1, <2>4, <3>2
    <3> QED
      BY <3>1, <3>2
  <2>8. Len(runs') + Cardinality(Admitting') <= MaxRuns
    BY <2>0, <1>0, <2>1, <2>5
  <2> QED
    BY <2>6, <2>7, <2>8 DEF Pinned, Roomy
<1>5. ASSUME NEW a \in Actor, Insert(a) PROVE Pinned' /\ Roomy'
  <2> DEFINE r == [w |-> adm[a].w, live |-> TRUE, drv |-> None, msg |-> adm[a].msg,
                   by |-> <<adm[a].p, hist.boot[adm[a].p]>>, lost |-> FALSE]
  <2>1. /\ adm[a].pc = "insert" /\ runs' = Append(runs, r) /\ pins' = pins
        /\ adm' = [adm EXCEPT ![a] = [adm[a] EXCEPT !.pc = "launch", !.run = Len(runs) + 1]]
    BY <1>5 DEF Insert
  <2>2. adm'[a].pc = "launch" /\ adm'[a].p = adm[a].p /\ \A b \in Actor \ {a} : adm'[b] = adm[b]
    BY <2>1 DEF Shape, Adm, AdmRow
  <2>3. r.drv = None
    OBVIOUS
  <2> HIDE DEF r
  <2>4. /\ DOMAIN runs = 1..Len(runs) /\ DOMAIN runs' = 1..Len(runs) + 1 /\ Len(runs') = Len(runs) + 1
        /\ runs'[Len(runs) + 1] = r /\ \A i \in DOMAIN runs : runs'[i] = runs[i]
    BY <2>1 DEF Shape
  <2>5. /\ \A p \in Proc : Holders(p)' = Holders(p) /\ Driven(p)' = Driven(p)
        /\ Admitting' = Admitting \ {a} /\ a \in Admitting
    <3>1. \A p \in Proc : Holders(p)' = Holders(p)
      BY <2>1, <2>2 DEF Holders, Held, Admitted
    <3>2. \A p \in Proc : Driven(p)' = Driven(p)
      BY <1>0, <2>3, <2>4 DEF Driven
    <3>3. Admitting' = Admitting \ {a} /\ a \in Admitting
      BY <2>1, <2>2 DEF Admitting, Admitted
    <3> QED
      BY <3>1, <3>2, <3>3
  <2>6. Cardinality(Admitting') = Cardinality(Admitting) - 1
    BY <2>5, CountsForOne
  <2>7. Pinned'
    BY <1>0, <2>1, <2>5 DEF Pinned
  <2>8. Len(runs') + Cardinality(Admitting') <= MaxRuns
    BY <1>0, <2>4, <2>6
  <2> QED
    BY <2>7, <2>8 DEF Roomy
<1>6. ASSUME NEW a \in Actor, Launch(a) PROVE Pinned' /\ Roomy'
  <2>0. PICK q, i : q = adm[a].p /\ i = adm[a].run
    OBVIOUS
  <2>1. /\ adm[a].pc = "launch" /\ runs' = [runs EXCEPT ![i].drv = q]
        /\ adm' = [adm EXCEPT ![a] = Over(a)] /\ pins' = pins
    BY <2>0, <1>6 DEF Launch
  <2>2. q \in Proc /\ i \in DOMAIN runs /\ runs[i].drv = None
    BY <2>0, <1>0, <2>1 DEF LockInv, Launches
  <2>3. adm'[a].pc \notin Held /\ \A b \in Actor \ {a} : adm'[b] = adm[b]
    BY <2>0, <2>1, OverShape DEF Shape, Held, Admitted
  <2>4. DOMAIN runs' = DOMAIN runs /\ \A j \in DOMAIN runs : runs'[j].drv = IF j = i THEN q ELSE runs[j].drv
    BY <2>0, <2>1, DrvFields
  <2>5. /\ Holders(q)' = Holders(q) \ {a} /\ a \in Holders(q)
        /\ \A p \in Proc \ {q} : Holders(p)' = Holders(p)
        /\ Admitting' = Admitting
    BY <2>0, <2>1, <2>3 DEF Holders, Admitting, Held, Admitted
  <2>6. /\ Driven(q)' = Driven(q) \cup {i} /\ i \notin Driven(q)
        /\ \A p \in Proc \ {q} : Driven(p)' = Driven(p)
    BY <1>0, <2>2, <2>4 DEF Driven
  <2>7. Cardinality(Holders(q)') = Cardinality(Holders(q)) - 1
        /\ Cardinality(Driven(q)') = Cardinality(Driven(q)) + 1
    BY <2>5, <2>6, CountsForOne
  <2>8. ASSUME NEW p \in Proc PROVE pins'[p] = Cardinality(Holders(p)') + Cardinality(Driven(p)')
    <3>1. pins'[q] = Cardinality(Holders(q)') + Cardinality(Driven(q)')
      <4>1. /\ Cardinality(Holders(q)) \in Nat /\ Cardinality(Driven(q)) \in Nat
            /\ pins[q] = Cardinality(Holders(q)) + Cardinality(Driven(q)) /\ q \in DOMAIN pins
        BY <1>0, <2>2
      <4> QED
        BY <2>2, <2>1, <2>7, <4>1
    <3>2. CASE p # q
      BY <1>0, <2>1, <2>5, <2>6, <3>2
    <3> QED
      BY <3>1, <3>2
  <2>9. Len(runs') = Len(runs)
    BY <2>0, <2>1 DEF Shape
  <2> QED
    BY <2>0, <1>0, <2>1, <2>5, <2>8, <2>9 DEF Pinned, Roomy
<1>7. ASSUME NEW a \in Actor, Aside(a) PROVE Pinned' /\ Roomy'
  <2>1. Admitting' = Admitting /\ \A p \in Proc : Holders(p)' = Holders(p) /\ Driven(p)' = Driven(p)
    BY <1>7 DEF Aside, Holders, Driven, Admitting, Held
  <2> QED
    BY <1>1, <1>7, <2>1 DEF Aside
<1>8. ASSUME NEW i \in DOMAIN runs, Settle(i) PROVE Pinned' /\ Roomy'
  <2>1. runs' = [runs EXCEPT ![i].live = FALSE] /\ UNCHANGED <<adm, pins>>
    BY <1>8 DEF Settle
  <2>2. DOMAIN runs' = DOMAIN runs /\ \A j \in DOMAIN runs : runs'[j].drv = runs[j].drv
    BY <2>1, LiveFields
  <2>3. Admitting' = Admitting /\ \A p \in Proc : Holders(p)' = Holders(p) /\ Driven(p)' = Driven(p)
    BY <2>1, <2>2 DEF Holders, Driven, Admitting
  <2>4. Len(runs') = Len(runs)
    BY <2>1 DEF Shape
  <2> QED
    BY <1>1, <2>1, <2>3, <2>4
<1>9. ASSUME NEW i \in DOMAIN runs, Release(i) PROVE Pinned' /\ Roomy'
  <2>0. PICK q : q = runs[i].drv
    OBVIOUS
  <2>1. /\ runs' = [runs EXCEPT ![i].drv = None] /\ q # None /\ adm' = adm
        /\ pins' = [pins EXCEPT ![q] = pins[q] - 1]
    BY <2>0, <1>9 DEF Release
  <2>2. q \in Proc
    <3>1. runs[i] \in RunRow
      BY DEF Shape
    <3> QED
      BY <2>0, <2>1, <3>1 DEF RunRow
  <2>3. DOMAIN runs' = DOMAIN runs /\ \A j \in DOMAIN runs : runs'[j].drv = IF j = i THEN None ELSE runs[j].drv
    BY <2>0, <2>1, DrvFields
  <2>4. Admitting' = Admitting /\ \A p \in Proc : Holders(p)' = Holders(p)
    BY <2>0, <2>1 DEF Holders, Admitting
  <2>5. /\ Driven(q)' = Driven(q) \ {i} /\ i \in Driven(q)
        /\ \A p \in Proc \ {q} : Driven(p)' = Driven(p)
    <3>1. i \in Driven(q) /\ \A p \in Proc \ {q} : i \notin Driven(p)
      BY <2>0 DEF Driven
    <3>2. \A p \in Proc : p # None
      BY <1>0
    <3>3. \A p \in Proc : \A j : j \in Driven(p)' <=> j \in Driven(p) /\ j # i
      BY <2>3, <3>2 DEF Driven
    <3> QED
      BY <2>2, <3>1, <3>3
  <2>6. Cardinality(Driven(q)') = Cardinality(Driven(q)) - 1 /\ Cardinality(Driven(q)) >= 1
    BY <2>5, CountsForOne
  <2>7. pins' \in [Proc -> 0..Pool]
    <3>1. pins[q] - 1 \in 0..Pool
      BY <1>0, <2>2, <2>6
    <3> QED
      BY <1>0, <2>1, <3>1
  <2>8. ASSUME NEW p \in Proc PROVE pins'[p] = Cardinality(Holders(p)') + Cardinality(Driven(p)')
    <3>1. pins'[q] = Cardinality(Holders(q)') + Cardinality(Driven(q)')
      <4>1. /\ Cardinality(Holders(q)) \in Nat /\ Cardinality(Driven(q)) \in Nat
            /\ pins[q] = Cardinality(Holders(q)) + Cardinality(Driven(q)) /\ q \in DOMAIN pins
        BY <1>0, <2>2
      <4> QED
        BY <2>2, <2>1, <2>4, <2>6, <4>1
    <3>2. CASE p # q
      BY <1>0, <2>1, <2>4, <2>5, <3>2
    <3> QED
      BY <3>1, <3>2
  <2>9. Len(runs') = Len(runs)
    BY <2>0, <2>1 DEF Shape
  <2> QED
    BY <1>0, <2>4, <2>7, <2>8, <2>9 DEF Pinned, Roomy
<1>10. ASSUME NEW i \in DOMAIN runs, NEW q \in Proc, Adopt(q, i) PROVE Pinned' /\ Roomy'
  <2>1. /\ runs' = [runs EXCEPT ![i].drv = q] /\ runs[i].drv = None /\ adm' = adm
        /\ pins' = [pins EXCEPT ![q] = pins[q] + 1] /\ pins[q] < Pool
    BY <1>10 DEF Adopt
  <2>3. DOMAIN runs' = DOMAIN runs /\ \A j \in DOMAIN runs : runs'[j].drv = IF j = i THEN q ELSE runs[j].drv
    BY <2>1, DrvFields
  <2>4. Admitting' = Admitting /\ \A p \in Proc : Holders(p)' = Holders(p)
    BY <2>1 DEF Holders, Admitting
  <2>5. /\ Driven(q)' = Driven(q) \cup {i} /\ i \notin Driven(q)
        /\ \A p \in Proc \ {q} : Driven(p)' = Driven(p)
    BY <1>0, <2>1, <2>3 DEF Driven
  <2>6. Cardinality(Driven(q)') = Cardinality(Driven(q)) + 1
    BY <2>5, CountsForOne
  <2>7. pins' \in [Proc -> 0..Pool]
    BY <1>0, <2>1
  <2>8. ASSUME NEW p \in Proc PROVE pins'[p] = Cardinality(Holders(p)') + Cardinality(Driven(p)')
    <3>1. pins'[q] = Cardinality(Holders(q)') + Cardinality(Driven(q)')
      <4>1. /\ Cardinality(Holders(q)) \in Nat /\ Cardinality(Driven(q)) \in Nat
            /\ pins[q] = Cardinality(Holders(q)) + Cardinality(Driven(q)) /\ q \in DOMAIN pins
        BY <1>0
      <4> QED
        BY <2>1, <2>4, <2>6, <4>1
    <3>2. CASE p # q
      BY <1>0, <2>1, <2>4, <2>5, <3>2
    <3> QED
      BY <3>1, <3>2
  <2>9. Len(runs') = Len(runs)
    BY <2>1 DEF Shape
  <2> QED
    BY <1>0, <2>4, <2>7, <2>8, <2>9 DEF Pinned, Roomy
<1>11. ASSUME NEW q \in Proc, Crash(q) PROVE Pinned' /\ Roomy'
  <2>1. \A a \in Actor : adm'[a] = IF adm[a].p = q THEN NoAdm ELSE adm[a]
    BY <1>11, CrashAdm
  <2>2. /\ DOMAIN runs' = DOMAIN runs /\ Len(runs') = Len(runs)
        /\ \A i \in DOMAIN runs : \/ runs'[i].drv = runs[i].drv /\ runs[i].drv # q
                                  \/ runs'[i].drv = None /\ (runs[i].drv = q \/ runs[i].drv = None)
    <3>1. \A i \in DOMAIN runs, a \in Actor :
            adm[a].pc = "launch" /\ adm[a].run = i => runs[i].drv = None
      BY DEF LockInv, Launches
    <3> QED
      BY <1>11, <3>1, CrashRuns
  <2>3. pins' = [pins EXCEPT ![q] = 0]
    BY <1>11 DEF Crash
  <2>4. Holders(q)' = {} /\ \A p \in Proc \ {q} : Holders(p)' = Holders(p)
    <3>1. NoAdm.p = None /\ NoAdm.pc \notin Held
      BY DEF NoAdm, Held, Admitted
    <3> QED
      BY <1>0, <2>1, <3>1 DEF Holders
  <2>5. Driven(q)' = {} /\ \A p \in Proc \ {q} : Driven(p)' = Driven(p)
    BY <1>0, <2>2 DEF Driven
  <2>6. Cardinality({}) = 0
    BY FS_EmptySet
  <2>7. pins' \in [Proc -> 0..Pool]
    BY <1>0, <2>3
  <2>8. ASSUME NEW p \in Proc PROVE pins'[p] = Cardinality(Holders(p)') + Cardinality(Driven(p)')
    <3>1. pins'[q] = Cardinality(Holders(q)') + Cardinality(Driven(q)')
      <4>1. /\ Cardinality(Holders(q)) \in Nat /\ Cardinality(Driven(q)) \in Nat
            /\ pins[q] = Cardinality(Holders(q)) + Cardinality(Driven(q)) /\ q \in DOMAIN pins
        BY <1>0
      <4> QED
        BY <2>3, <2>4, <2>5, <2>6, <4>1
    <3>2. CASE p # q
      BY <1>0, <2>3, <2>4, <2>5, <3>2
    <3> QED
      BY <3>1, <3>2
  <2>9. Cardinality(Admitting') \in Nat /\ Cardinality(Admitting') <= Cardinality(Admitting)
    <3>1. NoAdm.pc \notin Admitted
      BY DEF NoAdm, Admitted
    <3>2. Admitting' \subseteq Admitting
      BY <2>1, <3>1 DEF Admitting
    <3> QED
      BY <3>2, FS_Subset, FS_CardinalityType
  <2>10. Len(runs') + Cardinality(Admitting') <= MaxRuns
    BY <1>0, <2>2, <2>9
  <2> QED
    BY <2>7, <2>8, <2>10 DEF Pinned, Roomy
<1>12. ASSUME UNCHANGED <<runs, adm, capLock, pins>> PROVE Pinned' /\ Roomy'
  <2>1. Admitting' = Admitting /\ \A p \in Proc : Holders(p)' = Holders(p) /\ Driven(p)' = Driven(p)
    BY <1>12 DEF Holders, Driven, Admitting
  <2> QED
    BY <1>1, <1>12, <2>1
<1> QED
  BY <1>2, <1>3, <1>4, <1>5, <1>6, <1>7, <1>8, <1>9, <1>10, <1>11, <1>12, StepKinds

\* A run waits for its launch only with the actor that inserted it, and a run
\* is without a driver only then or after a crash.
LEMMA LaunchesStep ==
  ASSUME Shape, LockInv, [Next]_vars
  PROVE  Launches' /\ Accounted'
<1>0. /\ DOMAIN runs = 1..Len(runs) /\ Len(runs) \in Nat /\ None \notin Proc
      /\ \A a \in Actor : adm[a].pc = "launch" =>
           adm[a].run \in DOMAIN runs /\ runs[adm[a].run].drv = None /\ runs[adm[a].run].live
      /\ \A a, b \in Actor :
           adm[a].pc = "launch" /\ adm[b].pc = "launch" /\ adm[a].run = adm[b].run => a = b
      /\ \A i \in DOMAIN runs : runs[i].live /\ runs[i].drv = None /\ ~runs[i].lost =>
           \E a \in Actor : adm[a].pc = "launch" /\ adm[a].run = i
  BY TriggersAssumption DEF LockInv, Launches, Accounted, Shape, None
<1>1. ASSUME runs' = runs,
             \A a \in Actor : adm'[a].pc = "launch" <=> adm[a].pc = "launch",
             \A a \in Actor : adm[a].pc = "launch" => adm'[a] = adm[a]
      PROVE  Launches' /\ Accounted'
  BY <1>0, <1>1 DEF Launches, Accounted
<1>2. ASSUME NEW a \in Actor, Reserve(a) \/ Decide(a) \/ Refuse(a) PROVE Launches' /\ Accounted'
  <2>1. runs' = runs /\ adm[a].pc \in {"reserve", "create", "refuse"}
    BY <1>2 DEF Reserve, Decide, Refuse
  <2>2. adm' = [adm EXCEPT ![a] = Over(a)]
        \/ \E v \in {"create", "refuse", "insert"} : adm' = [adm EXCEPT ![a] = [adm[a] EXCEPT !.pc = v]]
    BY <1>2 DEF Reserve, Decide, Refuse
  <2>3. \A v : [adm[a] EXCEPT !.pc = v].pc = v
    BY DEF Shape, Adm, AdmRow
  <2>4. Over(a).pc # "launch"
    BY <2>1, OverShape
  <2>5. adm'[a].pc # "launch" /\ \A b \in Actor \ {a} : adm'[b] = adm[b]
    BY <2>2, <2>3, <2>4 DEF Shape
  <2> QED
    BY <1>1, <2>1, <2>5
<1>3. ASSUME NEW a \in Actor, Insert(a) PROVE Launches' /\ Accounted'
  <2> DEFINE r == [w |-> adm[a].w, live |-> TRUE, drv |-> None, msg |-> adm[a].msg,
                   by |-> <<adm[a].p, hist.boot[adm[a].p]>>, lost |-> FALSE]
  <2>1. /\ adm[a].pc = "insert" /\ runs' = Append(runs, r)
        /\ adm' = [adm EXCEPT ![a] = [adm[a] EXCEPT !.pc = "launch", !.run = Len(runs) + 1]]
    BY <1>3 DEF Insert
  <2>2. adm'[a].pc = "launch" /\ adm'[a].run = Len(runs) + 1 /\ \A b \in Actor \ {a} : adm'[b] = adm[b]
    BY <2>1 DEF Shape, Adm, AdmRow
  <2>3. r.drv = None /\ r.live
    OBVIOUS
  <2> HIDE DEF r
  <2>4. /\ DOMAIN runs' = 1..Len(runs) + 1
        /\ runs'[Len(runs) + 1] = r /\ \A i \in DOMAIN runs : runs'[i] = runs[i]
    BY <2>1 DEF Shape
  <2>5. Launches'
    BY <1>0, <2>2, <2>3, <2>4 DEF Launches
  <2>6. ASSUME NEW i \in DOMAIN runs', runs'[i].live, runs'[i].drv = None, ~runs'[i].lost
        PROVE  \E b \in Actor : adm'[b].pc = "launch" /\ adm'[b].run = i
    <3>1. CASE i = Len(runs) + 1
      BY <2>2, <3>1
    <3>2. CASE i # Len(runs) + 1
      <4>1. i \in DOMAIN runs /\ runs'[i] = runs[i]
        BY <1>0, <2>4, <3>2
      <4>2. PICK b \in Actor : adm[b].pc = "launch" /\ adm[b].run = i
        BY <1>0, <2>6, <4>1
      <4> QED
        BY <2>1, <2>2, <4>2
    <3> QED
      BY <3>1, <3>2
  <2> QED
    BY <2>5, <2>6 DEF Accounted
<1>4. ASSUME NEW a \in Actor, Launch(a) PROVE Launches' /\ Accounted'
  <2> DEFINE i == adm[a].run
  <2>1. /\ adm[a].pc = "launch" /\ runs' = [runs EXCEPT ![i].drv = adm[a].p]
        /\ adm' = [adm EXCEPT ![a] = Over(a)] /\ adm[a].p \in Proc
    BY <1>4 DEF Launch, Shape, Adm
  <2>2. adm'[a].pc # "launch" /\ \A b \in Actor \ {a} : adm'[b] = adm[b]
    BY <2>1, OverShape DEF Shape
  <2>3. /\ DOMAIN runs' = DOMAIN runs
        /\ \A j \in DOMAIN runs : /\ runs'[j].drv = IF j = i THEN adm[a].p ELSE runs[j].drv
                                  /\ runs'[j].live = runs[j].live /\ runs'[j].lost = runs[j].lost
    BY <2>1, DrvFields
  <2>4. \A b \in Actor \ {a} : adm[b].pc = "launch" => adm[b].run # i
    BY <1>0, <2>1
  <2> HIDE DEF i
  <2>5. Launches'
    BY <1>0, <2>2, <2>3, <2>4 DEF Launches
  <2>6. ASSUME NEW j \in DOMAIN runs', runs'[j].live, runs'[j].drv = None, ~runs'[j].lost
        PROVE  \E b \in Actor : adm'[b].pc = "launch" /\ adm'[b].run = j
    <3>1. j # i /\ j \in DOMAIN runs /\ runs[j].live /\ runs[j].drv = None /\ ~runs[j].lost
      BY <1>0, <2>1, <2>3, <2>6
    <3>2. PICK b \in Actor : adm[b].pc = "launch" /\ adm[b].run = j
      BY <1>0, <3>1
    <3> QED
      BY <2>1, <2>2, <3>1, <3>2 DEF i
  <2> QED
    BY <2>5, <2>6 DEF Accounted
<1>5. ASSUME NEW a \in Actor, Aside(a) PROVE Launches' /\ Accounted'
  BY <1>1, <1>5 DEF Aside, Held
<1>6. ASSUME NEW i \in DOMAIN runs, Settle(i) PROVE Launches' /\ Accounted'
  <2>1. runs' = [runs EXCEPT ![i].live = FALSE] /\ adm' = adm /\ runs[i].drv # None
    BY <1>6 DEF Settle
  <2>2. /\ DOMAIN runs' = DOMAIN runs
        /\ \A j \in DOMAIN runs : /\ runs'[j].drv = runs[j].drv /\ runs'[j].lost = runs[j].lost
                                  /\ runs'[j].live <=> (j # i /\ runs[j].live)
    BY <2>1, LiveFields
  <2> QED
    BY <1>0, <2>1, <2>2 DEF Launches, Accounted
<1>7. ASSUME NEW i \in DOMAIN runs, Release(i) PROVE Launches' /\ Accounted'
  <2>1. runs' = [runs EXCEPT ![i].drv = None] /\ adm' = adm /\ ~runs[i].live
    BY <1>7 DEF Release
  <2>2. /\ DOMAIN runs' = DOMAIN runs
        /\ \A j \in DOMAIN runs : /\ runs'[j].drv = IF j = i THEN None ELSE runs[j].drv
                                  /\ runs'[j].live = runs[j].live /\ runs'[j].lost = runs[j].lost
    BY <2>1, DrvFields
  <2> QED
    BY <1>0, <2>1, <2>2 DEF Launches, Accounted
<1>8. ASSUME NEW i \in DOMAIN runs, NEW q \in Proc, Adopt(q, i) PROVE Launches' /\ Accounted'
  <2>1. /\ runs' = [runs EXCEPT ![i].drv = q] /\ adm' = adm
        /\ \A a \in Actor : ~(adm[a].pc = "launch" /\ adm[a].run = i)
    BY <1>8 DEF Adopt
  <2>2. /\ DOMAIN runs' = DOMAIN runs
        /\ \A j \in DOMAIN runs : /\ runs'[j].drv = IF j = i THEN q ELSE runs[j].drv
                                  /\ runs'[j].live = runs[j].live /\ runs'[j].lost = runs[j].lost
    BY <2>1, DrvFields
  <2>3. q # None
    BY <1>0
  <2> QED
    BY <1>0, <2>1, <2>2, <2>3 DEF Launches, Accounted
<1>9. ASSUME NEW q \in Proc, Crash(q) PROVE Launches' /\ Accounted'
  <2>1. \A a \in Actor : adm'[a] = IF adm[a].p = q THEN NoAdm ELSE adm[a]
    BY <1>9, CrashAdm
  <2>2. NoAdm.pc # "launch"
    BY DEF NoAdm
  <2>3. \A a \in Actor : adm'[a].pc = "launch" => adm'[a] = adm[a]
    BY <2>1, <2>2
  <2>4. /\ DOMAIN runs' = DOMAIN runs
        /\ \A i \in DOMAIN runs :
             /\ runs'[i].live = runs[i].live
             /\ \/ runs'[i] = runs[i] /\ \A a \in Actor : adm[a].p = q /\ adm[a].pc = "launch" => adm[a].run # i
                \/ runs'[i].drv = None /\ runs'[i].lost
    <3>1. DOMAIN runs' = DOMAIN runs
      BY <1>9, CrashRuns
    <3>2. ASSUME NEW i \in DOMAIN runs
          PROVE  /\ runs'[i].live = runs[i].live
                 /\ \/ runs'[i] = runs[i] /\ \A a \in Actor : adm[a].p = q /\ adm[a].pc = "launch" => adm[a].run # i
                    \/ runs'[i].drv = None /\ runs'[i].lost
      BY <1>9, <3>2, CrashRuns
    <3> QED
      BY <3>1, <3>2
  <2>5. Launches'
    <3>1. ASSUME NEW a \in Actor, adm'[a].pc = "launch"
          PROVE  adm'[a].run \in DOMAIN runs' /\ runs'[adm'[a].run].drv = None /\ runs'[adm'[a].run].live
      BY <1>0, <2>3, <2>4, <3>1
    <3> QED
      BY <1>0, <2>3, <3>1 DEF Launches
  <2>6. ASSUME NEW i \in DOMAIN runs', runs'[i].live, runs'[i].drv = None, ~runs'[i].lost
        PROVE  \E b \in Actor : adm'[b].pc = "launch" /\ adm'[b].run = i
    <3>1. /\ i \in DOMAIN runs /\ runs'[i] = runs[i]
          /\ \A a \in Actor : adm[a].p = q /\ adm[a].pc = "launch" => adm[a].run # i
      BY <2>4, <2>6
    <3>2. PICK b \in Actor : adm[b].pc = "launch" /\ adm[b].run = i
      BY <1>0, <2>6, <3>1
    <3> QED
      BY <2>1, <3>1, <3>2
  <2> QED
    BY <2>5, <2>6 DEF Accounted
<1>10. ASSUME UNCHANGED <<runs, adm, capLock, pins>> PROVE Launches' /\ Accounted'
  BY <1>1, <1>10
<1> QED
  BY <1>2, <1>3, <1>4, <1>5, <1>6, <1>7, <1>8, <1>9, <1>10, StepKinds

-----------------------------------------------------------------------------
(* The cursor.                                                             *)

\* What is said of the cursor of each schedule survives every step.
LEMMA CursorStep ==
  ASSUME Shape, CursorAhead, [Next]_vars
  PROVE  CursorAhead'
<1>1. ASSUME trig' = trig, hist'.last = hist.last, hist'.late = hist.late PROVE CursorAhead'
  BY <1>1 DEF CursorAhead
<1>2. ASSUME NEW p \in Proc, NEW w \in Wf, Claim(p, w), Claimable(w, adm[p].at)
      PROVE  CursorAhead'
  <2>0. PICK t : t = adm[p].at
    OBVIOUS
  <2>1. /\ trig' = [trig EXCEPT ![w].next = Advance(w, t)]
        /\ hist' = [hist EXCEPT !.last[w] = Max({hist.last[w], t}),
                                !.late[w] = hist.late[w] /\ Advance(w, t) <= hist.last[w]]
    BY <1>2, <2>0 DEF Claim
  <2>2. t \in 0..MaxNow /\ hist.last[w] \in 0..MaxNow /\ MaxNow \in Nat
    BY <2>0, TriggersAssumption DEF Shape, Adm, AdmRow, Actor
  <2>3. Advance(w, t) # 0 => Advance(w, t) > t
    BY <2>2, NextFireAhead DEF Advance
  <2>4. trig[w].next # 0 /\ trig[w].next <= t
    BY <1>2, <2>0 DEF Claimable
  <2>5. PICK x : x = Max({hist.last[w], t}) /\ x = IF hist.last[w] >= t THEN hist.last[w] ELSE t
    BY <2>2, MaxOfTwo
  <2>6. PICK n : n = Advance(w, t) /\ n \in Nat
    <3>1. t \in Nat
      BY <2>2
    <3>2. Advance(w, t) \in Windows \cup {0}
      BY <3>1, NextFireAhead DEF Advance
    <3> QED
      BY <3>2, CursorNat
  <2>7. /\ trig'[w].next = n /\ hist'.last[w] = x
        /\ hist'.late[w] = (hist.late[w] /\ n <= hist.last[w])
        /\ \A v \in Wf \ {w} : trig'[v] = trig[v] /\ hist'.last[v] = hist.last[v] /\ hist'.late[v] = hist.late[v]
    BY <2>1, <2>5, <2>6 DEF Shape
  <2>8. n # 0 /\ ~hist'.late[w] => n > x
    <3>1. CASE ~hist.late[w]
      <4>1. trig[w].next > hist.last[w]
        BY <2>4, <3>1 DEF CursorAhead
      <4>2. trig[w].next \in Nat
        <5>1. trig[w].next \in Windows \cup {0}
          BY DEF Shape
        <5> QED
          BY <5>1, CursorNat
      <4> QED
        BY <2>2, <2>3, <2>4, <2>5, <2>6, <4>1, <4>2
    <3>2. CASE hist.late[w]
      <4>1. ~hist'.late[w] => ~(n <= hist.last[w])
        BY <2>7, <3>2
      <4>2. hist.last[w] \in Nat /\ t \in Nat
        BY <2>2
      <4> QED
        BY <2>3, <2>5, <2>6, <4>1, <4>2
    <3> QED
      BY <3>1, <3>2
  <2> QED
    BY <2>7, <2>8 DEF CursorAhead
<1>3. ASSUME NEW e \in Ed, SyncWrite(e) \/ PublishCommit(e) PROVE CursorAhead'
  <2>0. PICK w : w = ed[e].w
    OBVIOUS
  <2>1. w \in Wf
    BY <1>3, <2>0 DEF SyncWrite, PublishCommit, Shape, EdSlot
  <2>2. ASSUME NEW n, trig' = [trig EXCEPT ![w] = trig'[w]], trig'[w].next = n, n \in Windows \cup {0},
               hist' = LateMark(w, n)
        PROVE  CursorAhead'
    <3>1. /\ hist'.last = hist.last
          /\ hist'.late[w] = (n # 0 /\ n <= hist.last[w])
          /\ \A v \in Wf \ {w} : hist'.late[v] = hist.late[v]
      BY <2>1, <2>2 DEF LateMark, Shape
    <3>2. \A v \in Wf \ {w} : trig'[v] = trig[v]
      BY <2>2 DEF Shape
    <3>3. n \in Nat /\ hist.last[w] \in Nat
      <4>1. hist.last[w] \in 0..MaxNow /\ MaxNow \in Nat
        BY <2>1, TriggersAssumption DEF Shape
      <4> QED
        BY <2>2, <4>1, CursorNat
    <3>4. n # 0 /\ ~hist'.late[w] => n > hist.last[w]
      <4>1. n # 0 /\ ~hist'.late[w] => ~(n <= hist.last[w])
        BY <3>1
      <4> QED
        BY <3>3, <4>1
    <3> QED
      BY <2>1, <2>2, <3>1, <3>2, <3>4 DEF CursorAhead
  <2>3. CASE SyncWrite(e) /\ ed[e].type = "schedule"
    <3>1. trig' = [trig EXCEPT ![w].on = ed[e].to, ![w].next = ed[e].next] /\ hist' = LateMark(w, ed[e].next)
      BY <2>0, <2>3 DEF SyncWrite
    <3>2. trig'[w].next = ed[e].next /\ trig' = [trig EXCEPT ![w] = trig'[w]]
      BY <2>1, <3>1 DEF Shape
    <3>3. ed[e].next \in Windows \cup {0}
      BY DEF Shape, EdSlot, EdRow
    <3> QED
      BY <2>2, <3>1, <3>2, <3>3
  <2>4. CASE SyncWrite(e) /\ ed[e].type # "schedule"
    <3>1. trig' = [trig EXCEPT ![w].on = ed[e].to, ![w].next = trig[w].next] /\ hist' = hist
      BY <2>0, <2>4 DEF SyncWrite
    <3>2. \A v \in Wf : trig'[v].next = trig[v].next
      BY <2>1, <3>1 DEF Shape
    <3> QED
      BY <3>1, <3>2 DEF CursorAhead
  <2>5. CASE PublishCommit(e)
    <3>1. /\ hist' = LateMark(w, ed[e].next)
          /\ trig' = [trig EXCEPT ![w] = [type |-> ed[e].type, on |-> ed[e].to, next |-> ed[e].next,
                                          tok |-> trig[w].tok /\ ed[e].type = "webhook",
                                          team |-> trig[w].team /\ ed[e].type = "slack"]]
      BY <2>0, <2>5 DEF PublishCommit
    <3>2. trig'[w].next = ed[e].next /\ trig' = [trig EXCEPT ![w] = trig'[w]]
      BY <2>1, <3>1 DEF Shape
    <3>3. ed[e].next \in Windows \cup {0}
      BY DEF Shape, EdSlot, EdRow
    <3> QED
      BY <2>2, <3>1, <3>2, <3>3
  <2> QED
    BY <1>3, <2>3, <2>4, <2>5
<1>4. ASSUME NEW e \in Ed, UpsertType(e) \/ SetToken(e) \/ SetSlackBinding(e) PROVE CursorAhead'
  <2>1. hist' = hist
    BY <1>4 DEF UpsertType, SetToken, SetSlackBinding
  <2>2. \A v \in Wf : trig'[v].next = trig[v].next
    <3>1. CASE UpsertType(e)
      <4>1. \/ trig' = trig
            \/ \E t : trig' = [trig EXCEPT ![ed[e].w] = [trig[ed[e].w] EXCEPT !.type = t]]
        BY <3>1 DEF UpsertType
      <4>2. ASSUME NEW t, trig' = [trig EXCEPT ![ed[e].w] = [trig[ed[e].w] EXCEPT !.type = t]],
                   NEW v \in Wf
            PROVE  trig'[v].next = trig[v].next
        BY <4>2 DEF Shape
      <4> QED
        BY <4>1, <4>2
    <3>2. CASE SetToken(e)
      BY <3>2 DEF SetToken, Shape
    <3>3. CASE SetSlackBinding(e)
      BY <3>3 DEF SetSlackBinding, Shape
    <3> QED
      BY <1>4, <3>1, <3>2, <3>3
  <2> QED
    BY <2>1, <2>2 DEF CursorAhead
<1>5. ASSUME NEW p \in Proc, Crash(p) PROVE CursorAhead'
  <2>1. trig' = trig /\ hist' = [hist EXCEPT !.boot = [hist.boot EXCEPT ![p] = hist.boot[p] + 1]]
    BY <1>5 DEF Crash
  <2>2. hist'.last = hist.last /\ hist'.late = hist.late
    BY <2>1 DEF Shape
  <2> QED
    BY <1>1, <2>1, <2>2
<1>6. ASSUME NEW r \in Req, NEW p \in Proc, Arrive(r, p) PROVE CursorAhead'
  <2>1. trig' = trig
    BY <1>6 DEF Arrive, Deliver, SlackEvent, RunNow, DB
  <2>2. hist' = hist \/ \E F : hist' = [hist EXCEPT !.forgot = F]
    BY <1>6 DEF Arrive, Deliver, SlackEvent, RunNow
  <2>3. hist'.last = hist.last /\ hist'.late = hist.late
    BY <2>2 DEF Shape
  <2> QED
    BY <1>1, <2>1, <2>3
<1>7. ASSUME NEW a \in Actor, Admit(a) PROVE trig' = trig /\ hist' = hist
  BY <1>7 DEF Admit, Reserve, Exhausted, Decide, Refuse, Insert, Launch, DB
<1>8. ASSUME NEW p \in Proc,
             \/ Scan(p) \/ Load(p)
             \/ \E w \in Wf : Claim(p, w) /\ ~Claimable(w, adm[p].at)
             \/ \E w \in Wf : ClaimFails(p, w)
      PROVE  trig' = trig /\ hist' = hist
  BY <1>8 DEF Scan, Load, Claim, ClaimFails, DB
<1>9. ASSUME NEW r \in Req, Serve(r) PROVE trig' = trig /\ hist' = hist
  BY <1>9 DEF Serve, Lookup, Check, ListTriggers, Route, DB
<1>10. ASSUME NEW i \in DOMAIN runs, Settle(i) \/ Release(i) \/ \E p \in Proc : Adopt(p, i)
       PROVE  trig' = trig /\ hist' = hist
  BY <1>10 DEF Settle, Release, Adopt, DB
<1>11. ASSUME \/ \E e \in Ed : PatchWrite(e) \/ SyncRead(e) \/ PublishRead(e)
              \/ \E e \in Ed, w \in Wf : Begin(e, w)
              \/ \E w \in Wf, t \in Types : SaveDraft(w, t)
              \/ Clock
              \/ UNCHANGED vars
       PROVE  trig' = trig /\ hist' = hist
  BY <1>11 DEF PatchWrite, SyncRead, PublishRead, Begin, BeginEdit, SaveDraft, Clock, vars
<1>12. trig' = trig /\ hist' = hist => CursorAhead'
  BY <1>1
<1> QED
  BY <1>2, <1>3, <1>4, <1>5, <1>6, <1>7, <1>8, <1>9, <1>10, <1>11, <1>12 DEF Next, Tick, Edit

-----------------------------------------------------------------------------
(* What a delivery knows of the answer given before it.                    *)

Dispatching == Admitted \cup {"reserve", "launch"}

\* Run i exists and its dispatch is over.
Past(i) ==
    /\ i \in DOMAIN runs
    /\ \A a \in Actor : adm[a].pc = "launch" => adm[a].run # i

\* A delivery that had an answer when it arrived is a keyed one, and once it
\* is past its check no entry of the map has that answer for its key.
HitOK(a) ==
    adm[a].hit # 0 =>
        /\ Past(adm[a].hit)
        /\ adm[a].key # None /\ adm[a].todo = {}
        /\ adm[a].pc \in {"lookup", "check"} \cup Dispatching
        /\ adm[a].pc \in Dispatching => \A j \in DOMAIN idem[adm[a].p] :
             idem[adm[a].p][j].key = <<adm[a].w, adm[a].key>> => idem[adm[a].p][j].run # adm[a].hit

HookInv ==
    /\ \A p \in Proc : \A j \in DOMAIN idem[p] : Past(idem[p][j].run)
    /\ \A a \in Actor : HitOK(a)

\* A run whose dispatch is over stays so: the next one to be launched is new.
LEMMA PastStays ==
  ASSUME Shape, [Next]_vars
  PROVE  \A i : Past(i) => Past(i)'
<1>0. DOMAIN runs = 1..Len(runs) /\ Len(runs) \in Nat
  BY DEF Shape
<1>1. ASSUME DOMAIN runs \subseteq DOMAIN runs',
             \A b \in Actor : adm'[b].pc = "launch" => adm'[b] = adm[b] \/ adm'[b].run \notin DOMAIN runs
      PROVE  \A i : Past(i) => Past(i)'
  BY <1>1 DEF Past
<1>2. ASSUME NEW a \in Actor, Reserve(a) \/ Decide(a) \/ Refuse(a) \/ Launch(a)
      PROVE  \A i : Past(i) => Past(i)'
  <2>1. adm' = [adm EXCEPT ![a] = Over(a)]
        \/ \E v \in {"create", "refuse", "insert"} : adm' = [adm EXCEPT ![a] = [adm[a] EXCEPT !.pc = v]]
    BY <1>2 DEF Reserve, Decide, Refuse, Launch
  <2>2. \A v : [adm[a] EXCEPT !.pc = v].pc = v
    BY DEF Shape, Adm, AdmRow
  <2>3. Over(a).pc # "launch"
    BY <1>2, OverShape DEF Refuse, Launch, Reserve, Decide
  <2>4. adm'[a].pc # "launch" /\ \A b \in Actor \ {a} : adm'[b] = adm[b]
    BY <2>1, <2>2, <2>3 DEF Shape
  <2>5. DOMAIN runs' = DOMAIN runs
    BY <1>2 DEF Reserve, Decide, Refuse, Launch
  <2> QED
    BY <1>1, <2>4, <2>5
<1>3. ASSUME NEW a \in Actor, Insert(a) PROVE \A i : Past(i) => Past(i)'
  <2>1. PICK r : runs' = Append(runs, r)
                 /\ adm' = [adm EXCEPT ![a] = [adm[a] EXCEPT !.pc = "launch", !.run = Len(runs) + 1]]
    BY <1>3 DEF Insert
  <2>2. DOMAIN runs' = 1..Len(runs) + 1
    BY <2>1 DEF Shape
  <2>3. adm'[a].run = Len(runs) + 1 /\ \A b \in Actor \ {a} : adm'[b] = adm[b]
    BY <2>1 DEF Shape, Adm, AdmRow
  <2>4. Len(runs) + 1 \notin DOMAIN runs
    BY <1>0
  <2> QED
    BY <1>0, <1>1, <2>2, <2>3, <2>4
<1>4. ASSUME NEW a \in Actor, Aside(a) PROVE \A i : Past(i) => Past(i)'
  BY <1>1, <1>4 DEF Aside, Held
<1>5. ASSUME NEW i \in DOMAIN runs, Settle(i) \/ Release(i) \/ \E p \in Proc : Adopt(p, i)
      PROVE  \A j : Past(j) => Past(j)'
  <2>1. DOMAIN runs' = DOMAIN runs /\ adm' = adm
    BY <1>5 DEF Settle, Release, Adopt
  <2> QED
    BY <1>1, <2>1
<1>6. ASSUME NEW p \in Proc, Crash(p) PROVE \A i : Past(i) => Past(i)'
  <2>1. DOMAIN runs' = DOMAIN runs
    BY <1>6, CrashRuns
  <2>2. \A b \in Actor : adm'[b].pc = "launch" => adm'[b] = adm[b]
    BY <1>6, CrashAdm DEF NoAdm
  <2> QED
    BY <1>1, <2>1, <2>2
<1>7. ASSUME UNCHANGED <<runs, adm, capLock, pins>> PROVE \A i : Past(i) => Past(i)'
  BY <1>1, <1>7
<1> QED
  BY <1>2, <1>3, <1>4, <1>5, <1>6, <1>7, StepKinds

\* A step of one actor that leaves the map alone, and what the actor knows of
\* an earlier answer, if anything.
LEMMA HookOne ==
  ASSUME Shape, HookInv, [Next]_vars, idem' = idem,
         NEW a \in Actor, NEW r, adm' = [adm EXCEPT ![a] = r],
         r.hit # 0 =>
           /\ r.hit = adm[a].hit /\ r.key = adm[a].key /\ r.w = adm[a].w
           /\ r.p = adm[a].p /\ r.todo = adm[a].todo
           /\ r.pc \in {"lookup", "check"} \cup Dispatching
           /\ r.pc \in Dispatching => adm[a].pc \in Dispatching
  PROVE  HookInv'
<1>1. \A i : Past(i) => Past(i)'
  BY PastStays
<1>2. adm'[a] = r /\ \A b \in Actor \ {a} : adm'[b] = adm[b]
  BY DEF Shape
<1>3. (\A p \in Proc : \A j \in DOMAIN idem[p] : Past(idem[p][j].run))'
  <2>1. ASSUME NEW p \in Proc, NEW j \in DOMAIN idem'[p] PROVE Past(idem[p][j].run)'
    <3>1. PICK i : i = idem[p][j].run /\ i = idem'[p][j].run
      OBVIOUS
    <3>2. Past(i)
      BY <2>1, <3>1 DEF HookInv
    <3> QED
      BY <1>1, <3>1, <3>2
  <2> QED
    BY <2>1
<1>4. ASSUME NEW b \in Actor, adm'[b].hit # 0
      PROVE  HitOK(b)'
  <2>1. PICK h : h = adm[b].hit /\ h = adm'[b].hit
    BY <1>2, <1>4
  <2>2. Past(h)
    BY <1>4, <2>1 DEF HookInv, HitOK
  <2>3. Past(h)'
    BY <1>1, <2>2
  <2> QED
    BY <1>2, <1>4, <2>1, <2>3 DEF HookInv, HitOK
<1> QED
  BY <1>3, <1>4 DEF HookInv, HitOK

\* A delivery that has an answer goes from step to step with it.
LEMMA HookTurn ==
  ASSUME Shape, HookInv, [Next]_vars, idem' = idem,
         NEW a \in Actor, NEW v, adm' = [adm EXCEPT ![a] = [adm[a] EXCEPT !.pc = v]],
         v \in Dispatching, adm[a].pc \in Dispatching \/ adm[a].hit = 0
  PROVE  HookInv'
<1> DEFINE r == [adm[a] EXCEPT !.pc = v]
<1>1. /\ r.pc = v /\ r.hit = adm[a].hit /\ r.key = adm[a].key /\ r.w = adm[a].w
      /\ r.p = adm[a].p /\ r.todo = adm[a].todo
  BY DEF Shape, Adm, AdmRow
<1>2. adm' = [adm EXCEPT ![a] = r]
  OBVIOUS
<1> HIDE DEF r
<1> QED
  BY <1>1, <1>2, HookOne

\* An actor that has no answer, or loses it, disturbs nobody's.
LEMMA HookNone ==
  ASSUME Shape, HookInv, [Next]_vars, idem' = idem,
         NEW a \in Actor, NEW r, adm' = [adm EXCEPT ![a] = r], r.hit = 0
  PROVE  HookInv'
BY HookOne

\* After its dispatch an actor has no answer.
LEMMA OverHit ==
  ASSUME Shape, HookInv, NEW a \in Actor
  PROVE  Over(a).hit = 0
<1>1. CASE adm[a].todo = {}
  BY <1>1 DEF Over, NoAdm
<1>2. CASE adm[a].todo # {}
  <2>1. adm[a].hit = 0
    BY <1>2 DEF HookInv, HitOK
  <2>2. Over(a).hit = adm[a].hit
    BY <1>2 DEF Over, Shape, Adm, AdmRow
  <2> QED
    BY <2>1, <2>2
<1> QED
  BY <1>1, <1>2

\* An actor turns to another step; drops a workflow from those it still has
\* to see; or takes one of them.
Turn(r, v) == [r EXCEPT !.pc = v]
Drop(r, w) == [r EXCEPT !.todo = r.todo \ {w}]
Take(r, v, w) == [r EXCEPT !.pc = v, !.todo = r.todo \ {w}, !.w = w]

Same(s, r) == s.p = r.p /\ s.src = r.src /\ s.key = r.key /\ s.msg = r.msg /\ s.run = r.run /\ s.hit = r.hit

\* Each of them leaves the rest of what the actor is doing.
LEMMA RowKept ==
  ASSUME NEW r \in AdmRow, NEW v, NEW w
  PROVE  /\ Turn(r, v).pc = v /\ Turn(r, v).w = r.w /\ Turn(r, v).todo = r.todo /\ Same(Turn(r, v), r)
         /\ Drop(r, w).pc = r.pc /\ Drop(r, w).w = r.w /\ Drop(r, w).todo = r.todo \ {w} /\ Same(Drop(r, w), r)
         /\ Take(r, v, w).pc = v /\ Take(r, v, w).w = w /\ Take(r, v, w).todo = r.todo \ {w}
         /\ Same(Take(r, v, w), r)
BY DEF AdmRow, Turn, Drop, Take, Same

\* An actor that still has workflows to see has no answer, whatever it does
\* with one of them.
LEMMA HookDrop ==
  ASSUME Shape, HookInv, [Next]_vars, idem' = idem,
         NEW a \in Actor, NEW w \in Wf, adm[a].pc \in {"claim", "route"},
         NEW r, adm' = [adm EXCEPT ![a] = r],
         r = NoAdm \/ r = Drop(adm[a], w) \/ \E v : r = Take(adm[a], v, w)
  PROVE  HookInv'
<1>1. adm[a].hit = 0 /\ adm[a] \in AdmRow
  BY DEF HookInv, HitOK, Dispatching, Admitted, Shape, Adm
<1>2. NoAdm.hit = 0
  BY DEF NoAdm
<1>3. r.hit = 0
  BY <1>1, <1>2, RowKept DEF Same
<1> QED
  BY <1>3, HookNone

\* A delivery goes past its check only if no answer is remembered for its key.
LEMMA HookCheck ==
  ASSUME Shape, LockInv, HookInv, [Next]_vars, NEW r \in Req, Check(r)
  PROVE  HookInv'
<1>0. r \in Actor /\ adm[r].pc = "check" /\ idem' = idem
  BY DEF Actor, Check, Memory
<1>1. CASE adm' = [adm EXCEPT ![r] = NoAdm]
  <2>1. NoAdm.hit = 0
    BY DEF NoAdm
  <2> QED
    BY <1>0, <1>1, <2>1, HookNone
<1>2. CASE ~Answered(r) /\ adm' = [adm EXCEPT ![r] = [adm[r] EXCEPT !.pc = "reserve"]]
  <2>1. CASE adm[r].hit = 0
    BY <1>0, <1>2, <2>1, HookTurn DEF Dispatching
  <2>2. CASE adm[r].hit # 0
    <3> DEFINE s == [adm[r] EXCEPT !.pc = "reserve"]
    <3>1. /\ s.pc = "reserve" /\ s.hit = adm[r].hit /\ s.key = adm[r].key /\ s.w = adm[r].w
          /\ s.p = adm[r].p /\ s.todo = adm[r].todo
      BY <1>0 DEF Shape, Adm, AdmRow
    <3>2. adm' = [adm EXCEPT ![r] = s]
      BY <1>2
    <3> HIDE DEF s
    <3>3. adm'[r] = s /\ \A b \in Actor \ {r} : adm'[b] = adm[b]
      BY <1>0, <3>2 DEF Shape
    <3>4. \A i : Past(i) => Past(i)'
      BY PastStays
    <3>5. PICK h, p, k : h = adm[r].hit /\ p = adm[r].p /\ k = <<adm[r].w, adm[r].key>>
      OBVIOUS
    <3>6. Past(h) /\ adm[r].key # None /\ adm[r].todo = {}
      BY <1>0, <2>2, <3>5 DEF HookInv, HitOK
    <3>7. Recall(p, k) = 0 /\ p \in Proc /\ idem[p] \in Seq(IdemRow)
      BY <1>0, <1>2, <3>5, <3>6 DEF Answered, Shape, Adm
    <3>8. ASSUME NEW l \in DOMAIN idem[p] PROVE idem[p][l].run # 0
      <4>1. idem[p][l].run \in DOMAIN runs /\ DOMAIN runs = 1..Len(runs)
        BY <3>7, <3>8 DEF HookInv, Past, Shape
      <4> QED
        BY <4>1
    <3>9. \A j \in DOMAIN idem[p] : idem[p][j].key # k
      BY <3>7, <3>8, RecallMisses
    <3>10. HitOK(r)'
      <4>1. Past(h)'
        BY <3>4, <3>6
      <4>2. adm'[r].hit = h /\ adm'[r].key # None /\ adm'[r].todo = {} /\ adm'[r].pc \in Dispatching
        BY <3>1, <3>3, <3>5, <3>6 DEF Dispatching
      <4>3. \A j \in DOMAIN idem'[adm'[r].p] : idem'[adm'[r].p][j].key # <<adm'[r].w, adm'[r].key>>
        BY <1>0, <3>1, <3>3, <3>5, <3>9
      <4> QED
        BY <4>1, <4>2, <4>3 DEF HitOK
    <3>11. ASSUME NEW b \in Actor \ {r} PROVE HitOK(b)'
      <4>1. PICK g : g = adm[b].hit
        OBVIOUS
      <4>2. g # 0 => Past(g) /\ Past(g)'
        BY <3>4, <4>1 DEF HookInv, HitOK
      <4> QED
        BY <1>0, <3>3, <4>1, <4>2 DEF HookInv, HitOK
    <3>12. ASSUME NEW q \in Proc, NEW j \in DOMAIN idem'[q] PROVE Past(idem[q][j].run)'
      <4>1. PICK i : i = idem[q][j].run /\ i = idem'[q][j].run
        BY <1>0
      <4>2. Past(i)
        BY <1>0, <3>12, <4>1 DEF HookInv
      <4> QED
        BY <3>4, <4>1, <4>2
    <3> QED
      BY <1>0, <3>10, <3>11, <3>12 DEF HookInv
  <2> QED
    BY <2>1, <2>2
<1> QED
  BY <1>1, <1>2 DEF Check

\* A delivery arrives: the answer it finds is of a dispatch that is over.
LEMMA HookDeliver ==
  ASSUME Shape, HookInv, [Next]_vars,
         NEW r \in Req, NEW p \in Proc, NEW w \in Wf, NEW k \in Key, Deliver(r, p, w, k)
  PROVE  HookInv'
<1> DEFINE h == IF k = None THEN 0 ELSE Recall(p, <<w, k>>)
           s == [NoAdm EXCEPT !.pc = "lookup", !.p = p, !.src = "webhook", !.w = w, !.key = k, !.hit = h]
<1>0. r \in Actor /\ adm' = [adm EXCEPT ![r] = s] /\ idem' = idem
  BY DEF Actor, Deliver, Memory
<1>1. h # 0 => k # None /\ Past(h)
  <2> SUFFICES ASSUME h # 0 PROVE k # None /\ Past(h)
    OBVIOUS
  <2>1. k # None /\ Recall(p, <<w, k>>) # 0 /\ h = Recall(p, <<w, k>>)
    OBVIOUS
  <2>2. idem[p] \in Seq(IdemRow)
    BY DEF Shape
  <2>3. PICK j \in DOMAIN idem[p] : idem[p][j].run = Recall(p, <<w, k>>)
    BY <2>1, <2>2, RecallFinds
  <2> HIDE DEF h
  <2>4. Past(idem[p][j].run)
    BY DEF HookInv
  <2> QED
    BY <2>1, <2>3, <2>4
<1>2. s.hit = h /\ s.key = k /\ s.todo = {} /\ s.pc = "lookup"
  <2> HIDE DEF h
  <2> QED
    BY DEF NoAdm
<1>3. \A b \in Actor \ {r} : adm'[b] = adm[b]
  BY <1>0 DEF Shape
<1>4. adm'[r] = s
  BY <1>0 DEF Shape
<1>5. \A i : Past(i) => Past(i)'
  BY PastStays
<1> HIDE DEF s
<1>6. PICK g : g = h /\ (g # 0 => k # None /\ Past(g))
  BY <1>1
<1> HIDE DEF h
<1>7. HitOK(r)'
  <2>1. g # 0 => Past(g)'
    BY <1>5, <1>6
  <2>2. adm'[r].hit = g /\ adm'[r].key = k /\ adm'[r].todo = {} /\ adm'[r].pc = "lookup"
    BY <1>2, <1>4, <1>6
  <2> QED
    BY <1>6, <2>1, <2>2 DEF HitOK, Dispatching, Admitted
<1>8. ASSUME NEW b \in Actor \ {r} PROVE HitOK(b)'
  <2>1. PICK x : x = adm[b].hit
    OBVIOUS
  <2>2. x # 0 => Past(x) /\ Past(x)'
    BY <1>5, <2>1 DEF HookInv, HitOK
  <2> QED
    BY <1>0, <1>3, <2>1, <2>2 DEF HookInv, HitOK
<1>9. ASSUME NEW q \in Proc, NEW j \in DOMAIN idem'[q] PROVE Past(idem[q][j].run)'
  <2>1. PICK i : i = idem[q][j].run /\ i = idem'[q][j].run
    BY <1>0
  <2>2. Past(i)
    BY <1>0, <1>9, <2>1 DEF HookInv
  <2> QED
    BY <1>5, <2>1, <2>2
<1> QED
  BY <1>0, <1>7, <1>8, <1>9 DEF HookInv

\* What Claim, ClaimFails and Route make of their actor.
LEMMA TodoSteps ==
  ASSUME Shape, NEW a \in Actor, NEW w \in Wf, Claim(a, w) \/ ClaimFails(a, w) \/ Route(a, w)
  PROVE  /\ adm[a].pc \in {"claim", "route"} /\ w \in adm[a].todo
         /\ \E r : /\ adm' = [adm EXCEPT ![a] = r]
                   /\ \/ r = NoAdm
                      \/ r = Drop(adm[a], w)
                      \/ r = Take(adm[a], "load", w) /\ adm[a].pc = "claim"
                      \/ r = Take(adm[a], "reserve", w)
<1>1. adm[a].pc \in {"claim", "route"} /\ w \in adm[a].todo
  BY DEF Claim, ClaimFails, Route
<1>2. \/ adm[a].pc = "claim" /\ adm' = [adm EXCEPT ![a].pc = "load", ![a].todo = @ \ {w}, ![a].w = w]
      \/ adm' = [adm EXCEPT ![a].pc = "reserve", ![a].w = w, ![a].todo = @ \ {w}]
      \/ adm' = [adm EXCEPT ![a] = LET rest == [adm[a] EXCEPT !.todo = @ \ {w}]
                                   IN  IF rest.todo = {} THEN NoAdm ELSE rest]
  BY DEF Claim, ClaimFails, Route
<1>3. CASE adm[a].pc = "claim" /\ adm' = [adm EXCEPT ![a].pc = "load", ![a].todo = @ \ {w}, ![a].w = w]
  <2>1. adm' = [adm EXCEPT ![a] = Take(adm[a], "load", w)]
    BY <1>3 DEF Shape, Adm, AdmRow, Take
  <2>2. PICK r : r = Take(adm[a], "load", w) /\ adm' = [adm EXCEPT ![a] = r]
    BY <2>1
  <2> QED
    BY <1>1, <1>3, <2>2
<1>4. CASE adm' = [adm EXCEPT ![a].pc = "reserve", ![a].w = w, ![a].todo = @ \ {w}]
  <2>1. adm' = [adm EXCEPT ![a] = Take(adm[a], "reserve", w)]
    BY <1>4 DEF Shape, Adm, AdmRow, Take
  <2>2. PICK r : r = Take(adm[a], "reserve", w) /\ adm' = [adm EXCEPT ![a] = r]
    BY <2>1
  <2> QED
    BY <1>1, <1>4, <2>2
<1>5. CASE adm' = [adm EXCEPT ![a] = LET rest == [adm[a] EXCEPT !.todo = @ \ {w}]
                                     IN  IF rest.todo = {} THEN NoAdm ELSE rest]
  <2>1. adm' = [adm EXCEPT ![a] = NoAdm] \/ adm' = [adm EXCEPT ![a] = Drop(adm[a], w)]
    BY <1>5 DEF Drop
  <2> QED
    BY <1>1, <2>1
<1> QED
  BY <1>2, <1>3, <1>4, <1>5

\* A launch remembers the run it started, under its key: an answer that no
\* delivery under way has.
LEMMA HookLaunch ==
  ASSUME Shape, LockInv, HookInv, [Next]_vars, NEW a \in Actor, Launch(a)
  PROVE  HookInv'
<1>0. PICK i, p, k : i = adm[a].run /\ p = adm[a].p /\ k = <<adm[a].w, adm[a].key>>
  OBVIOUS
<1>1. /\ adm[a].pc = "launch" /\ adm' = [adm EXCEPT ![a] = Over(a)] /\ DOMAIN runs' = DOMAIN runs
      /\ idem' = idem \/ idem' = [idem EXCEPT ![p] = Remember(idem[p], k, i)]
  BY <1>0 DEF Launch
<1>2. adm'[a] = Over(a) /\ \A b \in Actor \ {a} : adm'[b] = adm[b]
  BY <1>1 DEF Shape
<1>3. p \in Proc /\ idem[p] \in Seq(IdemRow) /\ [key |-> k, run |-> i] \in IdemRow
  <2>1. adm[a] \in AdmRow /\ adm[a].p \in Proc /\ adm[a].w \in Wf
    BY <1>1 DEF Shape, Adm
  <2>2. adm[a].key \in Key \cup {None} /\ adm[a].run \in Nat
    BY <2>1 DEF AdmRow
  <2> QED
    BY <1>0, <2>1, <2>2 DEF Shape, IdemRow
<1>4. \A j : Past(j) => Past(j)'
  BY PastStays
<1>5. Past(i)'
  <2>1. i \in DOMAIN runs /\ \A b \in Actor \ {a} : adm[b].pc = "launch" => adm[b].run # i
    BY <1>0, <1>1 DEF LockInv, Launches
  <2>2. adm'[a].pc # "launch"
    BY <1>1, <1>2, OverShape
  <2> QED
    BY <1>1, <1>2, <2>1, <2>2 DEF Past
<1>6. ~Past(i)
  BY <1>0, <1>1 DEF Past
<1>7. ASSUME NEW q \in Proc, NEW j \in DOMAIN idem'[q]
      PROVE  \/ \E l \in DOMAIN idem[q] : idem'[q][j] = idem[q][l]
             \/ idem'[q][j] = [key |-> k, run |-> i]
  <2>1. CASE idem'[q] = idem[q]
    BY <1>7, <2>1
  <2>2. CASE q = p /\ idem'[q] = Remember(idem[p], k, i)
    BY <1>3, <1>7, <2>2, RememberKeeps
  <2> QED
    BY <1>1, <1>3, <2>1, <2>2 DEF Shape
<1>8. ASSUME NEW q \in Proc, NEW j \in DOMAIN idem'[q] PROVE Past(idem[q][j].run)'
  <2>1. PICK x : x = idem'[q][j].run
    OBVIOUS
  <2>2. x = i \/ \E l \in DOMAIN idem[q] : x = idem[q][l].run
    BY <1>7, <2>1
  <2>3. x = i \/ Past(x)
    BY <2>2 DEF HookInv
  <2>4. Past(x)'
    BY <1>4, <1>5, <2>3
  <2> QED
    BY <2>1, <2>4
<1>9. ASSUME NEW b \in Actor, adm'[b].hit # 0 PROVE HitOK(b)'
  <2>1. b # a
    BY <1>2, <1>9, OverHit
  <2>2. PICK h, q : h = adm[b].hit /\ q = adm[b].p
    OBVIOUS
  <2>3. adm'[b] = adm[b] /\ h # 0
    BY <1>2, <1>9, <2>1, <2>2
  <2>4. Past(h) /\ Past(h)' /\ h # i /\ adm[b].key # None /\ adm[b].todo = {}
        /\ adm[b].pc \in {"lookup", "check"} \cup Dispatching
    BY <1>4, <1>6, <2>2, <2>3 DEF HookInv, HitOK
  <2>5. ASSUME adm[b].pc \in Dispatching, NEW j \in DOMAIN idem'[q],
               idem'[q][j].key = <<adm[b].w, adm[b].key>>
        PROVE  idem'[q][j].run # h
    <3>1. q \in Proc
      BY <2>2, <2>5 DEF Shape, Adm, Dispatching, Admitted
    <3>2. CASE idem'[q][j] = [key |-> k, run |-> i]
      BY <2>4, <3>2
    <3>3. CASE \E l \in DOMAIN idem[q] : idem'[q][j] = idem[q][l]
      BY <2>2, <2>3, <2>5, <3>3 DEF HookInv, HitOK
    <3> QED
      BY <1>7, <2>5, <3>1, <3>2, <3>3
  <2> QED
    BY <2>2, <2>3, <2>4, <2>5 DEF HitOK
<1> QED
  BY <1>8, <1>9 DEF HookInv, HitOK

\* A crash leaves the process without its memory and without its deliveries.
LEMMA HookCrash ==
  ASSUME Shape, HookInv, [Next]_vars, NEW p \in Proc, Crash(p)
  PROVE  HookInv'
<1>1. \A a \in Actor : adm'[a] = IF adm[a].p = p THEN NoAdm ELSE adm[a]
  BY CrashAdm
<1>2. idem' = [idem EXCEPT ![p] = <<>>]
  BY DEF Crash
<1>3. \A i : Past(i) => Past(i)'
  BY PastStays
<1>4. ASSUME NEW q \in Proc, NEW j \in DOMAIN idem'[q] PROVE Past(idem[q][j].run)'
  <2>1. q # p /\ idem'[q] = idem[q]
    BY <1>2, <1>4 DEF Shape
  <2>2. PICK x : x = idem[q][j].run /\ x = idem'[q][j].run
    BY <2>1
  <2>3. Past(x)
    BY <1>4, <2>1, <2>2 DEF HookInv
  <2> QED
    BY <1>3, <2>2, <2>3
<1>5. ASSUME NEW b \in Actor, adm'[b].hit # 0 PROVE HitOK(b)'
  <2>1. adm'[b] = adm[b] /\ adm[b].p # p
    BY <1>1, <1>5 DEF NoAdm
  <2>2. PICK h : h = adm[b].hit
    OBVIOUS
  <2>3. h # 0 /\ Past(h) /\ Past(h)'
    BY <1>3, <1>5, <2>1, <2>2 DEF HookInv, HitOK
  <2>4. idem'[adm[b].p] = idem[adm[b].p]
    BY <1>2, <2>1 DEF Shape
  <2> QED
    BY <2>1, <2>2, <2>3, <2>4 DEF HookInv, HitOK
<1> QED
  BY <1>4, <1>5 DEF HookInv, HitOK

\* Every step keeps what deliveries know of earlier answers.
LEMMA HookStep ==
  ASSUME Shape, LockInv, HookInv, [Next]_vars
  PROVE  HookInv'
<1>0. Proc \subseteq Actor /\ Req \subseteq Actor /\ NoAdm.hit = 0
  BY DEF Actor, NoAdm
<1>1. ASSUME NEW a \in Actor, Admit(a) PROVE HookInv'
  <2>1. CASE Reserve(a) \/ Decide(a)
    <3>1. PICK v \in {"create", "refuse", "insert"} : adm' = [adm EXCEPT ![a] = [adm[a] EXCEPT !.pc = v]]
      BY <2>1 DEF Reserve, Decide
    <3>2. v \in Dispatching /\ adm[a].pc \in Dispatching /\ idem' = idem
      BY <2>1 DEF Reserve, Decide, Dispatching, Admitted, Memory
    <3> QED
      BY <3>1, <3>2, HookTurn
  <2>2. CASE Exhausted(a) \/ Refuse(a)
    <3>1. adm' = [adm EXCEPT ![a] = Over(a)] /\ idem' = idem
      BY <2>2 DEF Exhausted, Refuse, Memory
    <3> QED
      BY <3>1, OverHit, HookNone
  <2>3. CASE Insert(a)
    <3> DEFINE s == [adm[a] EXCEPT !.pc = "launch", !.run = Len(runs) + 1]
    <3>1. adm[a].pc = "insert" /\ adm' = [adm EXCEPT ![a] = s] /\ idem' = idem
      BY <2>3 DEF Insert, Memory
    <3>2. /\ s.pc = "launch" /\ s.hit = adm[a].hit /\ s.key = adm[a].key /\ s.w = adm[a].w
          /\ s.p = adm[a].p /\ s.todo = adm[a].todo
      BY DEF Shape, Adm, AdmRow
    <3> HIDE DEF s
    <3> QED
      BY <3>1, <3>2, HookOne DEF Dispatching, Admitted
  <2> QED
    BY <1>1, <2>1, <2>2, <2>3, HookLaunch DEF Admit
<1>2. ASSUME NEW p \in Proc, Scan(p) PROVE HookInv'
  <2>1. PICK r : r.hit = 0 /\ adm' = [adm EXCEPT ![p] = r]
    BY <1>2 DEF Scan, NoAdm
  <2>2. idem' = idem
    BY <1>2 DEF Scan, Memory
  <2> QED
    BY <1>0, <2>1, <2>2, HookNone
<1>3. ASSUME NEW p \in Proc, Load(p) PROVE HookInv'
  <2>1. adm' = [adm EXCEPT ![p] = [adm[p] EXCEPT !.pc = "reserve"]] \/ adm' = [adm EXCEPT ![p] = Over(p)]
    BY <1>3 DEF Load
  <2>2. idem' = idem /\ adm[p].pc = "load"
    BY <1>3 DEF Load, Memory
  <2>3. adm[p].hit = 0
    BY <1>0, <2>2 DEF HookInv, HitOK, Dispatching, Admitted
  <2>4. "reserve" \in Dispatching
    BY DEF Dispatching
  <2> QED
    BY <1>0, <2>1, <2>2, <2>3, <2>4, HookTurn, HookNone, OverHit
<1>4. ASSUME NEW a \in Actor, NEW w \in Wf, Claim(a, w) \/ ClaimFails(a, w) \/ Route(a, w) PROVE HookInv'
  <2>1. PICK r : /\ adm' = [adm EXCEPT ![a] = r]
                 /\ r = NoAdm \/ r = Drop(adm[a], w) \/ \E v : r = Take(adm[a], v, w)
    BY <1>4, TodoSteps
  <2>2. adm[a].pc \in {"claim", "route"}
    BY <1>4, TodoSteps
  <2>3. idem' = idem
    BY <1>4 DEF Claim, ClaimFails, Route, Memory
  <2> QED
    BY <2>1, <2>2, <2>3, HookDrop
<1>5. ASSUME NEW r \in Req, Lookup(r) PROVE HookInv'
  <2>1. CASE adm' = [adm EXCEPT ![r] = [adm[r] EXCEPT !.pc = "check", !.ok = Enabled(adm[r].w)]]
    <3> DEFINE s == [adm[r] EXCEPT !.pc = "check", !.ok = Enabled(adm[r].w)]
    <3>1. /\ s.pc = "check" /\ s.hit = adm[r].hit /\ s.key = adm[r].key /\ s.w = adm[r].w
          /\ s.p = adm[r].p /\ s.todo = adm[r].todo
      BY <1>0 DEF Shape, Adm, AdmRow
    <3>2. adm' = [adm EXCEPT ![r] = s] /\ idem' = idem
      BY <1>5, <2>1 DEF Lookup, Memory
    <3> HIDE DEF s
    <3> QED
      BY <1>0, <3>1, <3>2, HookOne DEF Dispatching, Admitted
  <2>2. CASE adm' = [adm EXCEPT ![r] = NoAdm]
    <3>1. idem' = idem
      BY <1>5 DEF Lookup, Memory
    <3> QED
      BY <1>0, <2>2, <3>1, HookNone
  <2> QED
    BY <1>5, <2>1, <2>2 DEF Lookup
<1>6. ASSUME NEW r \in Req, ListTriggers(r) PROVE HookInv'
  <2>1. PICK T : adm' = [adm EXCEPT ![r] = NoAdm]
                 \/ adm' = [adm EXCEPT ![r] = [adm[r] EXCEPT !.pc = "route", !.todo = T]]
    BY <1>6 DEF ListTriggers
  <2>2. idem' = idem /\ adm[r].pc = "list"
    BY <1>6 DEF ListTriggers, Memory
  <2>3. adm[r].hit = 0
    BY <1>0, <2>2 DEF HookInv, HitOK, Dispatching, Admitted
  <2>4. [adm[r] EXCEPT !.pc = "route", !.todo = T].hit = adm[r].hit
    BY <1>0 DEF Shape, Adm, AdmRow
  <2> QED
    BY <1>0, <2>1, <2>2, <2>3, <2>4, HookNone
<1>7. ASSUME NEW r \in Req, NEW p \in Proc, NEW m \in Msg, NEW kind \in {"app_mention", "message"},
             SlackEvent(r, p, m, kind)
      PROVE  HookInv'
  <2> DEFINE s == [NoAdm EXCEPT !.pc = "list", !.p = p, !.src = kind, !.msg = m]
  <2>1. adm' = [adm EXCEPT ![r] = s] /\ idem' = idem
    BY <1>7 DEF SlackEvent
  <2>2. s.hit = 0
    BY DEF NoAdm
  <2> HIDE DEF s
  <2> QED
    BY <1>0, <2>1, <2>2, HookNone
<1>8. ASSUME NEW r \in Req, NEW p \in Proc, NEW w \in Wf, RunNow(r, p, w) PROVE HookInv'
  <2> DEFINE s == [NoAdm EXCEPT !.pc = "reserve", !.p = p, !.src = "manual", !.w = w]
  <2>1. adm' = [adm EXCEPT ![r] = s] /\ idem' = idem
    BY <1>8 DEF RunNow, Memory
  <2>2. s.hit = 0
    BY DEF NoAdm
  <2> HIDE DEF s
  <2> QED
    BY <1>0, <2>1, <2>2, HookNone
<1>9. ASSUME adm' = adm, idem' = idem PROVE HookInv'
  <2>1. \A i : Past(i) => Past(i)'
    BY PastStays
  <2>2. ASSUME NEW q \in Proc, NEW j \in DOMAIN idem'[q] PROVE Past(idem[q][j].run)'
    <3>1. PICK x : x = idem[q][j].run /\ x = idem'[q][j].run
      BY <1>9
    <3>2. Past(x)
      BY <1>9, <2>2, <3>1 DEF HookInv
    <3> QED
      BY <2>1, <3>1, <3>2
  <2>3. ASSUME NEW b \in Actor PROVE HitOK(b)'
    <3>1. PICK h : h = adm[b].hit /\ h = adm'[b].hit
      BY <1>9
    <3>2. h # 0 => Past(h)'
      BY <2>1, <3>1 DEF HookInv, HitOK
    <3> QED
      BY <1>9, <3>1, <3>2 DEF HookInv, HitOK
  <2> QED
    BY <1>9, <2>2, <2>3 DEF HookInv
<1>10. ASSUME \/ \E i \in DOMAIN runs : Settle(i) \/ Release(i) \/ \E p \in Proc : Adopt(p, i)
              \/ \E e \in Ed : Edit(e)
              \/ \E e \in Ed, w \in Wf : Begin(e, w)
              \/ \E w \in Wf, t \in Types : SaveDraft(w, t)
              \/ Clock
              \/ UNCHANGED vars
       PROVE  adm' = adm /\ idem' = idem
  BY <1>10 DEF Settle, Release, Adopt, Edit, PatchWrite, SyncRead, SyncWrite, PublishRead, PublishCommit,
               UpsertType, SetToken, SetSlackBinding, Begin, BeginEdit, SaveDraft, Clock, NotEditing, Memory, vars
<1> QED
  BY <1>0, <1>1, <1>2, <1>3, <1>4, <1>5, <1>6, <1>7, <1>8, <1>9, <1>10, HookCheck, HookDeliver, HookCrash
     DEF Next, Tick, Serve, Arrive
-----------------------------------------------------------------------------
(* What a process knows of the Slack messages it was told.                 *)

\* Message m told to p as routing takes it; p has not forgotten it since it
\* started; a run of w that p has started for m since then.
KindOf(m) == IF m \in Mention THEN "app_mention" ELSE "message"
Seen(p, m) == Known(p, <<m, KindOf(m)>>)
Kept(p, m) == <<p, hist.boot[p], m>> \notin hist.forgot
Started(p, m, w) ==
    \E i \in DOMAIN runs : runs[i].msg = m /\ runs[i].by = <<p, hist.boot[p]>> /\ runs[i].w = w

\* A delivery that routing takes, and the raw twin of a mention, that it drops.
Carries(r) == r.msg # None /\ r.src = KindOf(r.msg)
Dropped(r) == r.pc = "list" /\ r.src = "message" /\ r.msg \in Mention

\* No workflow the delivery has yet to dispatch has a run of its message.
Ordered(r) ==
    /\ r.pc = "list" => \A w \in Wf : ~Started(r.p, r.msg, w)
    /\ \A w \in r.todo : ~Started(r.p, r.msg, w)
    /\ r.pc \in Admitted \cup {"reserve"} => ~Started(r.p, r.msg, r.w)
    /\ r.pc \in Dispatching => r.w \notin r.todo

\* What a delivery is doing: it is at one of Slack's steps, and as long as its
\* message is remembered it is marked and dispatched in order.
Sound(r) ==
    r.msg # None =>
        /\ r.pc \in {"list", "route"} \cup Dispatching
        /\ Carries(r) \/ Dropped(r)
        /\ Carries(r) /\ Kept(r.p, r.msg) => Seen(r.p, r.msg) /\ Ordered(r)

\* The runs of a message that is remembered: their process has it marked.
Marked ==
    \A i \in DOMAIN runs :
        LET p == runs[i].by[1] IN
        /\ runs[i].by[2] <= hist.boot[p]
        /\ runs[i].msg # None /\ runs[i].by[2] = hist.boot[p] /\ Kept(p, runs[i].msg) => Seen(p, runs[i].msg)

\* One delivery at a time carries a message that is remembered.
Alone ==
    \A a, b \in Actor :
        /\ Carries(adm[a]) /\ Carries(adm[b])
        /\ adm[a].msg = adm[b].msg /\ adm[a].p = adm[b].p /\ Kept(adm[a].p, adm[a].msg)
        => a = b

\* A message that is remembered started one run of a workflow at most.
OneRunEach ==
    \A i, j \in DOMAIN runs :
        /\ runs[i].msg # None /\ runs[i].msg = runs[j].msg
        /\ runs[i].w = runs[j].w /\ runs[i].by = runs[j].by
        => i = j \/ <<runs[i].by[1], runs[i].by[2], runs[i].msg>> \in hist.forgot

SlackInv ==
    /\ \A p \in Proc : adm[p].msg = None
    /\ \A a \in Actor : Sound(adm[a])
    /\ Marked /\ Alone /\ OneRunEach

\* What the steps that tell no message, forget none and start no run leave.
Still ==
    /\ hist'.forgot = hist.forgot /\ hist'.boot = hist.boot /\ seen' = seen
    /\ DOMAIN runs' = DOMAIN runs
    /\ \A i \in DOMAIN runs :
         runs'[i].w = runs[i].w /\ runs'[i].msg = runs[i].msg /\ runs'[i].by = runs[i].by

\* Such a step changes neither what is known, kept nor started.
LEMMA StillKept ==
  ASSUME Still
  PROVE  /\ \A p, m : Seen(p, m)' <=> Seen(p, m)
         /\ \A p, m : Kept(p, m)' <=> Kept(p, m)
         /\ \A p, m, w : Started(p, m, w)' <=> Started(p, m, w)
<1>1. \A p, m : Seen(p, m)' <=> Seen(p, m)
  BY DEF Still, Seen, Known
<1>2. \A p, m : Kept(p, m)' <=> Kept(p, m)
  BY DEF Still, Kept
<1>3. \A p, m, w : Started(p, m, w)' <=> Started(p, m, w)
  BY DEF Still, Started
<1> QED
  BY <1>1, <1>2, <1>3

\* A delivery goes on with its message: it drops workflows, takes one of them,
\* or is further with the one it has taken.
Follows(s, r) ==
    /\ s.p = r.p /\ s.src = r.src /\ s.msg = r.msg
    /\ s.pc \in {"route"} \cup Dispatching /\ r.pc # "list" /\ s.todo \subseteq r.todo
    /\ s.pc \in Admitted \cup {"reserve"} =>
         \/ s.w = r.w /\ r.pc \in Admitted \cup {"reserve"}
         \/ s.w \in r.todo
    /\ s.pc \in Dispatching =>
         \/ s.w = r.w /\ r.pc \in Dispatching
         \/ s.w \notin s.todo

\* Going on with a message keeps the order.
LEMMA FollowsSound ==
  ASSUME Still, NEW r, NEW s, Sound(r), s.msg = None \/ s = r \/ Follows(s, r)
  PROVE  Sound(s)'
<1>1. CASE s.msg = None
  BY <1>1 DEF Sound
<1>2. CASE s = r
  BY <1>2, StillKept DEF Sound, Ordered
<1>3. CASE Follows(s, r) /\ s.msg # None
  <2>1. Carries(r) /\ Carries(s)
    BY <1>3 DEF Follows, Sound, Dropped, Carries
  <2>2. ASSUME Kept(s.p, s.msg)' PROVE (Seen(s.p, s.msg) /\ Ordered(s))'
    <3>1. Kept(r.p, r.msg) /\ Seen(r.p, r.msg) /\ Ordered(r)
      BY <1>3, <2>1, <2>2, StillKept DEF Follows, Sound
    <3>2. Seen(s.p, s.msg)'
      BY <1>3, <3>1, StillKept DEF Follows
    <3>3. s.pc # "list" /\ \A w \in s.todo : ~Started(r.p, r.msg, w)
      BY <1>3, <3>1 DEF Follows, Ordered, Dispatching, Admitted
    <3>4. s.pc \in Admitted \cup {"reserve"} => ~Started(r.p, r.msg, s.w)
      BY <1>3, <3>1 DEF Follows, Ordered
    <3>5. s.pc \in Dispatching => s.w \notin s.todo
      BY <1>3, <3>1 DEF Follows, Ordered
    <3> QED
      BY <1>3, <3>2, <3>3, <3>4, <3>5, StillKept DEF Follows, Ordered
  <2> QED
    BY <1>3, <2>1, <2>2 DEF Sound, Follows
<1> QED
  BY <1>1, <1>2, <1>3

\* A step that leaves the messages and runs, in which each delivery goes on
\* with its message or lets it go, keeps all that is known of messages.
LEMMA SlackStill ==
  ASSUME Shape, SlackInv, Still,
         \A a \in Actor : adm'[a].msg = None \/ adm'[a] = adm[a] \/ Follows(adm'[a], adm[a])
  PROVE  SlackInv'
<1>1. \A a \in Actor : Sound(adm[a])'
  <2>1. ASSUME NEW a \in Actor PROVE Sound(adm[a])'
    <3>1. PICK s : s = adm'[a]
      OBVIOUS
    <3>2. Sound(s)'
      BY <2>1, <3>1, FollowsSound DEF SlackInv
    <3> QED
      BY <3>1, <3>2
  <2> QED
    BY <2>1
<1>2. \A p \in Proc : adm'[p].msg = None
  <2>1. \A p \in Proc : p \in Actor /\ adm[p].msg = None
    BY DEF Actor, SlackInv
  <2> QED
    BY <2>1 DEF Follows
<1>3. Marked'
  BY StillKept DEF SlackInv, Marked, Still
<1>4. Alone'
  <2>1. ASSUME NEW a \in Actor, Carries(adm'[a])
        PROVE  Carries(adm[a]) /\ adm[a].msg = adm'[a].msg /\ adm[a].p = adm'[a].p
    BY <2>1 DEF Carries, Follows
  <2> QED
    BY <2>1, StillKept DEF SlackInv, Alone, Carries
<1>5. OneRunEach'
  BY DEF SlackInv, OneRunEach, Still
<1> QED
  BY <1>1, <1>2, <1>3, <1>4, <1>5 DEF SlackInv

\* A step of one actor that leaves the messages and the runs.
LEMMA SlackOne ==
  ASSUME Shape, SlackInv, Still, NEW a \in Actor, NEW r, adm' = [adm EXCEPT ![a] = r],
         r.msg = None \/ Follows(r, adm[a])
  PROVE  SlackInv'
<1>1. \A b \in Actor : adm'[b] = IF b = a THEN r ELSE adm[b]
  BY DEF Shape
<1> QED
  BY <1>1, SlackStill

\* A delivery that is past its routing turns to its next step.
LEMMA SlackTurn ==
  ASSUME Shape, SlackInv, Still, NEW a \in Actor, NEW v, adm' = [adm EXCEPT ![a] = Turn(adm[a], v)],
         \/ adm[a].msg = None
         \/ /\ v \in Dispatching /\ adm[a].pc \in Dispatching
            /\ v # "launch" /\ adm[a].pc # "launch"
  PROVE  SlackInv'
<1>1. adm[a] \in AdmRow
  BY DEF Shape, Adm
<1>2. PICK r : r = Turn(adm[a], v)
  OBVIOUS
<1>3. /\ r.pc = v /\ r.w = adm[a].w /\ r.todo = adm[a].todo
      /\ r.p = adm[a].p /\ r.src = adm[a].src /\ r.msg = adm[a].msg
  BY <1>1, <1>2, RowKept DEF Same
<1>4. r.msg = None \/ Follows(r, adm[a])
  BY <1>3 DEF Follows, Dispatching, Admitted
<1> QED
  BY <1>2, <1>4, SlackOne

\* A delivery whose dispatch is over goes on with its other workflows, if any.
LEMMA SlackOver ==
  ASSUME Shape, SlackInv, Still, NEW a \in Actor, adm[a].pc \in {"reserve", "refuse", "launch", "load"},
         adm' = [adm EXCEPT ![a] = Over(a)]
  PROVE  SlackInv'
<1>1. PICK r : r = Over(a)
  OBVIOUS
<1>2. CASE adm[a].todo = {} \/ adm[a].msg = None
  <2>1. Over(a).msg = None
    BY <1>2 DEF Over, NoAdm, Shape, Adm, AdmRow
  <2> QED
    BY <2>1, SlackOne
<1>3. CASE adm[a].todo # {} /\ adm[a].msg # None
  <2>1. a \notin Proc
    BY <1>3 DEF SlackInv
  <2>2. /\ r.pc = "route" /\ r.todo = adm[a].todo
        /\ r.p = adm[a].p /\ r.src = adm[a].src /\ r.msg = adm[a].msg
    BY <1>1, <1>3, <2>1 DEF Over, Shape, Adm, AdmRow
  <2>3. Follows(r, adm[a])
    BY <2>2 DEF Follows, Dispatching, Admitted
  <2> QED
    BY <1>1, <2>3, SlackOne
<1> QED
  BY <1>2, <1>3

\* A delivery drops a workflow, or takes it from those it has yet to see.
LEMMA SlackTodo ==
  ASSUME Shape, SlackInv, Still, NEW a \in Actor, NEW w \in Wf,
         Claim(a, w) \/ ClaimFails(a, w) \/ Route(a, w)
  PROVE  SlackInv'
<1>1. /\ adm[a].pc \in {"claim", "route"} /\ w \in adm[a].todo
      /\ adm[a] \in AdmRow
  BY TodoSteps DEF Shape, Adm
<1>2. PICK r : /\ adm' = [adm EXCEPT ![a] = r]
               /\ \/ r = NoAdm
                  \/ r = Drop(adm[a], w)
                  \/ r = Take(adm[a], "load", w) /\ adm[a].pc = "claim"
                  \/ r = Take(adm[a], "reserve", w)
  BY TodoSteps
<1>3. CASE r = NoAdm
  <2>1. r.msg = None
    BY <1>3 DEF NoAdm
  <2> QED
    BY <1>2, <2>1, SlackOne
<1>4. CASE adm[a].msg = None /\ r # NoAdm
  <2>1. /\ Drop(adm[a], w).msg = adm[a].msg
        /\ Take(adm[a], "load", w).msg = adm[a].msg
        /\ Take(adm[a], "reserve", w).msg = adm[a].msg
    BY <1>1 DEF Drop, Take, AdmRow
  <2>2. r.msg = None
    BY <1>2, <1>4, <2>1
  <2> QED
    BY <1>2, <2>2, SlackOne
<1>5. CASE adm[a].msg # None /\ r = Drop(adm[a], w)
  <2>1. adm[a].pc = "route"
    BY <1>1, <1>5 DEF SlackInv, Sound, Dispatching, Admitted
  <2>2. /\ r.pc = "route" /\ r.todo = adm[a].todo \ {w}
        /\ r.p = adm[a].p /\ r.src = adm[a].src /\ r.msg = adm[a].msg
    BY <1>1, <1>5, <2>1, RowKept DEF Same
  <2>3. Follows(r, adm[a])
    BY <2>1, <2>2 DEF Follows, Dispatching, Admitted
  <2> QED
    BY <1>2, <2>3, SlackOne
<1>6. CASE adm[a].msg # None /\ r = Take(adm[a], "reserve", w)
  <2>1. adm[a].pc = "route"
    BY <1>1, <1>6 DEF SlackInv, Sound, Dispatching, Admitted
  <2>2. /\ r.pc = "reserve" /\ r.todo = adm[a].todo \ {w} /\ r.w = w
        /\ r.p = adm[a].p /\ r.src = adm[a].src /\ r.msg = adm[a].msg
    BY <1>1, <1>6, RowKept DEF Same
  <2>3. Follows(r, adm[a])
    BY <1>1, <2>1, <2>2 DEF Follows, Dispatching, Admitted
  <2> QED
    BY <1>2, <2>3, SlackOne
<1>7. CASE adm[a].msg # None /\ adm[a].pc = "claim"
  BY <1>7 DEF SlackInv, Sound, Dispatching, Admitted
<1> QED
  BY <1>2, <1>3, <1>4, <1>5, <1>6, <1>7

\* What an event does to the memory of its process: it is marked, and what is
\* no longer marked is forgotten.
LEMMA EventMarks ==
  ASSUME Shape, NEW r \in Req, NEW p \in Proc, NEW m \in Msg, NEW kind \in {"app_mention", "message"},
         SlackEvent(r, p, m, kind)
  PROVE  /\ ~Known(p, <<m, kind>>)
         /\ hist'.boot = hist.boot /\ hist.forgot \subseteq hist'.forgot
         /\ \A q \in Proc : \A n : Kept(q, n)' =>
              (Seen(q, n) \/ (q = p /\ n = m /\ kind = KindOf(m)) => Seen(q, n)')
<1> DEFINE id == <<m, kind>>
           all == Append(seen[p], id)
           full == Len(all) > MaxSeen
           old == <<p, hist.boot[p], Head(all)[1]>>
<1>1. /\ ~Known(p, id)
      /\ seen' = [seen EXCEPT ![p] = IF full THEN Tail(all) ELSE all]
      /\ hist' = IF full THEN [hist EXCEPT !.forgot = hist.forgot \cup {old}] ELSE hist
  BY DEF SlackEvent
<1>2. hist'.boot = hist.boot /\ hist'.forgot = IF full THEN hist.forgot \cup {old} ELSE hist.forgot
  <2> HIDE DEF old, full
  <2> QED
    BY <1>1 DEF Shape
<1>3. /\ seen[p] \in Seq(Msg \X {"app_mention", "message"}) /\ Len(seen[p]) \in Nat
      /\ id \in Msg \X {"app_mention", "message"}
  BY DEF Shape
<1>4. /\ all \in Seq(Msg \X {"app_mention", "message"}) /\ Len(all) = Len(seen[p]) + 1
      /\ \A j \in 1..Len(seen[p]) : all[j] = seen[p][j]
      /\ all[Len(seen[p]) + 1] = id
  BY <1>3
<1> HIDE DEF all
<1>5. all # <<>> /\ Head(all) = all[1]
      /\ DOMAIN Tail(all) = 1..Len(seen[p]) /\ \A j \in 1..Len(seen[p]) : Tail(all)[j] = all[j + 1]
  BY <1>3, <1>4
<1>6. ASSUME NEW n, Kept(p, n)', Seen(p, n) \/ (n = m /\ kind = KindOf(m))
      PROVE  Seen(p, n)'
  <2>1. PICK j \in 1..Len(seen[p]) + 1 : all[j] = <<n, KindOf(n)>>
    <3>1. CASE Seen(p, n)
      <4>1. PICK j \in DOMAIN seen[p] : seen[p][j] = <<n, KindOf(n)>>
        BY <3>1 DEF Seen, Known
      <4>2. j \in 1..Len(seen[p]) /\ all[j] = seen[p][j]
        BY <1>3, <1>4
      <4> QED
        BY <1>3, <4>1, <4>2
    <3>2. CASE n = m /\ kind = KindOf(m)
      BY <1>3, <1>4, <3>2
    <3> QED
      BY <1>6, <3>1, <3>2
  <2>2. CASE full
    <3>1. seen'[p] = Tail(all)
      BY <1>1, <2>2 DEF Shape
    <3>2. <<p, hist.boot[p], n>> # old
      BY <1>2, <1>6, <2>2 DEF Kept
    <3>3. n # all[1][1]
      BY <1>5, <3>2
    <3>4. j # 1
      BY <2>1, <3>3
    <3>5. j - 1 \in DOMAIN Tail(all) /\ Tail(all)[j - 1] = all[j]
      BY <1>3, <1>5, <2>1, <3>4
    <3> QED
      BY <2>1, <3>1, <3>5 DEF Seen, Known
  <2>3. CASE ~full
    <3>1. seen'[p] = all /\ j \in DOMAIN all
      BY <1>1, <1>3, <1>4, <2>1, <2>3 DEF Shape
    <3> QED
      BY <2>1, <3>1 DEF Seen, Known
  <2> QED
    BY <2>2, <2>3
<1>7. ASSUME NEW q \in Proc, q # p, NEW n, Seen(q, n) PROVE Seen(q, n)'
  <2>1. seen'[q] = seen[q]
    BY <1>1, <1>7 DEF Shape
  <2> QED
    BY <1>7, <2>1 DEF Seen, Known
<1> QED
  BY <1>1, <1>2, <1>6, <1>7

\* An event is taken when nothing is known of its message; a twin is dropped.
LEMMA SlackTold ==
  ASSUME Shape, SlackInv, NEW r \in Req, NEW p \in Proc, NEW m \in Msg,
         NEW kind \in {"app_mention", "message"}, SlackEvent(r, p, m, kind)
  PROVE  SlackInv'
<1>0. r \in Actor /\ r \notin Proc
  BY TriggersAssumption DEF Actor
<1>1. PICK s : s = [NoAdm EXCEPT !.pc = "list", !.p = p, !.src = kind, !.msg = m]
  OBVIOUS
<1>2. s.pc = "list" /\ s.p = p /\ s.src = kind /\ s.msg = m /\ s.todo = {}
  BY <1>1 DEF NoAdm
<1>3. adm' = [adm EXCEPT ![r] = s] /\ runs' = runs /\ (kind = "app_mention" => m \in Mention)
  BY <1>1 DEF SlackEvent
<1>4. \A b \in Actor : adm'[b] = IF b = r THEN s ELSE adm[b]
  BY <1>0, <1>3 DEF Shape
<1>5. hist'.boot = hist.boot /\ \A q, n : Kept(q, n)' => Kept(q, n)
  BY EventMarks DEF Kept
<1>6. \A q, n, w : Started(q, n, w)' <=> Started(q, n, w)
  BY <1>3, <1>5 DEF Started
<1>7. \A q \in Proc : \A n : Kept(q, n)' /\ Seen(q, n) => Seen(q, n)'
  BY EventMarks
<1>8. ASSUME kind = KindOf(m), m # None, Kept(p, m)
      PROVE  /\ \A w : ~Started(p, m, w)
             /\ \A b \in Actor : Carries(adm[b]) /\ adm[b].msg = m => adm[b].p # p
  <2>1. ~Seen(p, m)
    BY <1>8, EventMarks DEF Seen
  <2>2. ASSUME NEW w, Started(p, m, w) PROVE FALSE
    <3>1. PICK i \in DOMAIN runs : runs[i].msg = m /\ runs[i].by = <<p, hist.boot[p]>>
      BY <2>2 DEF Started
    <3>2. runs[i].by[1] = p /\ runs[i].by[2] = hist.boot[p]
      BY <3>1
    <3> QED
      BY <1>8, <2>1, <3>1, <3>2 DEF SlackInv, Marked
  <2>3. ASSUME NEW b \in Actor, Carries(adm[b]), adm[b].msg = m, adm[b].p = p PROVE FALSE
    BY <1>8, <2>1, <2>3 DEF SlackInv, Sound, Carries
  <2> QED
    BY <2>2, <2>3
<1>9. Sound(s)'
  <2>1. SUFFICES ASSUME m # None PROVE Sound(s)'
    BY <1>2 DEF Sound
  <2>2. Carries(s) \/ Dropped(s)
    BY <1>2, <1>3, <2>1 DEF Carries, Dropped, KindOf
  <2>3. ASSUME Carries(s), Kept(p, m)' PROVE Seen(p, m)' /\ Ordered(s)'
    <3>1. kind = KindOf(m) /\ Kept(p, m)
      BY <1>2, <1>5, <2>3 DEF Carries
    <3>2. Seen(p, m)'
      BY <2>3, <3>1, EventMarks
    <3>3. \A w : ~Started(p, m, w)'
      BY <1>6, <1>8, <2>1, <3>1
    <3> QED
      BY <1>2, <3>2, <3>3 DEF Ordered, Dispatching, Admitted
  <2> QED
    BY <1>2, <2>2, <2>3 DEF Sound
<1>10. ASSUME NEW b \in Actor \ {r} PROVE Sound(adm[b])'
  <2>1. PICK t : t = adm[b] /\ t = adm'[b]
    BY <1>4, <1>10
  <2>2. Sound(t) /\ t \in Adm
    <3>1. Sound(adm[b])
      BY DEF SlackInv
    <3>2. adm[b] \in Adm
      BY DEF Shape
    <3> QED
      BY <2>1, <3>1, <3>2
  <2>3. Ordered(t)' <=> Ordered(t)
    BY <1>6 DEF Ordered
  <2>4. t.msg # None => t.p \in Proc
    BY <2>2 DEF Sound, Adm, Dispatching, Admitted
  <2>5. Sound(t)'
    BY <1>5, <1>7, <2>2, <2>3, <2>4 DEF Sound
  <2> QED
    BY <2>1, <2>5
<1>11. Marked'
  <2>1. ASSUME NEW i \in DOMAIN runs
        PROVE  /\ runs[i].by[1] \in Proc
               /\ runs[i].by[2] <= hist.boot[runs[i].by[1]]
               /\ \/ runs[i].msg = None \/ runs[i].by[2] # hist.boot[runs[i].by[1]]
                  \/ Kept(runs[i].by[1], runs[i].msg) => Seen(runs[i].by[1], runs[i].msg)
    <3>1. runs[i] \in RunRow
      BY <2>1 DEF Shape
    <3>2. runs[i].by[1] \in Proc
      BY <3>1 DEF RunRow
    <3> QED
      BY <2>1, <3>2 DEF SlackInv, Marked
  <2>2. ASSUME NEW i \in DOMAIN runs
        PROVE  /\ runs[i].by[2] <= hist'.boot[runs[i].by[1]]
               /\ runs[i].msg # None /\ runs[i].by[2] = hist'.boot[runs[i].by[1]] /\ Kept(runs[i].by[1], runs[i].msg)'
                    => Seen(runs[i].by[1], runs[i].msg)'
    <3>1. PICK q, n : q = runs[i].by[1] /\ n = runs[i].msg /\ q = runs'[i].by[1] /\ n = runs'[i].msg
      BY <1>3
    <3> QED
      BY <1>3, <1>5, <1>7, <2>1, <2>2, <3>1
  <2> QED
    BY <1>3, <2>2 DEF Marked
<1>12. Alone'
  <2>1. ASSUME NEW a \in Actor, NEW b \in Actor, NEW q, NEW n,
               Carries(adm'[a]), Carries(adm'[b]), adm'[a].msg = n, adm'[b].msg = n,
               adm'[a].p = q, adm'[b].p = q, Kept(q, n)'
        PROVE  a = b
    <3>1. Kept(q, n)
      BY <1>5, <2>1
    <3>2. CASE a # r /\ b # r
      BY <1>4, <2>1, <3>1, <3>2 DEF SlackInv, Alone
    <3>3. CASE a = r /\ b # r
      BY <1>2, <1>4, <1>8, <2>1, <3>1, <3>3 DEF Carries
    <3>4. CASE b = r /\ a # r
      BY <1>2, <1>4, <1>8, <2>1, <3>1, <3>4 DEF Carries
    <3> QED
      BY <3>2, <3>3, <3>4
  <2> QED
    BY <2>1 DEF Alone
<1>13. OneRunEach'
  <2>1. hist.forgot \subseteq hist'.forgot
    BY EventMarks
  <2> QED
    BY <1>3, <2>1 DEF SlackInv, OneRunEach
<1>14. \A q \in Proc : adm'[q].msg = None
  BY <1>0, <1>4 DEF SlackInv, Actor
<1> QED
  BY <1>4, <1>9, <1>10, <1>11, <1>12, <1>13, <1>14 DEF SlackInv

\* A run is inserted for a message that has none of its workflow.
LEMMA SlackInsert ==
  ASSUME Shape, SlackInv, NEW a \in Actor, Insert(a)
  PROVE  SlackInv'
<1>1. PICK s, x, p, m, w, n :
        /\ s = [adm[a] EXCEPT !.pc = "launch", !.run = Len(runs) + 1]
        /\ p = adm[a].p /\ m = adm[a].msg /\ w = adm[a].w /\ n = Len(runs)
        /\ x = [w |-> w, live |-> TRUE, drv |-> None, msg |-> m, by |-> <<p, hist.boot[p]>>, lost |-> FALSE]
  OBVIOUS
<1>2. adm[a].pc = "insert" /\ adm' = [adm EXCEPT ![a] = s] /\ runs' = Append(runs, x)
      /\ hist' = hist /\ seen' = seen
  BY <1>1 DEF Insert, Memory
<1>3. s.pc = "launch" /\ s.p = p /\ s.msg = m /\ s.src = adm[a].src /\ s.w = w /\ s.todo = adm[a].todo
  BY <1>1 DEF Shape, Adm, AdmRow
<1>4. x.msg = m /\ x.w = w /\ x.by = <<p, hist.boot[p]>> /\ x.by[1] = p /\ x.by[2] = hist.boot[p]
  BY <1>1
<1>5. /\ n \in Nat /\ DOMAIN runs = 1..n /\ DOMAIN runs' = 1..n + 1
      /\ \A i \in 1..n : runs'[i] = runs[i]
      /\ runs'[n + 1] = x
  BY <1>1, <1>2 DEF Shape
<1>6. p \in Proc /\ hist.boot[p] \in Nat
  BY <1>1, <1>2 DEF Shape, Adm
<1>7. \A b \in Actor : adm'[b] = IF b = a THEN s ELSE adm[b]
  BY <1>2 DEF Shape
<1>8. \A q, k : (Seen(q, k)' <=> Seen(q, k)) /\ (Kept(q, k)' <=> Kept(q, k))
  BY <1>2 DEF Seen, Known, Kept
<1>9. \A q, k, v : Started(q, k, v)' => Started(q, k, v) \/ (q = p /\ k = m /\ v = w)
  <2>1. ASSUME NEW q, NEW k, NEW v, Started(q, k, v)'
        PROVE  Started(q, k, v) \/ (q = p /\ k = m /\ v = w)
    <3>1. PICK i \in 1..n + 1 : runs'[i].msg = k /\ runs'[i].by = <<q, hist.boot[q]>> /\ runs'[i].w = v
      BY <1>2, <1>5, <2>1 DEF Started
    <3>2. CASE i = n + 1
      BY <1>4, <1>5, <3>1, <3>2
    <3>3. CASE i \in 1..n
      BY <1>5, <3>1, <3>3 DEF Started
    <3> QED
      BY <1>5, <3>1, <3>2, <3>3
  <2> QED
    BY <2>1
<1>10. m # None =>
         /\ Carries(adm[a])
         /\ Kept(p, m) => Seen(p, m) /\ ~Started(p, m, w) /\ w \notin adm[a].todo
                          /\ \A v \in adm[a].todo : ~Started(p, m, v)
  <2>1. Sound(adm[a]) /\ adm[a].pc \in Admitted /\ adm[a].pc # "list"
    BY <1>2 DEF SlackInv, Admitted
  <2> QED
    BY <1>1, <2>1 DEF Sound, Ordered, Dropped, Dispatching
<1>11. Sound(s)'
  <2>1. CASE m = None
    BY <1>3, <2>1 DEF Sound
  <2>2. CASE m # None
    <3>1. Carries(s) /\ s.pc \in Dispatching
      BY <1>1, <1>3, <1>10, <2>2 DEF Carries, Dispatching
    <3>2. Kept(p, m)' => Seen(p, m)' /\ Ordered(s)'
      BY <1>3, <1>8, <1>9, <1>10, <2>2 DEF Ordered, Admitted
    <3> QED
      BY <1>3, <3>1, <3>2 DEF Sound
  <2> QED
    BY <2>1, <2>2
<1>12. ASSUME NEW b \in Actor \ {a} PROVE Sound(adm[b])'
  <2>1. PICK r : r = adm[b] /\ r = adm'[b]
    BY <1>7, <1>12
  <2>2. Sound(r)
    BY <2>1 DEF SlackInv
  <2>3. ASSUME Carries(r), Kept(r.p, r.msg) PROVE Ordered(r)'
    <3>1. Ordered(r)
      BY <2>2, <2>3 DEF Sound, Carries
    <3>2. ~(r.p = p /\ r.msg = m)
      <4>1. ASSUME r.p = p, r.msg = m PROVE FALSE
        <5>1. m # None /\ Carries(adm[a])
          BY <1>10, <2>3, <4>1 DEF Carries
        <5> QED
          BY <1>1, <1>12, <2>1, <2>3, <4>1, <5>1 DEF SlackInv, Alone
      <4> QED
        BY <4>1
    <3> QED
      BY <1>9, <3>1, <3>2 DEF Ordered
  <2>4. Sound(r)'
    BY <1>8, <2>2, <2>3 DEF Sound
  <2> QED
    BY <2>1, <2>4
<1>13. Marked'
  <2>1. ASSUME NEW i \in 1..n + 1
        PROVE  /\ runs'[i].by[2] <= hist.boot[runs'[i].by[1]]
               /\ runs'[i].msg # None /\ runs'[i].by[2] = hist.boot[runs'[i].by[1]]
                    /\ Kept(runs'[i].by[1], runs'[i].msg) => Seen(runs'[i].by[1], runs'[i].msg)
    <3>1. CASE i = n + 1
      BY <1>4, <1>5, <1>6, <1>10, <3>1
    <3>2. CASE i \in 1..n
      BY <1>5, <3>2 DEF SlackInv, Marked
    <3> QED
      BY <1>5, <3>1, <3>2
  <2> QED
    BY <1>2, <1>5, <1>8, <2>1 DEF Marked
<1>14. Alone'
  <2>1. \A b \in Actor : /\ adm'[b].p = adm[b].p /\ adm'[b].msg = adm[b].msg
                         /\ Carries(adm'[b]) <=> Carries(adm[b])
    <3>1. s.p = adm[a].p /\ s.msg = adm[a].msg /\ (Carries(s) <=> Carries(adm[a]))
      BY <1>1, <1>3 DEF Carries
    <3> QED
      BY <1>7, <3>1
  <2> QED
    BY <1>8, <2>1 DEF SlackInv, Alone
<1>15. OneRunEach'
  <2>1. ASSUME NEW i \in 1..n, runs[i].msg # None, runs[i].msg = m, runs[i].w = w, runs[i].by = x.by
        PROVE  <<x.by[1], x.by[2], m>> \in hist.forgot
    <3>1. Started(p, m, w)
      BY <1>4, <1>5, <2>1 DEF Started
    <3> QED
      BY <1>4, <1>10, <2>1, <3>1 DEF Kept
  <2>2. ASSUME NEW i \in 1..n + 1, NEW j \in 1..n + 1, runs'[i].msg # None, runs'[i].msg = runs'[j].msg,
               runs'[i].w = runs'[j].w, runs'[i].by = runs'[j].by, i # j
        PROVE  <<runs'[i].by[1], runs'[i].by[2], runs'[i].msg>> \in hist.forgot
    <3>1. CASE i \in 1..n /\ j \in 1..n
      BY <1>5, <2>2, <3>1 DEF SlackInv, OneRunEach
    <3>2. CASE i = n + 1 /\ j \in 1..n
      BY <1>4, <1>5, <2>1, <2>2, <3>2
    <3>3. CASE j = n + 1 /\ i \in 1..n
      BY <1>4, <1>5, <2>1, <2>2, <3>3
    <3> QED
      BY <1>5, <2>2, <3>1, <3>2, <3>3
  <2> QED
    BY <1>2, <1>5, <2>2 DEF OneRunEach
<1>16. \A q \in Proc : adm'[q].msg = None
  BY <1>1, <1>3, <1>7 DEF SlackInv, Actor
<1> QED
  BY <1>7, <1>11, <1>12, <1>13, <1>14, <1>15, <1>16 DEF SlackInv

\* A process that comes back from a crash has started nothing yet.
LEMMA SlackCrash ==
  ASSUME Shape, SlackInv, NEW p \in Proc, Crash(p)
  PROVE  SlackInv'
<1>1. \A a \in Actor : adm'[a] = IF adm[a].p = p THEN NoAdm ELSE adm[a]
  BY CrashAdm
<1>2. /\ DOMAIN runs' = DOMAIN runs
      /\ \A i \in DOMAIN runs : runs'[i].w = runs[i].w /\ runs'[i].msg = runs[i].msg /\ runs'[i].by = runs[i].by
  BY CrashRuns
<1>3. /\ hist'.forgot = hist.forgot
      /\ \A q \in Proc : hist'.boot[q] = IF q = p THEN hist.boot[p] + 1 ELSE hist.boot[q]
      /\ \A q \in Proc : hist.boot[q] \in Nat
  BY CrashHist
<1>4. ASSUME NEW q \in Proc \ {p}
      PROVE  /\ \A m : (Seen(q, m)' <=> Seen(q, m)) /\ (Kept(q, m)' <=> Kept(q, m))
             /\ \A m, w : Started(q, m, w)' <=> Started(q, m, w)
  <2>1. seen'[q] = seen[q] /\ hist'.boot[q] = hist.boot[q]
    BY <1>3, <1>4, CrashHist
  <2>2. \A m : (Seen(q, m)' <=> Seen(q, m)) /\ (Kept(q, m)' <=> Kept(q, m))
    BY <1>3, <2>1 DEF Seen, Known, Kept
  <2>3. \A m, w : Started(q, m, w)' <=> Started(q, m, w)
    BY <1>2, <2>1 DEF Started
  <2> QED
    BY <2>2, <2>3
<1>5. NoAdm.msg = None
  BY DEF NoAdm
<1>6. ASSUME NEW a \in Actor PROVE Sound(adm[a])'
  <2>1. PICK r : r = adm'[a]
    OBVIOUS
  <2>2. CASE r.msg = None
    BY <2>1, <2>2 DEF Sound
  <2>3. CASE r.msg # None
    <3>1. r = adm[a] /\ r.p # p
      BY <1>1, <1>5, <2>1, <2>3
    <3>2. Sound(r)
      BY <1>6, <3>1 DEF SlackInv
    <3>3. r.p \in Proc
      <4>1. r \in Adm
        BY <3>1 DEF Shape
      <4> QED
        BY <2>3, <3>2, <4>1 DEF Sound, Adm, Dispatching, Admitted
    <3>4. Ordered(r)' <=> Ordered(r)
      BY <1>4, <3>1, <3>3 DEF Ordered
    <3>5. Sound(r)'
      BY <1>4, <3>1, <3>2, <3>3, <3>4 DEF Sound
    <3> QED
      BY <2>1, <3>5
  <2> QED
    BY <2>2, <2>3
<1>7. Marked'
  <2>1. ASSUME NEW i \in DOMAIN runs
        PROVE  /\ runs[i].by[2] <= hist'.boot[runs[i].by[1]]
               /\ runs[i].msg # None /\ runs[i].by[2] = hist'.boot[runs[i].by[1]] /\ Kept(runs[i].by[1], runs[i].msg)'
                    => Seen(runs[i].by[1], runs[i].msg)'
    <3>1. PICK q, b, m : q = runs[i].by[1] /\ b = runs[i].by[2] /\ m = runs[i].msg
                         /\ q = runs'[i].by[1] /\ m = runs'[i].msg
      BY <1>2, <2>1
    <3>2. runs[i] \in RunRow
      BY <2>1 DEF Shape
    <3>3. q \in Proc /\ b \in Nat
      BY <3>1, <3>2 DEF RunRow
    <3>4. b <= hist.boot[q] /\ (m # None /\ b = hist.boot[q] /\ Kept(q, m) => Seen(q, m))
      BY <2>1, <3>1 DEF SlackInv, Marked
    <3>5. CASE q = p
      <4>1. b <= hist'.boot[q] /\ b # hist'.boot[q]
        BY <1>3, <3>3, <3>4, <3>5
      <4> QED
        BY <3>1, <4>1
    <3>6. CASE q # p
      <4>1. hist'.boot[q] = hist.boot[q] /\ (Kept(q, m)' <=> Kept(q, m)) /\ (Seen(q, m)' <=> Seen(q, m))
        BY <1>3, <1>4, <3>3, <3>6
      <4> QED
        BY <3>1, <3>4, <4>1
    <3> QED
      BY <3>5, <3>6
  <2> QED
    BY <1>2, <2>1 DEF Marked
<1>8. Alone'
  <2>1. ASSUME NEW a \in Actor, NEW b \in Actor, NEW q, NEW n,
               Carries(adm'[a]), Carries(adm'[b]), adm'[a].msg = n, adm'[b].msg = n,
               adm'[a].p = q, adm'[b].p = q, Kept(q, n)'
        PROVE  a = b
    <3>1. adm'[a] = adm[a] /\ adm'[b] = adm[b] /\ q # p
      BY <1>1, <1>5, <2>1 DEF Carries
    <3>2. q \in Proc
      <4>1. Sound(adm[a]) /\ adm[a].msg # None
        BY <2>1, <3>1 DEF SlackInv, Carries
      <4>2. adm[a] \in Adm
        BY DEF Shape
      <4> QED
        BY <2>1, <3>1, <4>1, <4>2 DEF Sound, Adm, Dispatching, Admitted
    <3>3. Kept(q, n)
      BY <1>4, <2>1, <3>1, <3>2
    <3> QED
      BY <2>1, <3>1, <3>3 DEF SlackInv, Alone
  <2> QED
    BY <2>1 DEF Alone
<1>9. OneRunEach'
  BY <1>2, <1>3 DEF SlackInv, OneRunEach
<1>10. \A q \in Proc : adm'[q].msg = None
  BY <1>1, <1>5 DEF SlackInv, Actor
<1> QED
  BY <1>6, <1>7, <1>8, <1>9, <1>10 DEF SlackInv

\* A delivery gets the triggers bound to its team, unless it is a twin.
LEMMA SlackListed ==
  ASSUME Shape, SlackInv, Still, NEW a \in Actor, NEW s, adm' = [adm EXCEPT ![a] = s],
         adm[a].pc = "list", ~Twin(a),
         s.pc = "route", s.p = adm[a].p, s.src = adm[a].src, s.msg = adm[a].msg, s.todo \in SUBSET Wf
  PROVE  SlackInv'
<1>1. \A b \in Actor : adm'[b] = IF b = a THEN s ELSE adm[b]
  BY DEF Shape
<1>2. Sound(adm[a])
  BY DEF SlackInv
<1>3. Sound(s)'
  <2>1. CASE s.msg = None
    BY <2>1 DEF Sound
  <2>2. CASE s.msg # None
    <3>1. ~Dropped(adm[a]) /\ Carries(adm[a]) /\ Carries(s)
      BY <1>2, <2>2 DEF Dropped, Twin, Sound, Carries
    <3>2. Kept(s.p, s.msg) => Seen(s.p, s.msg) /\ \A w \in Wf : ~Started(s.p, s.msg, w)
      BY <1>2, <2>2, <3>1 DEF Sound, Ordered
    <3>3. Kept(s.p, s.msg)' => Seen(s.p, s.msg)' /\ \A w \in Wf : ~Started(s.p, s.msg, w)'
      BY <3>2, StillKept
    <3>4. Kept(s.p, s.msg)' => Ordered(s)'
      BY <3>3 DEF Ordered, Dispatching, Admitted
    <3> QED
      BY <3>1, <3>3, <3>4 DEF Sound
  <2> QED
    BY <2>1, <2>2
<1>4. ASSUME NEW b \in Actor \ {a} PROVE Sound(adm[b])'
  <2>1. PICK t : t = adm[b] /\ t = adm'[b]
    BY <1>1, <1>4
  <2>2. Sound(t)
    BY <1>4, <2>1 DEF SlackInv
  <2>3. Sound(t)'
    BY <2>2, FollowsSound
  <2> QED
    BY <2>1, <2>3
<1>5. \A q \in Proc : adm'[q].msg = None
  BY <1>1 DEF SlackInv, Actor
<1>6. Marked'
  BY StillKept DEF SlackInv, Marked, Still
<1>7. Alone'
  <2>1. \A b \in Actor : /\ Carries(adm'[b]) <=> Carries(adm[b])
                         /\ adm[b].msg = adm'[b].msg /\ adm[b].p = adm'[b].p
    <3>1. Carries(s) <=> Carries(adm[a])
      BY DEF Carries
    <3> QED
      BY <1>1, <3>1
  <2> QED
    BY <2>1, StillKept DEF SlackInv, Alone
<1>8. OneRunEach'
  BY DEF SlackInv, OneRunEach, Still
<1> QED
  BY <1>1, <1>3, <1>4, <1>5, <1>6, <1>7, <1>8 DEF SlackInv

\* Every step keeps what is known of the Slack messages.
LEMMA SlackStep ==
  ASSUME Shape, SlackInv, [Next]_vars
  PROVE  SlackInv'
<1>0. Proc \subseteq Actor /\ Req \subseteq Actor /\ NoAdm.msg = None
  BY DEF Actor, NoAdm
<1>1. ASSUME UNCHANGED <<seen, runs>>, hist' = hist PROVE Still
  BY <1>1 DEF Still
<1>2. ASSUME NEW a \in Actor, Admit(a) PROVE SlackInv'
  <2>1. CASE Reserve(a) \/ Decide(a)
    <3>1. PICK v \in {"create", "refuse", "insert"} : adm' = [adm EXCEPT ![a] = Turn(adm[a], v)]
      BY <2>1 DEF Reserve, Decide, Turn
    <3>2. adm[a].pc \in {"reserve", "create"} /\ Still
      BY <1>1, <2>1 DEF Reserve, Decide, Memory
    <3>3. v \in Dispatching /\ adm[a].pc \in Dispatching /\ v # "launch" /\ adm[a].pc # "launch"
      BY <3>1, <3>2 DEF Dispatching, Admitted
    <3> QED
      BY <3>1, <3>2, <3>3, SlackTurn
  <2>2. CASE Exhausted(a) \/ Refuse(a)
    <3>1. adm[a].pc \in {"reserve", "refuse"} /\ adm' = [adm EXCEPT ![a] = Over(a)] /\ Still
      BY <1>1, <2>2 DEF Exhausted, Refuse, Memory
    <3> QED
      BY <3>1, SlackOver
  <2>3. CASE Launch(a)
    <3>1. adm[a].pc = "launch" /\ adm' = [adm EXCEPT ![a] = Over(a)] /\ seen' = seen /\ hist' = hist
      BY <2>3 DEF Launch
    <3>2. runs' = [runs EXCEPT ![adm[a].run].drv = adm[a].p]
      BY <2>3 DEF Launch
    <3>3. Still
      BY <3>1, <3>2, DrvFields DEF Still
    <3> QED
      BY <3>1, <3>3, SlackOver
  <2> QED
    BY <1>2, <2>1, <2>2, <2>3, SlackInsert DEF Admit
<1>3. ASSUME NEW p \in Proc, Scan(p) PROVE SlackInv'
  <2>1. PICK r : r.msg = None /\ adm' = [adm EXCEPT ![p] = r]
    BY <1>3 DEF Scan, NoAdm
  <2>2. Still
    BY <1>1, <1>3 DEF Scan, Memory
  <2> QED
    BY <1>0, <2>1, <2>2, SlackOne
<1>4. ASSUME NEW p \in Proc, Load(p) PROVE SlackInv'
  <2>1. adm' = [adm EXCEPT ![p] = Turn(adm[p], "reserve")] \/ adm' = [adm EXCEPT ![p] = Over(p)]
    BY <1>4 DEF Load, Turn
  <2>2. adm[p].pc = "load" /\ adm[p].msg = None /\ Still
    BY <1>1, <1>4 DEF Load, Memory, SlackInv
  <2> QED
    BY <1>0, <2>1, <2>2, SlackTurn, SlackOver
<1>5. ASSUME NEW a \in Actor, NEW w \in Wf, ClaimFails(a, w) \/ Route(a, w) PROVE SlackInv'
  <2>1. Still
    BY <1>1, <1>5 DEF ClaimFails, Route, Memory
  <2> QED
    BY <1>5, <2>1, SlackTodo
<1>6. ASSUME NEW p \in Proc, NEW w \in Wf, Claim(p, w) PROVE SlackInv'
  <2>1. hist'.forgot = hist.forgot /\ hist'.boot = hist.boot /\ UNCHANGED <<seen, runs>>
    BY <1>6 DEF Claim, Memory, Shape
  <2>2. Still
    BY <2>1 DEF Still
  <2> QED
    BY <1>0, <1>6, <2>2, SlackTodo
<1>7. ASSUME NEW r \in Req, Lookup(r) \/ Check(r) PROVE SlackInv'
  <2>1. adm[r].pc \in {"lookup", "check"} /\ Still
    BY <1>1, <1>7 DEF Lookup, Check, Memory
  <2>2. adm[r].msg = None
    BY <1>0, <2>1 DEF SlackInv, Sound, Dispatching, Admitted
  <2>3. \/ adm' = [adm EXCEPT ![r] = [adm[r] EXCEPT !.pc = "check", !.ok = Enabled(adm[r].w)]]
        \/ adm' = [adm EXCEPT ![r] = NoAdm]
        \/ adm' = [adm EXCEPT ![r] = Turn(adm[r], "reserve")]
    BY <1>7 DEF Lookup, Check, Turn
  <2>4. [adm[r] EXCEPT !.pc = "check", !.ok = Enabled(adm[r].w)].msg = None
    BY <1>0, <2>2 DEF Shape, Adm, AdmRow
  <2> QED
    BY <1>0, <2>1, <2>2, <2>3, <2>4, SlackOne, SlackTurn
<1>8. ASSUME NEW r \in Req, ListTriggers(r) PROVE SlackInv'
  <2>1. Still
    BY <1>1, <1>8 DEF ListTriggers, Memory
  <2>2. CASE adm' = [adm EXCEPT ![r] = NoAdm]
    BY <1>0, <2>1, <2>2, SlackOne
  <2>3. CASE adm' # [adm EXCEPT ![r] = NoAdm]
    <3>1. PICK T \in SUBSET Wf : adm' = [adm EXCEPT ![r] = [adm[r] EXCEPT !.pc = "route", !.todo = T]]
      BY <1>8, <2>3 DEF ListTriggers
    <3>2. adm[r].pc = "list" /\ ~Twin(r)
      BY <1>8, <2>3 DEF ListTriggers
    <3>3. PICK s : s = [adm[r] EXCEPT !.pc = "route", !.todo = T]
      OBVIOUS
    <3>4. s.pc = "route" /\ s.todo = T /\ s.p = adm[r].p /\ s.src = adm[r].src /\ s.msg = adm[r].msg
      BY <1>0, <3>3 DEF Shape, Adm, AdmRow
    <3> QED
      BY <1>0, <2>1, <3>1, <3>2, <3>3, <3>4, SlackListed
  <2> QED
    BY <2>2, <2>3
<1>9. ASSUME NEW r \in Req, NEW p \in Proc, NEW w \in Wf,
             RunNow(r, p, w) \/ \E k \in Key : Deliver(r, p, w, k)
      PROVE  SlackInv'
  <2>1. Still
    BY <1>1, <1>9 DEF RunNow, Deliver, Memory
  <2>2. PICK k, h : \/ adm' = [adm EXCEPT ![r] = [NoAdm EXCEPT !.pc = "reserve", !.p = p, !.src = "manual", !.w = w]]
                    \/ adm' = [adm EXCEPT ![r] = [NoAdm EXCEPT !.pc = "lookup", !.p = p, !.src = "webhook", !.w = w,
                                                               !.key = k, !.hit = h]]
    BY <1>9 DEF RunNow, Deliver
  <2>3. /\ [NoAdm EXCEPT !.pc = "reserve", !.p = p, !.src = "manual", !.w = w].msg = None
        /\ [NoAdm EXCEPT !.pc = "lookup", !.p = p, !.src = "webhook", !.w = w, !.key = k, !.hit = h].msg = None
    BY DEF NoAdm
  <2> QED
    BY <1>0, <2>1, <2>2, <2>3, SlackOne
<1>10. ASSUME NEW i \in DOMAIN runs, Settle(i) \/ Release(i) \/ \E p \in Proc : Adopt(p, i)
       PROVE  SlackInv'
  <2>1. adm' = adm /\ seen' = seen /\ hist' = hist
    BY <1>10 DEF Settle, Release, Adopt, Memory
  <2>2. \/ runs' = [runs EXCEPT ![i].live = FALSE]
        \/ \E v : runs' = [runs EXCEPT ![i].drv = v]
    BY <1>10 DEF Settle, Release, Adopt
  <2>3. Still
    BY <2>1, <2>2, DrvFields, LiveFields DEF Still
  <2> QED
    BY <2>1, <2>3, SlackStill
<1>11. ASSUME \/ \E e \in Ed : Edit(e)
              \/ \E e \in Ed, w \in Wf : Begin(e, w)
              \/ \E w \in Wf, t \in Types : SaveDraft(w, t)
              \/ Clock
              \/ UNCHANGED vars
       PROVE  SlackInv'
  <2>1. UNCHANGED <<adm, seen, runs>>
    BY <1>11 DEF Edit, PatchWrite, SyncRead, SyncWrite, PublishRead, PublishCommit,
                 UpsertType, SetToken, SetSlackBinding, Begin, BeginEdit, SaveDraft, Clock, NotEditing, Memory, vars
  <2>2. hist' = hist \/ \E w, n : hist' = LateMark(w, n)
    BY <1>11 DEF Edit, PatchWrite, SyncRead, SyncWrite, PublishRead, PublishCommit,
                 UpsertType, SetToken, SetSlackBinding, Begin, BeginEdit, SaveDraft, Clock, NotEditing, Memory, vars
  <2>3. hist'.forgot = hist.forgot /\ hist'.boot = hist.boot
    BY <2>2 DEF LateMark, Shape
  <2>4. Still
    BY <2>1, <2>3 DEF Still
  <2> QED
    BY <2>1, <2>4, SlackStill
<1> QED
  BY <1>0, <1>2, <1>3, <1>4, <1>5, <1>6, <1>7, <1>8, <1>9, <1>10, <1>11, SlackTold, SlackCrash
     DEF Next, Tick, Serve, Arrive

-----------------------------------------------------------------------------
(* The limits of the memories, and the invariant of every behaviour.       *)

Bounded == \A p \in Proc : Len(idem[p]) <= MaxIdem /\ Len(seen[p]) <= MaxSeen

\* Neither memory outgrows its limit: the oldest entry makes room.
LEMMA BoundedStep ==
  ASSUME Shape, Bounded, [Next]_vars
  PROVE  Bounded'
<1>0. MaxIdem \in Nat /\ MaxSeen \in Nat
  BY TriggersAssumption
<1>1. ASSUME NEW a \in Actor, Launch(a) PROVE Bounded'
  <2>1. seen' = seen /\ adm[a].pc = "launch"
    BY <1>1 DEF Launch
  <2>2. PICK i, p, k : /\ i = adm[a].run /\ p = adm[a].p /\ k = <<adm[a].w, adm[a].key>>
                       /\ idem' = idem \/ idem' = [idem EXCEPT ![p] = Remember(idem[p], k, i)]
    BY <1>1 DEF Launch
  <2>3. p \in Proc /\ idem[p] \in Seq(IdemRow) /\ [key |-> k, run |-> i] \in IdemRow
    <3>1. adm[a] \in AdmRow /\ adm[a].p \in Proc /\ adm[a].w \in Wf
      BY <2>1 DEF Shape, Adm
    <3>2. adm[a].key \in Key \cup {None} /\ adm[a].run \in Nat
      BY <3>1 DEF AdmRow
    <3> QED
      BY <2>2, <3>1, <3>2 DEF Shape, IdemRow
  <2>4. Len(idem[p]) <= MaxIdem
    BY <2>3 DEF Bounded
  <2>5. Len(Remember(idem[p], k, i)) <= MaxIdem
    BY <2>3, <2>4, RememberKeeps
  <2>6. \A q \in Proc : idem'[q] = idem[q] \/ idem'[q] = Remember(idem[p], k, i)
    BY <2>2, <2>3 DEF Shape
  <2> QED
    BY <2>1, <2>5, <2>6 DEF Bounded
<1>2. ASSUME NEW r \in Req, NEW p \in Proc, NEW m \in Msg, NEW kind \in {"app_mention", "message"},
             SlackEvent(r, p, m, kind)
      PROVE  Bounded'
  <2> DEFINE all == Append(seen[p], <<m, kind>>)
  <2>1. idem' = idem /\ seen' = [seen EXCEPT ![p] = IF Len(all) > MaxSeen THEN Tail(all) ELSE all]
    BY <1>2 DEF SlackEvent
  <2>2. seen[p] \in Seq(Msg \X {"app_mention", "message"}) /\ Len(seen[p]) \in Nat
    BY DEF Shape
  <2>3. all \in Seq(Msg \X {"app_mention", "message"}) /\ Len(all) = Len(seen[p]) + 1
    BY <2>2
  <2> HIDE DEF all
  <2>4. Len(Tail(all)) = Len(seen[p])
    BY <2>2, <2>3
  <2>5. Len(seen[p]) <= MaxSeen
    BY DEF Bounded
  <2>6. Len(IF Len(all) > MaxSeen THEN Tail(all) ELSE all) <= MaxSeen
    <3>1. CASE Len(all) > MaxSeen
      BY <2>4, <2>5, <3>1
    <3>2. CASE ~(Len(all) > MaxSeen)
      BY <1>0, <2>2, <2>3, <3>2
    <3> QED
      BY <3>1, <3>2
  <2>7. \A q \in Proc : seen'[q] = IF q = p THEN IF Len(all) > MaxSeen THEN Tail(all) ELSE all ELSE seen[q]
    BY <2>1 DEF Shape
  <2> QED
    BY <2>1, <2>6, <2>7 DEF Bounded
<1>3. ASSUME NEW p \in Proc, Crash(p) PROVE Bounded'
  <2>1. idem' = [idem EXCEPT ![p] = <<>>] /\ seen' = [seen EXCEPT ![p] = <<>>]
    BY <1>3 DEF Crash
  <2>2. \A q \in Proc : /\ idem'[q] = <<>> \/ idem'[q] = idem[q]
                        /\ seen'[q] = <<>> \/ seen'[q] = seen[q]
    BY <2>1 DEF Shape
  <2>3. Len(<<>>) = 0
    OBVIOUS
  <2> QED
    BY <1>0, <2>2, <2>3 DEF Bounded
<1>4. ASSUME idem' = idem, seen' = seen PROVE Bounded'
  BY <1>4 DEF Bounded
<1>5. ASSUME \/ \E a \in Actor : Reserve(a) \/ Exhausted(a) \/ Decide(a) \/ Refuse(a) \/ Insert(a)
             \/ \E p \in Proc : Tick(p)
             \/ \E p \in Proc, w \in Wf : ClaimFails(p, w)
             \/ \E r \in Req : Serve(r)
             \/ \E r \in Req, p \in Proc, w \in Wf : RunNow(r, p, w) \/ \E k \in Key : Deliver(r, p, w, k)
             \/ \E i \in DOMAIN runs : Settle(i) \/ Release(i) \/ \E p \in Proc : Adopt(p, i)
      PROVE  idem' = idem /\ seen' = seen
  BY <1>5 DEF Reserve, Exhausted, Decide, Refuse, Insert, Tick, Scan, Load, Claim, ClaimFails,
              Serve, Lookup, Check, ListTriggers, Route, RunNow, Deliver, Settle, Release, Adopt, Memory
<1>6. ASSUME \/ \E e \in Ed : Edit(e)
             \/ \E e \in Ed, w \in Wf : Begin(e, w)
             \/ \E w \in Wf, t \in Types : SaveDraft(w, t)
             \/ Clock
             \/ UNCHANGED vars
      PROVE  idem' = idem /\ seen' = seen
  BY <1>6 DEF Edit, PatchWrite, SyncRead, SyncWrite, PublishRead, PublishCommit, UpsertType, SetToken, SetSlackBinding, Begin, BeginEdit,
              SaveDraft, Clock, NotEditing, Memory, vars
<1> QED
  BY <1>1, <1>2, <1>3, <1>4, <1>5, <1>6 DEF Next, Admit, Arrive

IInv == Shape /\ Bounded /\ CapInv /\ LockInv /\ CursorAhead /\ HookInv /\ SlackInv

\* The invariant holds at first: nothing is under way, nothing remembered.
LEMMA InitInv ==
  ASSUME Init
  PROVE  IInv
<1>1. Shape
  <2>1. 0 \in 0..MaxNow /\ 0 \in 0..MaxEdits /\ 0 \in 0..MaxFaults /\ 0 \in Nat
    BY TriggersAssumption
  <2>2. \A w \in Wf : StartType[w] \in Kinds
    BY TriggersAssumption DEF Kinds
  <2>3. wf \in [Wf -> [on : BOOLEAN, draft : Kinds]]
    BY <2>2 DEF Init
  <2>4. NextFire(0) \in Windows \cup {0}
    BY <2>1, NextFireAhead
  <2>5. trig \in [Wf -> TrigRow]
    BY <2>2, <2>4 DEF Init, TrigRow
  <2>6. NoAdm \in Adm /\ NoEdit \in EdSlot
    <3>1. NoAdm \in AdmRow /\ NoAdm.pc = "idle" /\ NoEdit \in EdRow /\ NoEdit.pc = "idle"
      BY <2>1 DEF NoAdm, AdmRow, NoEdit, EdRow, Steps
    <3> QED
      BY <3>1 DEF Adm, EdSlot, Admitted
  <2>7. adm \in [Actor -> Adm] /\ ed \in [Ed -> EdSlot]
    BY <2>6 DEF Init
  <2>8. runs \in Seq(RunRow) /\ idem \in [Proc -> Seq(IdemRow)]
        /\ seen \in [Proc -> Seq(Msg \X {"app_mention", "message"})]
    BY DEF Init
  <2>9. hist \in [last : [Wf -> 0..MaxNow], late : [Wf -> BOOLEAN],
                  forgot : SUBSET (Proc \X Nat \X Msg), boot : [Proc -> Nat]]
    BY <2>1 DEF Init
  <2>10. now \in 0..MaxNow /\ edits \in 0..MaxEdits /\ faults \in 0..MaxFaults /\ capLock \in Actor \cup {None}
    BY <2>1 DEF Init
  <2> QED
    BY <2>3, <2>5, <2>7, <2>8, <2>9, <2>10 DEF Shape, TrigRow
<1>2. runs = <<>> /\ DOMAIN runs = {} /\ Len(runs) = 0
  BY DEF Init
<1>3. \A a \in Actor : adm[a].pc = "idle" /\ adm[a].msg = None /\ adm[a].hit = 0
  BY DEF Init, NoAdm
<1>4. Cap \in Nat /\ Pool \in Nat /\ MaxRuns \in Nat /\ MaxIdem \in Nat /\ MaxSeen \in Nat
  BY TriggersAssumption
<1>5. Cardinality({}) = 0
  BY FS_EmptySet
<1>6. Bounded
  BY <1>4 DEF Init, Bounded
<1>7. CapInv
  <2>1. Live = {}
    BY <1>2 DEF Live
  <2> QED
    BY <1>3, <1>4, <1>5, <2>1 DEF CapInv, LimitsHold
<1>8. LockInv
  <2>1. Admitting = {} /\ \A p : Holders(p) = {} /\ Driven(p) = {}
    BY <1>2, <1>3 DEF Admitting, Holders, Driven, Held, Admitted
  <2>2. pins \in [Proc -> 0..Pool] /\ \A p \in Proc : pins[p] = 0
    BY <1>4 DEF Init
  <2>3. Launches /\ Accounted
    BY <1>2, <1>3 DEF Launches, Accounted
  <2>4. Pinned
    <3>1. \A p : Cardinality(Holders(p)) = 0 /\ Cardinality(Driven(p)) = 0
      BY <1>5, <2>1
    <3> QED
      BY <2>2, <3>1 DEF Pinned
  <2>5. Roomy
    <3>1. Cardinality(Admitting) = 0
      BY <1>5, <2>1
    <3> QED
      BY <1>2, <1>4, <3>1 DEF Roomy
  <2> QED
    BY <2>3, <2>4, <2>5 DEF LockInv
<1>9. CursorAhead
  <2>1. ASSUME NEW w \in Wf, trig[w].next # 0 PROVE trig[w].next > hist.last[w]
    <3>1. trig[w].next = NextFire(0) /\ hist.last[w] = 0
      BY <2>1 DEF Init
    <3>2. trig[w].next \in Windows
      BY <1>1, <2>1 DEF Shape
    <3>3. trig[w].next \in Nat
      BY <3>2, CursorNat
    <3> QED
      BY <2>1, <3>1, <3>3
  <2> QED
    BY <2>1 DEF CursorAhead
<1>10. HookInv
  <2>1. \A p \in Proc : DOMAIN idem[p] = {}
    BY DEF Init
  <2> QED
    BY <1>3, <2>1 DEF HookInv, HitOK
<1>11. SlackInv
  <2>1. \A p \in Proc : p \in Actor
    BY DEF Actor
  <2> QED
    BY <1>2, <1>3, <2>1 DEF SlackInv, Sound, Marked, Alone, OneRunEach, Carries
<1> QED
  BY <1>1, <1>6, <1>7, <1>8, <1>9, <1>10, <1>11 DEF IInv

\* Every step keeps the invariant.
LEMMA StepInv ==
  ASSUME IInv, [Next]_vars
  PROVE  IInv'
<1>1. \A a \in Actor : adm[a].pc = "launch" => adm[a].run \in DOMAIN runs
  BY DEF IInv, LockInv, Launches
<1>2. Shape'
  BY <1>1, ShapeStep DEF IInv
<1>3. Bounded'
  BY BoundedStep DEF IInv
<1>4. CapInv'
  BY CapStep DEF IInv
<1>5. LockInv'
  <2>1. Shape /\ LockInv
    BY DEF IInv
  <2>2. Pinned' /\ Roomy'
    BY <2>1, PinnedStep
  <2>3. Launches' /\ Accounted'
    BY <2>1, LaunchesStep
  <2> QED
    BY <2>2, <2>3 DEF LockInv
<1>6. CursorAhead'
  BY CursorStep DEF IInv
<1>7. HookInv'
  BY HookStep DEF IInv
<1>8. SlackInv'
  BY SlackStep DEF IInv
<1> QED
  BY <1>2, <1>3, <1>4, <1>5, <1>6, <1>7, <1>8 DEF IInv

-----------------------------------------------------------------------------
(* Theorems.                                                               *)

\* The inductive invariant: shapes and limits, what is counted under the
\* workspace lock, who holds each connection, cursors ahead of their claims,
\* and what processes remember of deliveries and messages.
THEOREM InvariantHolds == Spec => []IInv
<1>1. Init => IInv
  BY InitInv
<1>2. IInv /\ [Next]_vars => IInv'
  BY StepInv
<1> QED
  BY <1>1, <1>2, PTL DEF Spec

\* Every variable keeps its shape, no lock pool hands out more connections
\* than it has, and neither in-process memory outgrows its limit
\* (rememberIdempotent and SlackEventDedup evict their oldest entry).
THEOREM TypeCorrect == Spec => []TypeOK
<1>1. IInv => TypeOK
  <2> SUFFICES ASSUME IInv PROVE TypeOK
    OBVIOUS
  <2>1. Len(runs) <= MaxRuns
    <3>1. Shape /\ Roomy
      BY DEF IInv, LockInv
    <3>2. Cardinality(Admitting) \in Nat /\ Len(runs) \in Nat /\ MaxRuns \in Nat
      BY <3>1, HoldersFinite, TriggersAssumption
    <3> QED
      BY <3>1, <3>2 DEF Roomy
  <2> QED
    BY <2>1 DEF IInv, LockInv, Pinned, Bounded, TypeOK
<1> QED
  BY <1>1, InvariantHolds, PTL

\* However many dispatches race in however many processes, the workspace has
\* at most Cap live runs, and a workflow with overlap "skip" has one: the
\* counts that run creation reads under lockWorkspaceRunCap still hold when
\* it inserts.
THEOREM CapHolds == Spec => []LimitsHold
<1>1. IInv => LimitsHold
  BY DEF IInv, CapInv
<1> QED
  BY <1>1, InvariantHolds, PTL

\* Every reserved connection has an admission or a driver that holds it, and
\* a live run that nobody drives was lost to a crash or is about to be
\* launched: PipelineRunner.start leaks no connection on any path, and leaves
\* no row behind a refused dispatch.
THEOREM NoConnectionLeaks == Spec => []LocksMatchRuns
<1>1. IInv => LocksMatchRuns
  <2> SUFFICES ASSUME IInv PROVE LocksMatchRuns
    OBVIOUS
  <2>1. Pinned /\ Accounted
    BY DEF IInv, LockInv
  <2>2. \A p : Holders(p) = {a \in Actor : adm[a].p = p /\ adm[a].pc \in Admitted \cup {"launch"}}
               /\ Driven(p) = {i \in DOMAIN runs : runs[i].drv = p}
    BY DEF Holders, Held, Driven
  <2>3. \A p \in Proc :
          pins[p] = Cardinality({a \in Actor : adm[a].p = p /\ adm[a].pc \in Admitted \cup {"launch"}})
                    + Cardinality({i \in DOMAIN runs : runs[i].drv = p})
    BY <2>1, <2>2 DEF Pinned
  <2>4. \A i \in Live : runs[i].drv = None /\ ~runs[i].lost =>
          \E a \in Actor : adm[a].pc = "launch" /\ adm[a].run = i
    BY <2>1 DEF Accounted, Live
  <2> QED
    BY <2>3, <2>4 DEF LocksMatchRuns
<1> QED
  BY <1>1, InvariantHolds, PTL

\* No window of a schedule fires twice and none is backfilled, whichever
\* process claims it and whatever edits come in between, but for an edit that
\* writes a cursor computed before the window passed.
THEOREM NoWindowTwice == Spec => []CursorAhead
<1>1. IInv => CursorAhead
  BY DEF IInv
<1> QED
  BY <1>1, InvariantHolds, PTL

\* A keyed webhook delivery whose answer is remembered starts nothing, and a
\* Slack message starts at most one run of a workflow as long as its process
\* lives and remembers it.
THEOREM ToldTwice == Spec => []RedeliveryStartsNothing
<1>1. IInv => RedeliveryStartsNothing
  <2> SUFFICES ASSUME IInv PROVE RedeliveryStartsNothing
    OBVIOUS
  <2>1. ASSUME NEW r \in Req, adm[r].hit # 0, adm[r].pc \in Admitted \cup {"reserve", "launch"},
               Recall(adm[r].p, <<adm[r].w, adm[r].key>>) = adm[r].hit
        PROVE  FALSE
    <3>1. r \in Actor /\ adm[r].pc \in Dispatching
      BY <2>1 DEF Actor, Dispatching
    <3>2. PICK p, k : p = adm[r].p /\ k = <<adm[r].w, adm[r].key>>
      OBVIOUS
    <3>3. p \in Proc
      BY <3>1, <3>2 DEF IInv, Shape, Adm, Dispatching, Admitted
    <3>4. idem[p] \in Seq(IdemRow)
      BY <3>3 DEF IInv, Shape
    <3>5. \A j \in DOMAIN idem[p] : idem[p][j].key = k => idem[p][j].run # adm[r].hit
      BY <2>1, <3>1, <3>2 DEF IInv, HookInv, HitOK
    <3>6. Recall(p, k) # 0
      BY <2>1, <3>2
    <3>7. \E j \in DOMAIN idem[p] : idem[p][j].key = k /\ idem[p][j].run = Recall(p, k)
      BY <3>4, <3>6, RecallFinds
    <3> QED
      BY <2>1, <3>2, <3>5, <3>7
  <2>2. OneRunEach
    BY DEF IInv, SlackInv
  <2> QED
    BY <2>1, <2>2 DEF RedeliveryStartsNothing, OneRunEach
<1> QED
  BY <1>1, InvariantHolds, PTL

=============================================================================
