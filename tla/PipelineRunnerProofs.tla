------------------------ MODULE PipelineRunnerProofs ------------------------
(***************************************************************************)
(* What PipelineRunner promises, for any number of processes, any plan and *)
(* any number of crashes, Stops and deploys.  Of a step instance the       *)
(* invariant says how its ledger row, its calls and its child belong       *)
(* together (Ledgered); of a driver, what it may still do to its step      *)
(* (DriverOK); of a dispatch, whom it still answers to (JobsOK); and of a  *)
(* run without faults, that a Stop has left no child alive that no         *)
(* dispatch is about to fence (Unfaulty).                                  *)
(***************************************************************************)
EXTENDS PipelineRunner, FiniteSetTheorems, TLAPS

\* Calls are made with the row's input, a call or a child has a row behind it,
\* a message that left has its marker, and one driver calls a "once" step.
Ledgered(i) ==
    /\ \A c \in hist.calls[i] : c[3] = row[i].inp
    /\ row[i].st = "none" => hist.calls[i] = {} /\ kid[i].st = "none" /\ hist.sent[i] = 0
    /\ hist.sent[i] # 0 => hist.sent[i] = 1 /\ kid[i].armed /\ kid[i].st # "none"
    /\ i \in DOMAIN plan /\ plan[i].kind = "once" =>
         \A b, c \in hist.calls[i] : b[1] = c[1]

\* A position that a driver works on.
Steppable(i) == i \in DOMAIN plan /\ plan[i].kind # "end"

OnChild == {"dispatching", "watch", "park", "parked"}
Calling == {"attempt", "calling", "retry"}
Working == {"eval"} \cup Calling \cup OnChild
Closes == {"fin", "emit", "cancelrow", "failing", "failed"}

\* Driver d on rows rw after past h.
DriverOK(d, rw, h) ==
    /\ d.pc \in Working \cup Closes => Steppable(d.pos)
    /\ d.pc \in Working => rw[d.pos].st # "none"
    /\ d.pc \in OnChild => plan[d.pos].kind = "agent"
    /\ d.pc \in OnChild \ {"dispatching"} => d.child = "linked"
    /\ d.pc \in Calling /\ plan[d.pos].kind = "once" =>
         \A c \in h.calls[d.pos] : c[1] = d.epoch
    /\ d.pc \in Calling /\ d.child # "linked" => h.sent[d.pos] = 0
    /\ d.pc \in {"settle", "fin"} => d.res \in Terminal
    /\ d.pc = "none" => ~d.cancel

\* A driver holds the run's lock.
Owner == \A p \in Proc : drv[p].pc # "none" => lock = p /\ run.st # "none"

\* A dispatch that is not aborted is the one its driver waits for.
JobsOK ==
    /\ \A j \in jobs : row[j.pos].st # "none"
    /\ \A j \in jobs : ~j.ab =>
         /\ drv[j.proc].pc = "dispatching" /\ drv[j.proc].pos = j.pos /\ ~drv[j.proc].cancel
         /\ j.pc \in {"link", "send"} => hist.sent[j.pos] = 0
    /\ \A j, k \in jobs : ~j.ab /\ ~k.ab => j = k

Stopped == run.st = "canceled" \/ \E p \in Proc : drv[p].cancel

\* Process p and its driver, while nothing has failed.
Undisturbed(p) ==
    /\ proc[p] = "up" /\ ~drv[p].intr
    /\ drv[p].pc \in {"deliver", "post", "mark", "exit"} => run.st \in Terminal
    /\ drv[p].pc = "cancelrow" \/ drv[p].res = "canceled" => drv[p].cancel

\* A canceled row is the work of the driver that was stopped.
CancelKnown ==
    \A i \in Pos : row[i].st = "canceled" =>
        /\ run.st \in Terminal \/ \E p \in Proc : drv[p].pc # "none"
        /\ \A p \in Proc : drv[p].pc # "none" => drv[p].cancel

\* Once the Stop's own sweep is over, a child still active has a dispatch that
\* will meet a fence.
Caught ==
    sweep = {} /\ Stopped =>
        \A i \in Pos : kid[i].st \in Active =>
            \E j \in jobs : j.pos = i /\ j.pc \in {"send", "fence"}

Unfaulty == (\A p \in Proc : Undisturbed(p)) /\ CancelKnown /\ Caught

IInv ==
    /\ TypeOK /\ Owner
    /\ \A i \in Pos : Ledgered(i)
    /\ \A p \in Proc : DriverOK(drv[p], row, hist)
    /\ JobsOK
    /\ faults = 0 => Unfaulty

-----------------------------------------------------------------------------
(* Where the driver goes. *)

\* A set of naturals that is not empty has a least element.
LEMMA LeastIn ==
    ASSUME NEW S \in SUBSET Nat, S # {}
    PROVE  Min(S) \in S /\ \A y \in S : Min(S) <= y
<1> DEFINE R == {ss \in Nat \X Nat : ss[1] < ss[2]}
<1>1. IsWellFoundedOn(R, Nat)
  BY NatLessThanWellFounded, Zenon DEF OpToRel
<1>2. \A x, y \in Nat : y < x => <<y, x>> \in R
  OBVIOUS
<1> HIDE DEF R
<1>3. PICK x \in S : \A y \in S : ~(<<y, x>> \in R)
  BY <1>1, WFMin
<1>4. \A y \in S : x <= y
  <2> SUFFICES ASSUME NEW y \in S PROVE x <= y
    OBVIOUS
  <2>1. x \in Nat /\ y \in Nat /\ ~(y < x)
    BY <1>2, <1>3
  <2> QED
    BY <2>1
<1> QED
  BY <1>4 DEF Min

\* A plan's positions are 1 .. Len, and each is a step instance.
LEMMA PlanFacts ==
    ASSUME TypeOK
    PROVE  /\ Len \in Nat \ {0} /\ Len <= MaxLen /\ MaxLen \in Nat /\ DOMAIN plan = 1 .. Len
           /\ DOMAIN plan \subseteq Pos /\ \A i \in DOMAIN plan : plan[i] \in PlanShape
           /\ WellNested(plan)
<1>1. PICK n \in Pos : DOMAIN plan = 1 .. n
  BY PlanAssumption DEF TypeOK
<1>2. n \in Nat \ {0} /\ n <= MaxLen /\ MaxLen \in Nat
  BY RunAssumption DEF Pos
<1>3. Cardinality(1 .. n) = n
  BY <1>2, FS_Interval
<1>4. Len = n
  BY <1>1, <1>3 DEF Len
<1>5. (\A i \in DOMAIN plan : plan[i] \in PlanShape) /\ WellNested(plan)
  BY PlanAssumption DEF TypeOK
<1> QED
  BY <1>1, <1>2, <1>4, <1>5 DEF Pos

\* The next position is in the plan or just behind it.
LEMMA SeekIn ==
    ASSUME TypeOK, NEW j \in Nat \ {0}
    PROVE  Seek(j) \in 1 .. Len + 1
<1>1. Len \in Nat
  BY PlanFacts
<1> DEFINE S == {k \in j .. Len : Applies(k)} \cup {Len + 1}
<1>2. S \in SUBSET Nat /\ S # {} /\ S \subseteq 1 .. Len + 1
  BY <1>1
<1> HIDE DEF S
<1>3. Min(S) \in 1 .. Len + 1
  BY <1>2, LeastIn
<1> QED
  BY <1>3 DEF Seek, S

\* So is the next item of a loop, and the next step outside loops and lanes.
LEMMA NextItemIn ==
    ASSUME TypeOK, NEW i \in DOMAIN plan, plan[i].loop # 0, plan[i].kind # "end"
    PROVE  NextItem(i) \in 1 .. Len
<1>1. /\ Len \in Nat /\ i \in 1 .. Len /\ WellNested(plan) /\ DOMAIN plan = 1 .. Len
  BY PlanFacts
<1> DEFINE S == {k \in i + 1 .. Len : plan[k].loop = plan[i].loop
                    /\ (plan[k].kind = "end" \/ plan[k].item > plan[i].item)}
<1>2. PICK e \in DOMAIN plan : e >= i /\ plan[e].kind = "end" /\ plan[e].loop = plan[i].loop
  <2>1. plan[i] \in PlanShape
    BY PlanFacts
  <2>2. plan[i].loop \in 1 .. Len /\ plan[plan[i].loop].kind = "loop"
    BY <1>1, <2>1 DEF WellNested, PlanShape
  <2>3. PICK e \in 1 .. Len :
           /\ plan[i].loop < e /\ plan[e].kind = "end"
           /\ \A k \in 1 .. Len : plan[k].loop = plan[i].loop <=> plan[i].loop < k /\ k <= e
    BY <1>1, <2>2 DEF WellNested
  <2>4. plan[e].loop = plan[i].loop /\ i <= e
    BY <1>1, <2>2, <2>3
  <2> QED
    BY <1>1, <2>3, <2>4
<1>3. e \in S
  <2>1. e # i /\ e \in 1 .. Len
    BY <1>1, <1>2
  <2>2. e \in i + 1 .. Len
    BY <1>1, <1>2, <2>1
  <2> QED
    BY <1>2, <2>2
<1>4. S \in SUBSET Nat /\ S # {} /\ S \subseteq 1 .. Len
  BY <1>1, <1>3
<1> HIDE DEF S
<1>5. Min(S) \in 1 .. Len
  BY <1>4, LeastIn
<1> QED
  BY <1>5 DEF NextItem, S

\* As NextItemIn, for the steps outside loops and lanes.
LEMMA NextTopIn ==
    ASSUME TypeOK, NEW i \in 1 .. MaxLen + 1
    PROVE  NextTop(i) \in 1 .. Len + 1
<1>1. Len \in Nat /\ MaxLen \in Nat
  BY PlanFacts
<1> DEFINE S == {k \in i + 1 .. Len : plan[k].loop = 0 /\ plan[k].lane = 0} \cup {Len + 1}
<1>2. S \in SUBSET Nat /\ S # {} /\ S \subseteq 1 .. Len + 1
  BY <1>1
<1> HIDE DEF S
<1>3. Min(S) \in 1 .. Len + 1
  BY <1>2, LeastIn
<1> QED
  BY <1>3 DEF NextTop, S

\* e is d, moved to another place of the plan.
Carries(d, e) ==
    /\ e \in Driver
    /\ e.pc \in {"step", "skip", "fin", "cancelrow", "settle"}
    /\ e.pc \in {"fin", "cancelrow"} => Steppable(e.pos)
    /\ e.pc \in {"settle", "fin"} => e.res \in Terminal
    /\ e.cancel = d.cancel /\ e.intr = d.intr

\* ... and not because it is canceled.
CarriesOn(d, e) ==
    /\ Carries(d, e)
    /\ e.pc # "cancelrow" /\ e.res \in {d.res, "failed"}

\* On to the next position that applies.
LEMMA OnwardOK ==
    ASSUME TypeOK, NEW d \in Driver, NEW j \in Nat \ {0}
    PROVE  CarriesOn(d, Onward(d, j)) /\ Onward(d, j).pc = "step"
<1> DEFINE k == Seek(j)
           fresh == /\ k <= Len /\ plan[k].loop # 0
                    /\ \/ k = plan[k].loop + 1
                       \/ plan[k].kind = "end"
                       \/ plan[k - 1].item # plan[k].item
           sc == IF fresh THEN row[plan[k].loop].inp ELSE d.sc
<1>1. /\ k \in 1 .. Len + 1 /\ Len \in Nat /\ Len <= MaxLen /\ MaxLen \in Nat
      /\ DOMAIN plan = 1 .. Len /\ \A i \in DOMAIN plan : plan[i] \in PlanShape
  BY SeekIn, PlanFacts
<1>2. sc \in Value
  <2>1. CASE fresh
    <3>1. k \in 1 .. Len /\ plan[k].loop # 0
      BY <1>1, <2>1
    <3>2. plan[k].loop \in Pos
      BY <1>1, <3>1 DEF PlanShape, Pos
    <3> QED
      BY <2>1, <3>2 DEF TypeOK, StepRow
  <2>2. CASE ~fresh
    BY <2>2 DEF Driver
  <2> QED
    BY <2>1, <2>2
<1>3. Onward(d, j) = [d EXCEPT !.pc = "step", !.pos = k, !.sc = sc]
  BY DEF Onward
<1>4. k \in 1 .. MaxLen + 1
  BY <1>1
<1> HIDE DEF k, sc
<1> QED
  BY <1>2, <1>3, <1>4 DEF CarriesOn, Carries, Driver

\* A failed step: the run fails, its loop does, or the next item is due.
LEMMA FailingOK ==
    ASSUME TypeOK, NEW d \in Driver, NEW i \in DOMAIN plan, plan[i].kind # "end"
    PROVE  CarriesOn(d, Failing(d, i))
<1> DEFINE l == plan[i].loop
<1>1. /\ Len \in Nat /\ Len <= MaxLen /\ MaxLen \in Nat /\ DOMAIN plan = 1 .. Len
      /\ plan[i] \in PlanShape /\ WellNested(plan) /\ DOMAIN plan \subseteq Pos
  BY PlanFacts
<1>2. CASE l = 0
  BY <1>2 DEF Failing, Settling, CarriesOn, Carries, Driver, Terminal
<1>3. CASE l # 0 /\ plan[l].halt
  <2>1. l \in DOMAIN plan
    <3>1. l < i /\ l \in 0 .. MaxLen /\ i \in 1 .. Len
      BY <1>1 DEF WellNested, PlanShape
    <3> QED
      BY <1>1, <1>3, <3>1
  <2>4. plan[l].kind = "loop"
    BY <1>1, <1>3 DEF WellNested
  <2>2. Failing(d, i) = [d EXCEPT !.pos = l, !.pc = "fin", !.res = "failed"]
    BY <1>3 DEF Failing
  <2>3. l \in 1 .. MaxLen + 1
    BY <1>1, <2>1
  <2> HIDE DEF l
  <2> QED
    BY <2>1, <2>2, <2>3, <2>4 DEF CarriesOn, Carries, Driver, Terminal, Steppable
<1>4. CASE l # 0 /\ ~plan[l].halt
  <2>1. Failing(d, i) = Onward(d, NextItem(i))
    BY <1>4 DEF Failing
  <2>2. NextItem(i) \in Nat \ {0}
    BY <1>1, <1>4, NextItemIn
  <2> QED
    BY <2>1, <2>2, OnwardOK
<1> QED
  BY <1>2, <1>3, <1>4

\* A false filter.
LEMMA FencingOK ==
    ASSUME TypeOK, NEW d \in Driver, NEW i \in DOMAIN plan, plan[i].kind # "end"
    PROVE  CarriesOn(d, Fencing(d, i))
<1>1. /\ Len \in Nat /\ Len <= MaxLen /\ MaxLen \in Nat /\ DOMAIN plan = 1 .. Len
  BY PlanFacts
<1>2. CASE plan[i].loop # 0
  <2>1. NextItem(i) \in Nat \ {0}
    BY <1>1, <1>2, NextItemIn
  <2> QED
    BY <1>2, <2>1, OnwardOK DEF Fencing
<1>3. CASE plan[i].loop = 0
  <2>1. i \in 1 .. MaxLen + 1
    BY <1>1
  <2>2. NextTop(i) \in 1 .. Len + 1
    BY <2>1, NextTopIn
  <2>3. NextTop(i) \in 1 .. MaxLen + 1
    BY <1>1, <2>2
  <2>4. Fencing(d, i) = [d EXCEPT !.pc = "skip", !.pos = NextTop(i)]
    BY <1>3 DEF Fencing
  <2> QED
    BY <2>3, <2>4 DEF CarriesOn, Carries, Driver
<1> QED
  BY <1>2, <1>3

\* A cancellation on its way out.
LEMMA CancelingOK ==
    ASSUME TypeOK, NEW d \in Driver, NEW i \in DOMAIN plan
    PROVE  Carries(d, Canceling(d, i))
<1> DEFINE l == plan[i].loop
<1>1. /\ Len \in Nat /\ Len <= MaxLen /\ MaxLen \in Nat /\ DOMAIN plan = 1 .. Len
      /\ plan[i] \in PlanShape /\ WellNested(plan)
  BY PlanFacts
<1>2. CASE l # 0 /\ plan[i].kind # "end" /\ row[l].st = "running"
  <2>1. l \in DOMAIN plan
    <3>1. l < i /\ l \in 0 .. MaxLen /\ i \in 1 .. Len
      BY <1>1 DEF WellNested, PlanShape
    <3> QED
      BY <1>1, <1>2, <3>1
  <2>4. plan[l].kind = "loop"
    BY <1>1, <1>2 DEF WellNested
  <2>2. Canceling(d, i) = [d EXCEPT !.pc = "cancelrow", !.pos = l]
    BY <1>2 DEF Canceling
  <2>3. l \in 1 .. MaxLen + 1
    BY <1>1, <2>1
  <2> HIDE DEF l
  <2> QED
    BY <2>1, <2>2, <2>3, <2>4 DEF Carries, Driver, Steppable
<1>3. CASE ~(l # 0 /\ plan[i].kind # "end" /\ row[l].st = "running")
  <2>1. Canceling(d, i) = [d EXCEPT !.pc = "settle", !.res = "canceled"]
    BY <1>3 DEF Canceling, Settling
  <2> QED
    BY <2>1 DEF Carries, Driver, Terminal
<1> QED
  BY <1>2, <1>3

\* What a step's terminal row means: only a canceled one cancels.
LEMMA PassingOK ==
    ASSUME TypeOK, NEW d \in Driver, NEW i \in DOMAIN plan, plan[i].kind # "end"
    PROVE  /\ Carries(d, Passing(d, i))
           /\ d.res # "canceled" => CarriesOn(d, Passing(d, i))
<1>1. /\ Len \in Nat /\ DOMAIN plan = 1 .. Len /\ WellNested(plan)
  BY PlanFacts
<1>2. CASE d.res = "failed"
  <2>1. Passing(d, i) = Failing(d, i)
    BY <1>2 DEF Passing
  <2> QED
    BY <2>1, FailingOK DEF CarriesOn
<1>3. CASE d.res = "canceled"
  <2>1. Passing(d, i) = Canceling(d, i)
    BY <1>3 DEF Passing
  <2> QED
    BY <1>3, <2>1, CancelingOK
<1>4. CASE d.res \notin {"failed", "canceled"} /\ Dropped(i)
  <2>1. Passing(d, i) = Fencing(d, i)
    BY <1>4 DEF Passing
  <2> QED
    BY <2>1, FencingOK DEF CarriesOn
<1>5. CASE d.res \notin {"failed", "canceled"} /\ ~Dropped(i) /\ plan[i].kind = "loop"
  <2>1. Passing(d, i) = Onward(d, EndOf(i) + 1)
    BY <1>5 DEF Passing
  <2>2. EndOf(i) \in DOMAIN plan
    <3>1. \E e \in DOMAIN plan : plan[e].kind = "end" /\ plan[e].loop = i
      BY <1>1, <1>5 DEF WellNested
    <3> QED
      BY <3>1 DEF EndOf
  <2>3. EndOf(i) + 1 \in Nat \ {0}
    BY <1>1, <2>2
  <2> QED
    BY <2>1, <2>3, OnwardOK DEF CarriesOn
<1>6. CASE d.res \notin {"failed", "canceled"} /\ ~Dropped(i) /\ plan[i].kind # "loop"
  <2>1. Passing(d, i) = Onward(d, i + 1)
    BY <1>6 DEF Passing
  <2>2. i + 1 \in Nat \ {0}
    BY <1>1
  <2> QED
    BY <2>1, <2>2, OnwardOK DEF CarriesOn
<1> QED
  BY <1>2, <1>3, <1>4, <1>5, <1>6

-----------------------------------------------------------------------------
(* The steps of a driver. *)

\* No process is called None; the run is idle.
LEMMA InitIInv == Init => IInv
<1> SUFFICES ASSUME Init PROVE IInv
  OBVIOUS
<1> USE RunAssumption DEF Init
<1>1. NoDriver \in Driver /\ NoDriver.pc = "none" /\ ~NoDriver.cancel /\ ~NoDriver.intr /\ NoDriver.res = "ok"
  BY DEF NoDriver, Driver
<1>2. NoRow \in StepRow /\ NoKid \in ChildRow /\ NoRow.st = "none" /\ NoKid.st = "none"
  BY DEF NoRow, NoKid, StepRow, ChildRow
<1>3. TypeOK
  <2>1. run \in RunRow
    BY DEF RunRow
  <2>2. hist \in Past
    BY DEF Past
  <2>3. row \in [Pos -> StepRow] /\ kid \in [Pos -> ChildRow] /\ drv \in [Proc -> Driver]
    BY <1>1, <1>2
  <2>4. seen \in [Pos -> Nat] /\ wf \in Value /\ lock \in Proc \cup {None} /\ jobs \subseteq Job
    OBVIOUS
  <2>5. /\ proc \in [Proc -> {"up", "closing", "down"}] /\ owes \in [Proc -> {"none", "due", "post", "mark"}]
        /\ sweep \subseteq Proc \X BOOLEAN /\ faults \in 0 .. MaxFaults /\ moves \in Nat /\ plan \in Plans
    OBVIOUS
  <2> QED
    BY <2>1, <2>2, <2>3, <2>4, <2>5 DEF TypeOK
<1>4. \A p \in Proc : drv[p] = NoDriver
  OBVIOUS
<1>5. \A i \in Pos : row[i].st = "none" /\ kid[i].st = "none" /\ hist.calls[i] = {} /\ hist.sent[i] = 0
  BY <1>2
<1>6. Owner /\ (\A i \in Pos : Ledgered(i)) /\ JobsOK
  BY <1>1, <1>4, <1>5 DEF Owner, Ledgered, JobsOK
<1>7. \A p \in Proc : DriverOK(drv[p], row, hist)
  BY <1>1, <1>4 DEF DriverOK, Working, Calling, OnChild, Closes
<1>8. Unfaulty
  BY <1>1, <1>4, <1>5 DEF Unfaulty, Undisturbed, CancelKnown, Caught, Active
<1> QED
  BY <1>3, <1>6, <1>7, <1>8 DEF IInv

\* A process without a driver may be anything but stopped.
LEMMA IdleDriver ==
    ASSUME NEW d, d.pc = "none", ~d.cancel, NEW rw, NEW h
    PROVE  DriverOK(d, rw, h)
BY DEF DriverOK, Working, Calling, OnChild, Closes

\* The plan of a run never changes.
LEMMA SamePlan ==
    ASSUME plan' = plan, NEW p \in Proc, DriverOK(drv'[p], row', hist')
    PROVE  DriverOK(drv[p], row, hist)'
BY DEF DriverOK, Steppable

\* A step of the driver on p, whose dispatches are over: e is where it goes.
LEMMA DriverStep ==
    ASSUME IInv, NEW p \in Proc, drv[p].pc \notin {"none", "dispatching"},
           NEW e \in Driver, drv' = [drv EXCEPT ![p] = e], e.pc # "none",
           e.cancel = drv[p].cancel, e.intr = drv[p].intr \/ faults' # 0,
           UNCHANGED <<plan, lock, kid, jobs, proc, owes, sweep, moves>>,
           faults' \in 0 .. MaxFaults, faults' >= faults,
           hist' \in Past, hist'.sent = hist.sent,
           run' \in RunRow, run'.st # "none",
           run.st \in Terminal => run'.st \in Terminal,
           run'.st = "canceled" => run.st = "canceled" \/ e.cancel \/ faults' # 0,
           row' \in [Pos -> StepRow], seen' \in [Pos -> Nat], wf' \in Value,
           \A i \in Pos : row[i].st # "none" => row'[i].st # "none",
           \A i \in Pos : row'[i].st = "canceled" =>
               row[i].st = "canceled" \/ e.cancel \/ faults' # 0,
           \A i \in Pos : Ledgered(i)',
           DriverOK(e, row', hist'),
           e.pc \in {"deliver", "post", "mark", "exit"} => run'.st \in Terminal \/ faults' # 0,
           e.pc = "cancelrow" \/ e.res = "canceled" => e.cancel \/ faults' # 0
    PROVE  IInv'
<1>1. TypeOK'
  BY DEF IInv, TypeOK
<1>2. drv'[p] = e /\ \A q \in Proc : q # p => drv'[q] = drv[q]
  BY DEF IInv, TypeOK
<1>3. lock = p /\ \A q \in Proc : q # p => drv[q].pc = "none"
  BY DEF IInv, Owner
<1>4. Owner'
  BY <1>2, <1>3 DEF Owner
<1>5. \A q \in Proc : DriverOK(drv[q], row, hist)'
  <2>1. \A q \in Proc : q # p => ~drv[q].cancel
    BY <1>3 DEF IInv, DriverOK
  <2>2. \A q \in Proc : DriverOK(drv'[q], row', hist')
    BY <1>2, <1>3, <2>1, IdleDriver
  <2> QED
    BY <2>2, SamePlan
<1>6. JobsOK'
  <2>1. \A j \in jobs : j.pos \in Pos /\ j.proc \in Proc
    BY DEF IInv, TypeOK, Job
  <2>2. \A j \in jobs : ~j.ab => j.proc # p
    BY DEF IInv, JobsOK
  <2> QED
    BY <1>2, <2>1, <2>2 DEF IInv, JobsOK
<1>7. ASSUME faults' = 0 PROVE Unfaulty'
  <2>1. faults = 0 /\ Unfaulty
    BY <1>7 DEF IInv, TypeOK
  <2>2. \A q \in Proc : Undisturbed(q)'
    <3> SUFFICES ASSUME NEW q \in Proc PROVE Undisturbed(q)'
      OBVIOUS
    <3>1. CASE q = p
      BY <1>2, <1>7, <2>1, <3>1 DEF Unfaulty, Undisturbed
    <3>2. CASE q # p
      BY <1>2, <1>3, <2>1, <3>2 DEF Unfaulty, Undisturbed
    <3> QED
      BY <3>1, <3>2
  <2>3. CancelKnown'
    BY <1>2, <1>3, <1>7, <2>1 DEF Unfaulty, CancelKnown
  <2>4. Caught'
    <3>1. Stopped' => Stopped
      BY <1>2, <1>7 DEF Stopped
    <3> QED
      BY <2>1, <3>1 DEF Unfaulty, Caught
  <2> QED
    BY <2>2, <2>3, <2>4 DEF Unfaulty
<1> QED
  BY <1>1, <1>4, <1>5, <1>6, <1>7 DEF IInv
\* What shows a driver that it is canceled.
Canceled(p) ==
    \/ drv[p].cancel \/ drv[p].pc = "cancelrow" \/ drv[p].res = "canceled"
    \/ \E i \in Pos : row[i].st = "canceled"

\* Rows that are written stay written, with their input.
Kept ==
    \A i \in Pos : row[i].st # "none" => row'[i].st # "none" /\ row'[i].inp = row[i].inp

\* Calls and children stay with the rows they belong to.
LEMMA KeptLedger ==
    ASSUME IInv, UNCHANGED <<plan, hist, kid>>, Kept
    PROVE  \A i \in Pos : Ledgered(i)'
BY DEF IInv, Ledgered, Kept

\* A driver's step that leaves the run's own row alone.
LEMMA DriverGoes ==
    ASSUME IInv, NEW p \in Proc, drv[p].pc \notin {"none", "dispatching"},
           NEW e \in Driver, drv' = [drv EXCEPT ![p] = e],
           e.pc \notin {"none", "deliver", "post", "mark"}, e.pc = "exit" => e.intr,
           e.cancel = drv[p].cancel, e.intr = drv[p].intr,
           UNCHANGED <<run, kid, wf, hist, around>>,
           row' \in [Pos -> StepRow], seen' \in [Pos -> Nat], Kept,
           \A i \in Pos : row'[i].st = "canceled" => Canceled(p),
           DriverOK(e, row', hist),
           e.pc = "cancelrow" \/ e.res = "canceled" => Canceled(p)
    PROVE  IInv'
<1>1. TypeOK /\ run.st # "none" /\ (faults = 0 => Unfaulty)
  BY DEF IInv, Owner
<1>2. faults = 0 /\ Canceled(p) => e.cancel
  BY <1>1 DEF Canceled, Unfaulty, Undisturbed, CancelKnown
<1>3. faults = 0 => ~e.intr
  BY <1>1 DEF Unfaulty, Undisturbed
<1>4. /\ run \in RunRow /\ hist \in Past /\ wf \in Value /\ faults \in 0 .. MaxFaults /\ faults >= faults
      /\ row \in [Pos -> StepRow]
  BY <1>1, RunAssumption DEF TypeOK
<1>5. /\ UNCHANGED <<plan, lock, kid, jobs, proc, owes, sweep, moves>>
      /\ faults' = faults /\ hist' = hist /\ run' = run /\ wf' = wf
  BY DEF around
<1>6. \A i \in Pos : Ledgered(i)'
  BY <1>5, KeptLedger
<1>7. \A i \in Pos : row[i].st # "none" => row'[i].st # "none"
  BY DEF Kept
<1> QED
  BY <1>1, <1>2, <1>3, <1>4, <1>5, <1>6, <1>7, DriverStep

\* A row written by its driver keeps its input, unless it is new.
LEMMA RowWritten ==
    ASSUME TypeOK, NEW i \in Pos, NEW r \in StepRow, row' = [row EXCEPT ![i] = r],
           r.st # "none", row[i].st = "none" \/ r.inp = row[i].inp
    PROVE  /\ row' \in [Pos -> StepRow] /\ row'[i] = r /\ Kept
           /\ \A k \in Pos : row'[k].st = "canceled" => row[k].st = "canceled" \/ r.st = "canceled"
BY DEF TypeOK, Kept

\* What a driver is and knows.
LEMMA DriverFacts ==
    ASSUME IInv, NEW p \in Proc
    PROVE  /\ TypeOK /\ drv[p] \in Driver /\ DriverOK(drv[p], row, hist)
           /\ row \in [Pos -> StepRow] /\ seen \in [Pos -> Nat] /\ hist \in Past /\ run \in RunRow
           /\ DOMAIN plan \subseteq Pos /\ DOMAIN plan = 1 .. Len
           /\ Len \in Nat \ {0} /\ Len <= MaxLen /\ MaxLen \in Nat
           /\ drv[p].pc # "none" => run.st # "none" /\ lock = p
BY PlanFacts DEF IInv, TypeOK, Owner

\* Rows that are left alone are kept.
LEMMA RowsLeft ==
    ASSUME TypeOK, row' = row, NEW p \in Proc
    PROVE  /\ row' \in [Pos -> StepRow] /\ Kept
           /\ \A i \in Pos : row'[i].st = "canceled" => Canceled(p)
BY DEF TypeOK, Kept, Canceled

\* Where a driver may go between its steps without any further knowledge.
LEMMA CarriedOK ==
    ASSUME NEW d, NEW e, Carries(d, e), NEW rw, NEW h
    PROVE  DriverOK(e, rw, h)
BY DEF Carries, DriverOK, Working, Calling, OnChild, Closes

\* The step boundary: on its way out, with a failure, or at a loop's end.
LEMMA BoundaryIInv ==
    ASSUME IInv, NEW p \in Proc, Boundary(p)
    PROVE  IInv'
<1> DEFINE d == drv[p]
<1>1. /\ TypeOK /\ d \in Driver /\ DOMAIN plan = 1 .. Len /\ Len \in Nat \ {0}
      /\ Len <= MaxLen /\ MaxLen \in Nat /\ seen \in [Pos -> Nat] /\ DOMAIN plan \subseteq Pos
  BY DriverFacts
<1>2. d.pc = "step" /\ UNCHANGED <<run, row, seen, kid, wf, hist, around>>
  BY DEF Boundary, Is
<1>3. /\ row' \in [Pos -> StepRow] /\ Kept /\ seen' \in [Pos -> Nat]
      /\ \A i \in Pos : row'[i].st = "canceled" => Canceled(p)
  BY <1>1, <1>2, RowsLeft
<1>4. ASSUME NEW e, drv' = [drv EXCEPT ![p] = e], Carries(d, e),
             e.pc = "cancelrow" \/ e.res = "canceled" => Canceled(p)
      PROVE  IInv'
  <2>1. e \in Driver /\ e.pc \notin {"none", "deliver", "post", "mark", "exit"} /\ e.cancel = d.cancel /\ e.intr = d.intr
    BY <1>4 DEF Carries
  <2>2. DriverOK(e, row', hist)
    BY <1>4, CarriedOK
  <2> QED
    BY <1>2, <1>3, <1>4, <2>1, <2>2, DriverGoes
<1>5. d.pos \in Nat \ {0} /\ (d.pos <= Len => d.pos \in DOMAIN plan)
  BY <1>1 DEF Driver
<1>6. CASE d.pos > Len /\ Move(p, Settling(d, "succeeded"))
  <2>1. Carries(d, Settling(d, "succeeded")) /\ Settling(d, "succeeded").res = "succeeded"
        /\ Settling(d, "succeeded").pc = "settle"
    BY <1>1 DEF Settling, Carries, Driver, Terminal
  <2> QED
    BY <1>4, <1>6, <2>1 DEF Move
<1>7. CASE d.pos <= Len /\ plan[d.pos].kind # "end" /\ d.intr /\ Goto(p, "exit")
  <2> DEFINE e == [d EXCEPT !.pc = "exit"]
  <2>1. /\ drv' = [drv EXCEPT ![p] = e] /\ e \in Driver /\ e.pc = "exit" /\ e.cancel = d.cancel
        /\ e.intr = d.intr /\ e.res = d.res /\ e.intr
    BY <1>1, <1>7 DEF Goto, Move, At, Driver
  <2> HIDE DEF e
  <2>2. DriverOK(e, row', hist)
    BY <2>1 DEF DriverOK, Working, Calling, OnChild, Closes
  <2> QED
    BY <1>2, <1>3, <2>1, <2>2, DriverGoes DEF Canceled
<1>8. CASE d.pos <= Len /\ plan[d.pos].kind # "end" /\ d.cancel /\ Move(p, Canceling(d, d.pos))
  <2>1. Carries(d, Canceling(d, d.pos))
    BY <1>1, <1>5, <1>8, CancelingOK
  <2> QED
    BY <1>4, <1>8, <2>1 DEF Move, Canceled
<1>9. CASE d.pos <= Len /\ plan[d.pos].kind # "end" /\ Move(p, Failing(d, d.pos))
  <2>1. CarriesOn(d, Failing(d, d.pos))
    BY <1>1, <1>5, <1>9, FailingOK
  <2> QED
    BY <1>4, <1>9, <2>1 DEF Move, CarriesOn, Canceled
<1>10. CASE /\ d.pos <= Len /\ plan[d.pos].kind = "end"
            /\ Move(p, [d EXCEPT !.pos = plan[d.pos].loop, !.pc = "fin", !.res = "succeeded"])
  <2> DEFINE l == plan[d.pos].loop
             e == [d EXCEPT !.pos = l, !.pc = "fin", !.res = "succeeded"]
  <2>1. /\ l # 0 /\ l < d.pos /\ plan[l].kind = "loop" /\ l \in 0 .. MaxLen
    BY <1>1, <1>5, <1>10, PlanFacts DEF WellNested, PlanShape
  <2>2. l \in DOMAIN plan /\ l \in 1 .. MaxLen + 1
    BY <1>1, <1>5, <1>10, <2>1
  <2> HIDE DEF l
  <2>3. Carries(d, e) /\ e.res = "succeeded" /\ e.pc = "fin"
    BY <1>1, <2>1, <2>2 DEF Carries, Driver, Steppable, Terminal
  <2>4. drv' = [drv EXCEPT ![p] = e]
    BY <1>10 DEF Move, l
  <2> QED
    BY <1>4, <2>3, <2>4
<1> QED
  BY <1>6, <1>7, <1>8, <1>9, <1>10 DEF Boundary
\* A driver's step that leaves the ledger's rows alone.
LEMMA DriverMoves ==
    ASSUME IInv, NEW p \in Proc, drv[p].pc \notin {"none", "dispatching"},
           NEW e \in Driver, drv' = [drv EXCEPT ![p] = e],
           e.pc \notin {"none", "deliver", "post", "mark"}, e.pc = "exit" => e.intr,
           e.cancel = drv[p].cancel, e.intr = drv[p].intr,
           UNCHANGED <<run, row, kid, wf, hist, around>>,
           seen' \in [Pos -> Nat],
           DriverOK(e, row, hist),
           e.pc = "cancelrow" \/ e.res = "canceled" => Canceled(p)
    PROVE  IInv'
<1>1. row' = row /\ TypeOK
  BY DEF IInv
<1>2. /\ row' \in [Pos -> StepRow] /\ Kept
      /\ \A i \in Pos : row'[i].st = "canceled" => Canceled(p)
  BY <1>1, RowsLeft
<1>3. DriverOK(e, row', hist)
  BY <1>1
<1>4. UNCHANGED <<run, kid, wf, hist, around>>
  OBVIOUS
<1> QED
  BY <1>2, <1>3, <1>4, DriverGoes

\* A driver's step that writes one row of the ledger.
LEMMA DriverWrites ==
    ASSUME IInv, NEW p \in Proc, drv[p].pc \notin {"none", "dispatching"},
           NEW e \in Driver, drv' = [drv EXCEPT ![p] = e],
           e.pc \notin {"none", "deliver", "post", "mark"}, e.pc = "exit" => e.intr,
           e.cancel = drv[p].cancel, e.intr = drv[p].intr,
           UNCHANGED <<run, seen, kid, wf, hist, around>>,
           NEW i \in Pos, NEW r \in StepRow, row' = [row EXCEPT ![i] = r],
           r.st # "none", row[i].st = "none" \/ r.inp = row[i].inp,
           r.st = "canceled" => Canceled(p),
           ASSUME row'[i] = r, Kept PROVE DriverOK(e, row', hist),
           e.pc = "cancelrow" \/ e.res = "canceled" => Canceled(p)
    PROVE  IInv'
<1>1. TypeOK /\ seen' \in [Pos -> Nat]
  BY DEF IInv, TypeOK
<1>2. /\ row' \in [Pos -> StepRow] /\ row'[i] = r /\ Kept
      /\ \A k \in Pos : row'[k].st = "canceled" => row[k].st = "canceled" \/ r.st = "canceled"
  BY <1>1, RowWritten
<1>3. \A k \in Pos : row'[k].st = "canceled" => Canceled(p)
  BY <1>2 DEF Canceled
<1>4. DriverOK(e, row', hist)
  BY <1>2
<1>5. UNCHANGED <<run, kid, wf, hist, around>>
  OBVIOUS
<1> QED
  BY <1>1, <1>2, <1>3, <1>4, <1>5, DriverGoes

\* Another event in the stream.
LEMMA SeenMore ==
    ASSUME seen \in [Pos -> Nat], NEW i, seen' = [seen EXCEPT ![i] = @ + 1]
    PROVE  seen' \in [Pos -> Nat]
<1>1. CASE i \in Pos
  BY <1>1
<1>2. CASE i \notin Pos
  BY <1>2
<1> QED
  BY <1>1, <1>2

\* The row that closes a step.
LEMMA FinishIInv ==
    ASSUME IInv, NEW p \in Proc, Finish(p)
    PROVE  IInv'
<1> DEFINE d == drv[p]  i == d.pos
           e == [d EXCEPT !.pc = "emit"]
           r == [row[i] EXCEPT !.st = d.res]
<1>1. /\ d.pc = "fin" /\ UNCHANGED <<run, seen, kid, wf, hist, around>>
      /\ row' = [row EXCEPT ![i] = r] /\ drv' = [drv EXCEPT ![p] = e]
  BY DEF Finish, Is, Goto, Move, At
<1>2. /\ d \in Driver /\ Steppable(i) /\ i \in Pos /\ d.res \in Terminal /\ row \in [Pos -> StepRow]
  BY <1>1, DriverFacts DEF DriverOK, Closes, Steppable
<1>3. /\ e \in Driver /\ e.pc = "emit" /\ e.cancel = d.cancel /\ e.intr = d.intr /\ e.res = d.res /\ e.pos = i
  BY <1>2 DEF Driver
<1>4. r \in StepRow /\ r.st = d.res /\ r.inp = row[i].inp /\ r.st # "none"
  BY <1>2 DEF StepRow, Terminal
<1> HIDE DEF e, r
<1>5. DriverOK(e, row', hist)
  BY <1>2, <1>3 DEF DriverOK, Working, Calling, OnChild, Closes
<1>6. d.res = "canceled" => Canceled(p)
  BY DEF Canceled
<1> QED
  BY <1>1, <1>2, <1>3, <1>4, <1>5, <1>6, DriverWrites

\* The event of a closed step, and the way on.
LEMMA EmitIInv ==
    ASSUME IInv, NEW p \in Proc, Emit(p)
    PROVE  IInv'
<1> DEFINE d == drv[p]  i == d.pos
           sc == IF d.res = "succeeded" THEN Fed(d.sc, i) ELSE d.sc
           b == [d EXCEPT !.sc = sc]
           e == Passing(b, i)
<1>1. /\ d.pc = "emit" /\ UNCHANGED <<run, row, kid, wf, hist, around>>
      /\ seen' = [seen EXCEPT ![i] = @ + 1] /\ drv' = [drv EXCEPT ![p] = e]
  BY DEF Emit, Is, Move
<1>2. /\ TypeOK /\ d \in Driver /\ Steppable(i) /\ i \in Pos /\ row \in [Pos -> StepRow] /\ seen \in [Pos -> Nat]
  BY <1>1, DriverFacts DEF DriverOK, Closes, Steppable
<1>3. sc \in Value
  BY <1>2 DEF Fed, Driver, StepRow
<1> HIDE DEF sc
<1>4. b \in Driver /\ b.cancel = d.cancel /\ b.intr = d.intr /\ b.res = d.res
  BY <1>2, <1>3 DEF Driver
<1> HIDE DEF b
<1>5. Carries(b, e) /\ (b.res # "canceled" => CarriesOn(b, e))
  BY <1>2, <1>4, PassingOK DEF Steppable
<1> HIDE DEF e
<1>6. DriverOK(e, row, hist)
  BY <1>5, CarriedOK
<1>7. e.pc = "cancelrow" \/ e.res = "canceled" => Canceled(p)
  BY <1>4, <1>5 DEF CarriesOn, Canceled
<1>8. /\ e \in Driver /\ e.pc \notin {"none", "deliver", "post", "mark", "exit"}
      /\ e.cancel = d.cancel /\ e.intr = d.intr
  BY <1>4, <1>5 DEF Carries
<1>9. seen' \in [Pos -> Nat]
  BY <1>1, <1>2, SeenMore
<1> QED
  BY <1>1, <1>6, <1>7, <1>8, <1>9, DriverMoves

\* A canceled step closes its row, then its loop's.
LEMMA CloseCanceledIInv ==
    ASSUME IInv, NEW p \in Proc, CloseCanceled(p)
    PROVE  IInv'
<1> DEFINE d == drv[p]  i == d.pos
<1>0. CASE Goto(p, "exit") /\ UNCHANGED row /\ d.intr
  <2> DEFINE e == [d EXCEPT !.pc = "exit"]
  <2>1. d.pc = "cancelrow" /\ UNCHANGED <<run, seen, kid, wf, hist, around>>
    BY DEF CloseCanceled, Is
  <2>2. TypeOK /\ d \in Driver /\ seen \in [Pos -> Nat] /\ Canceled(p)
    BY <2>1, DriverFacts DEF Canceled
  <2>3. /\ drv' = [drv EXCEPT ![p] = e] /\ e \in Driver /\ e.pc = "exit" /\ e.cancel = d.cancel
        /\ e.intr = d.intr /\ e.res = d.res /\ e.intr
    BY <1>0, <2>2 DEF Goto, Move, At, Driver
  <2> HIDE DEF e
  <2>4. DriverOK(e, row, hist)
    BY <2>3 DEF DriverOK, Working, Calling, OnChild, Closes
  <2> QED
    BY <1>0, <2>1, <2>2, <2>3, <2>4, DriverMoves
<1> DEFINE e == Canceling(d, i)
           r == [row[i] EXCEPT !.st = "canceled"]
<1> SUFFICES ASSUME ~(Goto(p, "exit") /\ UNCHANGED row /\ d.intr)
             PROVE  IInv'
  BY <1>0
<1>1. /\ d.pc = "cancelrow" /\ UNCHANGED <<run, seen, kid, wf, hist, around>>
      /\ row' = [row EXCEPT ![i] = r] /\ drv' = [drv EXCEPT ![p] = e]
  BY DEF CloseCanceled, Is, Move
<1>2. /\ TypeOK /\ d \in Driver /\ Steppable(i) /\ i \in Pos /\ i \in DOMAIN plan /\ row \in [Pos -> StepRow]
  BY <1>1, DriverFacts DEF DriverOK, Closes, Steppable
<1>3. Carries(d, e)
  BY <1>2, CancelingOK
<1>4. r \in StepRow /\ r.st = "canceled" /\ r.inp = row[i].inp /\ r.st # "none"
  BY <1>2 DEF StepRow, Terminal
<1> HIDE DEF e, r
<1>5. DriverOK(e, row', hist) /\ Canceled(p)
  BY <1>1, <1>3, CarriedOK DEF Canceled
<1>6. /\ e \in Driver /\ e.pc \notin {"none", "deliver", "post", "mark", "exit"}
      /\ e.cancel = d.cancel /\ e.intr = d.intr
  BY <1>3 DEF Carries
<1> QED
  BY <1>1, <1>2, <1>4, <1>5, <1>6, DriverWrites
\* A driver about to run a step of the plan.
LEMMA SteppingFacts ==
    ASSUME IInv, NEW p \in Proc, Stepping(p)
    PROVE  /\ drv[p].pc = "step" /\ TypeOK /\ drv[p] \in Driver /\ drv[p].pos \in DOMAIN plan
           /\ Steppable(drv[p].pos) /\ drv[p].pos \in Pos /\ plan[drv[p].pos] \in PlanShape
           /\ row \in [Pos -> StepRow] /\ seen \in [Pos -> Nat] /\ Ledgered(drv[p].pos)
           /\ ~drv[p].cancel /\ ~drv[p].intr
<1>1. /\ drv[p].pc = "step" /\ drv[p].pos <= Len /\ plan[drv[p].pos].kind # "end"
      /\ ~drv[p].cancel /\ ~drv[p].intr
  BY DEF Stepping, Is
<1>2. /\ TypeOK /\ drv[p] \in Driver /\ DOMAIN plan = 1 .. Len /\ Len \in Nat \ {0} /\ DOMAIN plan \subseteq Pos
      /\ row \in [Pos -> StepRow] /\ seen \in [Pos -> Nat] /\ \A i \in DOMAIN plan : plan[i] \in PlanShape
  BY DriverFacts, PlanFacts
<1>3. drv[p].pos \in 1 .. Len
  BY <1>1, <1>2, RunAssumption DEF Driver
<1> QED
  BY <1>1, <1>2, <1>3 DEF Steppable, IInv

\* A driver at the start of an attempt.
LEMMA TriedDriver ==
    ASSUME NEW d \in Driver, NEW pc \in {"attempt", "eval"}, NEW att \in Nat,
           NEW child \in {"none", "linked"}
    PROVE  [d EXCEPT !.pc = pc, !.att = att, !.exec = d.exec + 1, !.child = child] \in Driver
<1> DEFINE b == [d EXCEPT !.pc = pc]
           c == [b EXCEPT !.att = att]
           x == [c EXCEPT !.exec = d.exec + 1]
<1>1. b \in Driver
  BY DEF Driver
<1>2. c \in Driver
  <2> HIDE DEF b
  <2> QED
    BY <1>1 DEF Driver
<1>3. d.exec + 1 \in Nat
  BY DEF Driver
<1>4. x \in Driver
  <2> HIDE DEF c
  <2> QED
    BY <1>2, <1>3 DEF Driver
<1>5. [x EXCEPT !.child = child] \in Driver
  <2> HIDE DEF x
  <2> QED
    BY <1>4 DEF Driver
<1> QED
  BY <1>5

\* The claim: a first row, no call and no child yet.
LEMMA ClaimIInv ==
    ASSUME IInv, NEW p \in Proc, Claim(p)
    PROVE  IInv'
<1> DEFINE d == drv[p]  i == d.pos
           e == [d EXCEPT !.pc = Entry(i), !.att = 1, !.exec = d.exec + 1, !.child = "none"]
           r == [st |-> "running", att |-> 1, inp |-> d.sc, out |-> 0]
<1>1. /\ Stepping(p) /\ row[i].st = "none" /\ UNCHANGED <<run, seen, kid, wf, hist, around>>
      /\ row' = [row EXCEPT ![i] = r] /\ drv' = [drv EXCEPT ![p] = e]
  BY DEF Claim, Move
<1>2. /\ d.pc = "step" /\ d \in Driver /\ Steppable(i) /\ i \in Pos /\ Ledgered(i) /\ plan[i] \in PlanShape
  BY <1>1, SteppingFacts
<1>3. r \in StepRow /\ r.st = "running"
  BY <1>2, RunAssumption DEF StepRow, Driver
<1>4. Entry(i) \in {"attempt", "eval"}
  BY DEF Entry
<1>5. e \in Driver
  BY <1>2, <1>4, TriedDriver
<1>8. /\ e.pc = Entry(i) /\ e.cancel = d.cancel /\ e.intr = d.intr /\ e.res = d.res
      /\ e.pos = i /\ e.child = "none"
  BY <1>2 DEF Driver
<1> HIDE DEF e, r
<1>6. ASSUME row'[i] = r PROVE DriverOK(e, row', hist)
  BY <1>1, <1>2, <1>3, <1>4, <1>8, <1>6 DEF DriverOK, Working, Calling, OnChild, Closes, Ledgered
<1>7. e.res = "canceled" => Canceled(p)
  BY <1>8 DEF Canceled
<1> QED
  BY <1>1, <1>2, <1>3, <1>4, <1>5, <1>8, <1>6, <1>7, DriverWrites

\* A backfilled event or none.
LEMMA BackfillSeen ==
    ASSUME seen \in [Pos -> Nat], NEW d, NEW i, Backfill(d, i)
    PROVE  seen' \in [Pos -> Nat]
<1>1. CASE seen' = seen
  BY <1>1
<1>2. CASE seen' = [seen EXCEPT ![i] = @ + 1]
  BY <1>2, SeenMore
<1> QED
  BY <1>1, <1>2 DEF Backfill

\* The row of an earlier driver stands for the step.
LEMMA AdoptIInv ==
    ASSUME IInv, NEW p \in Proc, Adopt(p)
    PROVE  IInv'
<1> DEFINE d == drv[p]  i == d.pos
           sc == IF row[i].st = "succeeded" THEN Fed(d.sc, i) ELSE d.sc
           b == [d EXCEPT !.res = row[i].st, !.shown = d.shown \cup {i}, !.sc = sc]
           e == Passing(b, i)
<1>1. /\ Stepping(p) /\ Adopted(i) /\ Backfill(d, i) /\ UNCHANGED <<run, row, kid, wf, hist, around>>
      /\ drv' = [drv EXCEPT ![p] = e]
  BY DEF Adopt, Move
<1>2. /\ TypeOK /\ d.pc = "step" /\ d \in Driver /\ Steppable(i) /\ i \in Pos
      /\ row \in [Pos -> StepRow] /\ seen \in [Pos -> Nat]
  BY <1>1, SteppingFacts
<1>3. sc \in Value
  BY <1>2 DEF Fed, Driver, StepRow
<1> HIDE DEF sc
<1>4. b \in Driver /\ b.cancel = d.cancel /\ b.intr = d.intr /\ b.res = row[i].st
  BY <1>1, <1>2, <1>3 DEF Driver, Adopted
<1> HIDE DEF b
<1>5. Carries(b, e) /\ (b.res # "canceled" => CarriesOn(b, e))
  BY <1>2, <1>4, PassingOK DEF Steppable
<1> HIDE DEF e
<1>6. DriverOK(e, row, hist)
  BY <1>5, CarriedOK
<1>7. e.pc = "cancelrow" \/ e.res = "canceled" => Canceled(p)
  BY <1>2, <1>4, <1>5 DEF CarriesOn, Canceled
<1>8. /\ e \in Driver /\ e.pc \notin {"none", "deliver", "post", "mark", "exit"}
      /\ e.cancel = d.cancel /\ e.intr = d.intr
  BY <1>4, <1>5 DEF Carries
<1>9. seen' \in [Pos -> Nat]
  BY <1>1, <1>2, BackfillSeen
<1> QED
  BY <1>1, <1>2, <1>6, <1>7, <1>8, <1>9, DriverMoves

\* An interrupted row is run again with its input, a "once" step fails.
LEMMA ReclaimIInv ==
    ASSUME IInv, NEW p \in Proc, Reclaim(p)
    PROVE  IInv'
<1> DEFINE d == drv[p]  i == d.pos
<1>1. /\ Stepping(p) /\ row[i].st # "none" /\ UNCHANGED <<run, seen, kid, wf, hist, around>>
  BY DEF Reclaim
<1>2. /\ d.pc = "step" /\ d \in Driver /\ Steppable(i) /\ i \in Pos /\ Ledgered(i)
      /\ row \in [Pos -> StepRow] /\ seen \in [Pos -> Nat]
  BY <1>1, SteppingFacts
<1>3. CASE Forbidden(i)
  <2> DEFINE e == [d EXCEPT !.pc = "fin", !.res = "failed"]
  <2>1. drv' = [drv EXCEPT ![p] = e] /\ row' = row
    BY <1>3 DEF Reclaim, Move
  <2>2. /\ e \in Driver /\ e.pc = "fin" /\ e.cancel = d.cancel /\ e.intr = d.intr /\ e.res = "failed" /\ e.pos = i
    BY <1>2 DEF Driver, Terminal
  <2> HIDE DEF e
  <2>3. DriverOK(e, row, hist)
    BY <1>2, <2>2 DEF DriverOK, Working, Calling, OnChild, Closes, Terminal
  <2>4. UNCHANGED <<run, row, kid, wf, hist, around>> /\ seen' \in [Pos -> Nat]
    BY <1>1, <1>2, <2>1
  <2> QED
    BY <1>2, <2>1, <2>2, <2>3, <2>4, DriverMoves
<1>4. CASE ~Forbidden(i)
  <2> DEFINE att == IF row[i].st = "waiting" THEN row[i].att ELSE row[i].att + 1
             child == IF kid[i].st = "none" THEN "none" ELSE "linked"
             e == [d EXCEPT !.pc = Entry(i), !.att = att, !.exec = d.exec + 1, !.child = child]
             r == [row[i] EXCEPT !.st = "running", !.att = att, !.inp = row[i].inp]
  <2>1. drv' = [drv EXCEPT ![p] = e] /\ row' = [row EXCEPT ![i] = r]
    BY <1>4 DEF Reclaim, Move, Input
  <2>2. att \in Nat /\ child \in {"none", "linked"} /\ (child # "linked" => hist.sent[i] = 0)
    BY <1>2 DEF StepRow, Ledgered
  <2> HIDE DEF att, child
  <2>3. r \in StepRow /\ r.st = "running" /\ r.inp = row[i].inp
    BY <1>2, <2>2 DEF StepRow
  <2>4. Entry(i) \in {"attempt", "eval"}
    BY DEF Entry
  <2>5. e \in Driver
    BY <1>2, <2>2, <2>4, TriedDriver
  <2>8. /\ e.pc = Entry(i) /\ e.cancel = d.cancel /\ e.intr = d.intr /\ e.res = d.res
        /\ e.pos = i /\ e.child = child
    BY <1>2 DEF Driver
  <2> HIDE DEF e, r
  <2>6. ASSUME row'[i] = r PROVE DriverOK(e, row', hist)
    BY <1>2, <1>4, <2>2, <2>3, <2>4, <2>8, <2>6
       DEF DriverOK, Working, Calling, OnChild, Closes, Forbidden
  <2>7. e.res = "canceled" => Canceled(p)
    BY <2>8 DEF Canceled
  <2> QED
    BY <1>1, <1>2, <2>1, <2>3, <2>4, <2>5, <2>8, <2>6, <2>7, DriverWrites
<1> QED
  BY <1>3, <1>4
\* A driver that leaves its step, tries it again or turns to the step's child.
LEMMA DriverTurns ==
    ASSUME IInv, NEW p \in Proc, drv[p].pc \in Working \ {"dispatching"},
           NEW c \in {"exit", "cancelrow", "failing", "retry", "watch", "park"},
           c = "exit" => drv[p].intr, c = "cancelrow" => drv[p].cancel,
           c = "retry" => drv[p].pc \in Calling,
           c \in {"watch", "park"} => plan[drv[p].pos].kind = "agent" /\ drv[p].child = "linked",
           drv' = [drv EXCEPT ![p] = At(drv[p], c)],
           UNCHANGED <<run, row, seen, kid, wf, hist, around>>
    PROVE  IInv'
<1> DEFINE d == drv[p]  e == [d EXCEPT !.pc = c]
<1>1. d \in Driver /\ seen \in [Pos -> Nat] /\ DriverOK(d, row, hist)
  BY DriverFacts
<1>2. drv' = [drv EXCEPT ![p] = e]
  BY DEF At
<1>3. e \in Driver
  BY <1>1 DEF Driver
<1>4. /\ e.pc = c /\ e.cancel = d.cancel /\ e.intr = d.intr /\ e.res = d.res /\ e.pos = d.pos
      /\ e.child = d.child /\ e.epoch = d.epoch
  BY <1>1 DEF Driver
<1> HIDE DEF e
<1>5. DriverOK(e, row, hist)
  BY <1>1, <1>4 DEF DriverOK, Working, Calling, OnChild, Closes
<1>6. e.pc = "cancelrow" \/ e.res = "canceled" => Canceled(p)
  BY <1>4 DEF Canceled
<1>7. d.pc \notin {"none", "dispatching"} /\ seen' \in [Pos -> Nat]
  BY <1>1 DEF Working, Calling, OnChild
<1> QED
  BY <1>2, <1>3, <1>4, <1>5, <1>6, <1>7, DriverMoves

\* A driver that records the failure of its step.
LEMMA DriverFails ==
    ASSUME IInv, NEW p \in Proc, drv[p].pc \in Working \ {"dispatching"},
           drv' = [drv EXCEPT ![p] = Closing(drv[p], "failed")],
           UNCHANGED <<run, row, seen, kid, wf, hist, around>>
    PROVE  IInv'
<1> DEFINE d == drv[p]  e == [d EXCEPT !.pc = "fin", !.res = "failed"]
<1>1. d \in Driver /\ seen \in [Pos -> Nat] /\ DriverOK(d, row, hist)
  BY DriverFacts
<1>2. drv' = [drv EXCEPT ![p] = e]
  BY DEF Closing
<1>3. e \in Driver
  BY <1>1 DEF Driver, Terminal
<1>4. /\ e.pc = "fin" /\ e.cancel = d.cancel /\ e.intr = d.intr /\ e.res = "failed" /\ e.pos = d.pos
  BY <1>1 DEF Driver
<1> HIDE DEF e
<1>5. DriverOK(e, row, hist)
  BY <1>1, <1>4 DEF DriverOK, Working, Calling, OnChild, Closes, Terminal
<1>7. d.pc \notin {"none", "dispatching"} /\ seen' \in [Pos -> Nat]
  BY <1>1 DEF Working, Calling, OnChild
<1> QED
  BY <1>2, <1>3, <1>4, <1>5, <1>7, DriverMoves

\* A driver whose step has succeeded with output v.
LEMMA DriverSucceeds ==
    ASSUME IInv, NEW p \in Proc, drv[p].pc \in Working \ {"dispatching"}, NEW v \in Value,
           row' = [row EXCEPT ![drv[p].pos].st = "succeeded", ![drv[p].pos].out = v],
           drv' = [drv EXCEPT ![p] = [drv[p] EXCEPT !.pc = "emit", !.res = "succeeded"]],
           UNCHANGED <<run, seen, kid, wf, hist, around>>
    PROVE  IInv'
<1> DEFINE d == drv[p]  i == d.pos
           e == [d EXCEPT !.pc = "emit", !.res = "succeeded"]
           r == [row[i] EXCEPT !.st = "succeeded", !.out = v]
<1>1. /\ d \in Driver /\ row \in [Pos -> StepRow] /\ DriverOK(d, row, hist) /\ DOMAIN plan \subseteq Pos
  BY DriverFacts
<1>2. Steppable(i) /\ i \in Pos
  BY <1>1 DEF DriverOK, Steppable
<1>3. row' = [row EXCEPT ![i] = r] /\ drv' = [drv EXCEPT ![p] = e]
  BY <1>1, <1>2
<1>4. r \in StepRow /\ r.st = "succeeded" /\ r.inp = row[i].inp
  BY <1>1, <1>2 DEF StepRow, Terminal
<1>5. e \in Driver
  BY <1>1 DEF Driver, Terminal
<1>6. e.pc = "emit" /\ e.cancel = d.cancel /\ e.intr = d.intr /\ e.res = "succeeded" /\ e.pos = i
  BY <1>1 DEF Driver
<1> HIDE DEF e, r
<1>7. DriverOK(e, row', hist)
  BY <1>2, <1>6 DEF DriverOK, Working, Calling, OnChild, Closes
<1>8. d.pc \notin {"none", "dispatching"}
  BY DEF Working, Calling, OnChild
<1> QED
  BY <1>2, <1>3, <1>4, <1>5, <1>6, <1>7, <1>8, DriverWrites

\* A filter or a branch is decided, or its condition fails.
LEMMA DecideIInv ==
    ASSUME IInv, NEW p \in Proc, drv[p].pc = "eval", Decide(p)
    PROVE  IInv'
<1>1. drv[p].pc \in Working \ {"dispatching"}
  BY DEF Working
<1>2. ASSUME NEW m \in {0, 1},
             row' = [row EXCEPT ![drv[p].pos].st = "succeeded", ![drv[p].pos].out = m],
             Move(p, [drv[p] EXCEPT !.pc = "emit", !.res = "succeeded"])
      PROVE  IInv'
  <2>1. m \in Value /\ UNCHANGED <<run, seen, kid, wf, hist, around>>
    BY RunAssumption DEF Decide
  <2> QED
    BY <1>1, <1>2, <2>1, DriverSucceeds DEF Move
<1>3. CASE Move(p, Closing(drv[p], "failed")) /\ UNCHANGED row
  <2>1. UNCHANGED <<run, row, seen, kid, wf, hist, around>>
    BY <1>3 DEF Decide
  <2> QED
    BY <1>1, <1>3, <2>1, DriverFails DEF Move
<1> QED
  BY <1>2, <1>3 DEF Decide

\* A loop begins with its first item, or has too many.
LEMMA LoopEnterIInv ==
    ASSUME IInv, NEW p \in Proc, LoopEnter(p)
    PROVE  IInv'
<1> DEFINE d == drv[p]  i == d.pos
<1>1. d.pc = "eval" /\ UNCHANGED <<run, row, seen, kid, wf, hist, around>>
  BY DEF LoopEnter, Is
<1>2. d.pc \in Working \ {"dispatching"} /\ TypeOK /\ d \in Driver /\ seen \in [Pos -> Nat]
      /\ DOMAIN plan = 1 .. Len /\ Len \in Nat
  BY <1>1, DriverFacts DEF Working
<1>3. CASE Move(p, Closing(d, "failed"))
  BY <1>1, <1>2, <1>3, DriverFails DEF Move
<1>4. CASE Move(p, Onward(d, i + 1))
  <2>0. i \in 1 .. MaxLen + 1
    BY <1>2 DEF Driver
  <2>1. i + 1 \in Nat \ {0}
    BY <2>0, RunAssumption
  <2> DEFINE e == Onward(d, i + 1)
  <2>2. CarriesOn(d, e)
    BY <1>2, <2>1, OnwardOK
  <2>3. drv' = [drv EXCEPT ![p] = e]
    BY <1>4 DEF Move
  <2> HIDE DEF e
  <2>4. DriverOK(e, row, hist)
    BY <2>2, CarriedOK DEF CarriesOn
  <2>5. /\ e \in Driver /\ e.pc \notin {"none", "deliver", "post", "mark", "exit"}
        /\ e.cancel = d.cancel /\ e.intr = d.intr
    BY <2>2 DEF CarriesOn, Carries
  <2>6. e.pc = "cancelrow" \/ e.res = "canceled" => Canceled(p)
    BY <2>2 DEF CarriesOn, Canceled
  <2>7. seen' \in [Pos -> Nat]
    BY <1>1, <1>2
  <2> QED
    BY <1>1, <2>3, <2>4, <2>5, <2>6, <2>7, DriverMoves
<1> QED
  BY <1>3, <1>4 DEF LoopEnter
\* After a false filter every later top-level step is marked skipped, or its
\* lost event told again.
LEMMA SkipStepIInv ==
    ASSUME IInv, NEW p \in Proc, SkipStep(p)
    PROVE  IInv'
<1> DEFINE d == drv[p]  i == d.pos
<1>1. d.pc = "skip" /\ UNCHANGED <<run, kid, wf, hist, around>>
  BY DEF SkipStep, Is
<1>2. /\ TypeOK /\ d \in Driver /\ seen \in [Pos -> Nat] /\ row \in [Pos -> StepRow]
      /\ Len \in Nat \ {0} /\ Len <= MaxLen /\ MaxLen \in Nat /\ i \in 1 .. MaxLen + 1
  BY DriverFacts DEF Driver
<1>3. CASE i > Len /\ Move(p, Settling(d, "succeeded")) /\ UNCHANGED <<row, seen>>
  <2> DEFINE e == [d EXCEPT !.pc = "settle", !.res = "succeeded"]
  <2>1. drv' = [drv EXCEPT ![p] = e] /\ UNCHANGED <<run, row, kid, wf, hist, around>> /\ seen' \in [Pos -> Nat]
    BY <1>1, <1>2, <1>3 DEF Move, Settling
  <2>2. e \in Driver
    BY <1>2 DEF Driver, Terminal
  <2>3. e.pc = "settle" /\ e.cancel = d.cancel /\ e.intr = d.intr /\ e.res = "succeeded"
    BY <1>2 DEF Driver
  <2> HIDE DEF e
  <2>4. DriverOK(e, row, hist)
    BY <2>3 DEF DriverOK, Working, Calling, OnChild, Closes, Terminal
  <2> QED
    BY <1>1, <2>1, <2>2, <2>3, <2>4, DriverMoves
<1>4. CASE /\ i <= Len /\ row[i].st = "none" /\ row' = [row EXCEPT ![i].st = "skipped"]
           /\ Goto(p, "skipped") /\ UNCHANGED seen
  <2> DEFINE e == [d EXCEPT !.pc = "skipped"]
             r == [row[i] EXCEPT !.st = "skipped"]
  <2>1. i \in Pos
    BY <1>2, <1>4 DEF Pos
  <2>2. drv' = [drv EXCEPT ![p] = e] /\ row' = [row EXCEPT ![i] = r]
    BY <1>2, <1>4, <2>1 DEF Goto, Move, At
  <2>3. r \in StepRow /\ r.st = "skipped"
    BY <1>2, <2>1 DEF StepRow
  <2>4. e \in Driver
    BY <1>2 DEF Driver
  <2>5. e.pc = "skipped" /\ e.cancel = d.cancel /\ e.intr = d.intr /\ e.res = d.res
    BY <1>2 DEF Driver
  <2> HIDE DEF e, r
  <2>6. DriverOK(e, row', hist)
    BY <2>5 DEF DriverOK, Working, Calling, OnChild, Closes
  <2>7. e.res = "canceled" => Canceled(p)
    BY <2>5 DEF Canceled
  <2>8. UNCHANGED <<run, seen, kid, wf, hist, around>>
    BY <1>1, <1>4
  <2> QED
    BY <1>1, <1>4, <2>1, <2>2, <2>3, <2>4, <2>5, <2>6, <2>7, <2>8, DriverWrites
<1>5. CASE /\ i <= Len /\ row[i].st # "none" /\ Backfill(d, i) /\ UNCHANGED row
           /\ Move(p, [d EXCEPT !.pos = NextTop(i), !.shown = @ \cup {i}])
  <2> DEFINE n == NextTop(i)
             sh == d.shown \cup {i}
             e == [d EXCEPT !.pos = n, !.shown = sh]
  <2>1. i \in Pos
    BY <1>2, <1>5 DEF Pos
  <2>2. n \in 1 .. MaxLen + 1
    <3>1. n \in 1 .. Len + 1
      BY <1>2, NextTopIn
    <3> QED
      BY <1>2, <3>1
  <2>3. drv' = [drv EXCEPT ![p] = e] /\ UNCHANGED <<run, row, kid, wf, hist, around>>
    BY <1>1, <1>5 DEF Move
  <2>4. sh \in SUBSET Pos
    BY <1>2, <2>1 DEF Driver
  <2> HIDE DEF n, sh
  <2>5. e \in Driver
    BY <1>2, <2>2, <2>4 DEF Driver
  <2>6. e.pc = "skip" /\ e.cancel = d.cancel /\ e.intr = d.intr /\ e.res = d.res
    BY <1>1, <1>2 DEF Driver
  <2> HIDE DEF e
  <2>7. DriverOK(e, row, hist)
    BY <2>6 DEF DriverOK, Working, Calling, OnChild, Closes
  <2>8. (e.res = "canceled" => Canceled(p)) /\ seen' \in [Pos -> Nat]
    BY <1>2, <1>5, <2>6, BackfillSeen DEF Canceled
  <2> QED
    BY <1>1, <2>3, <2>5, <2>6, <2>7, <2>8, DriverMoves
<1> QED
  BY <1>3, <1>4, <1>5 DEF SkipStep

\* The event of a skipped step.
LEMMA SkipEmitIInv ==
    ASSUME IInv, NEW p \in Proc, SkipEmit(p)
    PROVE  IInv'
<1> DEFINE d == drv[p]  i == d.pos
           n == NextTop(i)
           e == [d EXCEPT !.pc = "skip", !.pos = n]
<1>1. /\ d.pc = "skipped" /\ UNCHANGED <<run, row, kid, wf, hist, around>>
      /\ seen' = [seen EXCEPT ![i] = @ + 1] /\ drv' = [drv EXCEPT ![p] = e]
  BY DEF SkipEmit, Is, Move
<1>2. /\ TypeOK /\ d \in Driver /\ seen \in [Pos -> Nat]
      /\ Len \in Nat \ {0} /\ Len <= MaxLen /\ MaxLen \in Nat /\ i \in 1 .. MaxLen + 1
  BY DriverFacts DEF Driver
<1>3. n \in 1 .. MaxLen + 1
  <2>1. n \in 1 .. Len + 1
    BY <1>2, NextTopIn
  <2> QED
    BY <1>2, <2>1
<1> HIDE DEF n
<1>4. e \in Driver
  BY <1>2, <1>3 DEF Driver
<1>5. e.pc = "skip" /\ e.cancel = d.cancel /\ e.intr = d.intr /\ e.res = d.res
  BY <1>2 DEF Driver
<1> HIDE DEF e
<1>6. DriverOK(e, row, hist)
  BY <1>5 DEF DriverOK, Working, Calling, OnChild, Closes
<1>7. (e.res = "canceled" => Canceled(p)) /\ seen' \in [Pos -> Nat]
  BY <1>1, <1>2, <1>5, SeenMore DEF Canceled
<1> QED
  BY <1>1, <1>4, <1>5, <1>6, <1>7, DriverMoves

\* A call returned, failed or was given up.
LEMMA ReturnIInv ==
    ASSUME IInv, NEW p \in Proc, Return(p)
    PROVE  IInv'
<1> DEFINE d == drv[p]
<1>1. /\ d.pc = "calling" /\ UNCHANGED <<run, seen, kid, wf, hist, around>>
  BY DEF Return, Is
<1>2. d.pc \in Working \ {"dispatching"} /\ d.pc \in Calling
  BY <1>1 DEF Working, Calling
<1>3. CASE d.intr /\ Goto(p, "exit") /\ UNCHANGED row
  BY <1>1, <1>2, <1>3, DriverTurns DEF Goto, Move
<1>4. CASE d.cancel /\ Goto(p, "cancelrow") /\ UNCHANGED row
  BY <1>1, <1>2, <1>4, DriverTurns DEF Goto, Move
<1>5. ASSUME NEW v \in Value,
             row' = [row EXCEPT ![d.pos].st = "succeeded", ![d.pos].out = v],
             Move(p, [d EXCEPT !.pc = "emit", !.res = "succeeded"])
      PROVE  IInv'
  BY <1>1, <1>2, <1>5, DriverSucceeds DEF Move
<1>6. ASSUME NEW o, Move(p, IF o = "too_large" THEN Closing(d, "failed")
                            ELSE Failed(d, o = "retryable")), UNCHANGED row
      PROVE  IInv'
  <2>1. CASE drv' = [drv EXCEPT ![p] = Closing(d, "failed")]
    BY <1>1, <1>2, <1>6, <2>1, DriverFails
  <2>2. CASE drv' = [drv EXCEPT ![p] = At(d, "retry")]
    BY <1>1, <1>2, <1>6, <2>2, DriverTurns
  <2>3. CASE drv' = [drv EXCEPT ![p] = At(d, "failing")]
    BY <1>1, <1>2, <1>6, <2>3, DriverTurns
  <2> QED
    BY <1>6, <2>1, <2>2, <2>3 DEF Failed, Move
<1> QED
  BY <1>3, <1>4, <1>5, <1>6 DEF Return

\* The next attempt is marked on the row.
LEMMA RetryIInv ==
    ASSUME IInv, NEW p \in Proc, Retry(p)
    PROVE  IInv'
<1> DEFINE d == drv[p]  i == d.pos
           att == d.att + 1
           e == [d EXCEPT !.pc = "attempt", !.att = att]
           r == [row[i] EXCEPT !.st = "running", !.att = att]
<1>1. /\ d.pc = "retry" /\ UNCHANGED <<run, seen, kid, wf, hist, around>>
      /\ row' = [row EXCEPT ![i].st = "running", ![i].att = att] /\ drv' = [drv EXCEPT ![p] = e]
  BY DEF Retry, Is, Move
<1>2. /\ d \in Driver /\ row \in [Pos -> StepRow] /\ DriverOK(d, row, hist) /\ DOMAIN plan \subseteq Pos
  BY DriverFacts
<1>3. Steppable(i) /\ i \in Pos
  BY <1>1, <1>2 DEF DriverOK, Steppable, Working, Calling
<1>10. att \in Nat
  BY <1>2 DEF Driver
<1> HIDE DEF att
<1>4. row' = [row EXCEPT ![i] = r]
  BY <1>1, <1>2, <1>3
<1>5. r \in StepRow /\ r.st = "running" /\ r.inp = row[i].inp
  BY <1>2, <1>3, <1>10 DEF StepRow
<1>6. e \in Driver
  BY <1>2, <1>10 DEF Driver
<1>7. /\ e.pc = "attempt" /\ e.cancel = d.cancel /\ e.intr = d.intr /\ e.res = d.res /\ e.pos = i
      /\ e.child = d.child /\ e.epoch = d.epoch
  BY <1>2 DEF Driver
<1> HIDE DEF e, r
<1>8. ASSUME row'[i] = r PROVE DriverOK(e, row', hist)
  BY <1>1, <1>2, <1>3, <1>5, <1>7, <1>8 DEF DriverOK, Working, Calling, OnChild, Closes
<1>9. e.res = "canceled" => Canceled(p)
  BY <1>7 DEF Canceled
<1> QED
  BY <1>1, <1>3, <1>4, <1>5, <1>6, <1>7, <1>8, <1>9, DriverWrites

\* A leaf's failure is told ...
LEMMA EmitFailureIInv ==
    ASSUME IInv, NEW p \in Proc, EmitFailure(p)
    PROVE  IInv'
<1> DEFINE d == drv[p]  e == [d EXCEPT !.pc = "failed"]
<1>1. /\ d.pc = "failing" /\ UNCHANGED <<run, row, kid, wf, hist, around>>
      /\ seen' = [seen EXCEPT ![d.pos] = @ + 1] /\ drv' = [drv EXCEPT ![p] = e]
  BY DEF EmitFailure, Is, Goto, Move, At
<1>2. d \in Driver /\ seen \in [Pos -> Nat] /\ DriverOK(d, row, hist)
  BY DriverFacts
<1>3. e \in Driver
  BY <1>2 DEF Driver
<1>4. e.pc = "failed" /\ e.cancel = d.cancel /\ e.intr = d.intr /\ e.res = d.res /\ e.pos = d.pos
  BY <1>2 DEF Driver
<1> HIDE DEF e
<1>5. DriverOK(e, row, hist)
  BY <1>1, <1>2, <1>4 DEF DriverOK, Working, Calling, OnChild, Closes
<1>6. (e.res = "canceled" => Canceled(p)) /\ seen' \in [Pos -> Nat]
  BY <1>1, <1>2, <1>4, SeenMore DEF Canceled
<1> QED
  BY <1>1, <1>3, <1>4, <1>5, <1>6, DriverMoves

\* ... and recorded.
LEMMA RecordFailureIInv ==
    ASSUME IInv, NEW p \in Proc, RecordFailure(p)
    PROVE  IInv'
<1> DEFINE d == drv[p]  i == d.pos
           e == Failing(d, i)
           r == [row[i] EXCEPT !.st = "failed"]
<1>1. /\ d.pc = "failed" /\ UNCHANGED <<run, seen, kid, wf, hist, around>>
      /\ row' = [row EXCEPT ![i] = r] /\ drv' = [drv EXCEPT ![p] = e]
  BY DEF RecordFailure, Is, Move
<1>2. /\ TypeOK /\ d \in Driver /\ Steppable(i) /\ i \in Pos /\ row \in [Pos -> StepRow]
  BY <1>1, DriverFacts DEF DriverOK, Closes, Steppable
<1>3. CarriesOn(d, e)
  BY <1>2, FailingOK DEF Steppable
<1>4. r \in StepRow /\ r.st = "failed" /\ r.inp = row[i].inp
  BY <1>2 DEF StepRow, Terminal
<1> HIDE DEF e, r
<1>5. DriverOK(e, row', hist)
  BY <1>3, CarriedOK DEF CarriesOn
<1>6. e.pc = "cancelrow" \/ e.res = "canceled" => Canceled(p)
  BY <1>3 DEF CarriesOn, Canceled
<1>7. /\ e \in Driver /\ e.pc \notin {"none", "deliver", "post", "mark", "exit"}
      /\ e.cancel = d.cancel /\ e.intr = d.intr
  BY <1>3 DEF CarriesOn, Carries
<1> QED
  BY <1>1, <1>2, <1>4, <1>5, <1>6, <1>7, DriverWrites
-----------------------------------------------------------------------------
(* The run's own row. *)

\* A terminal status is sticky.
LEMMA MarkRunOK ==
    ASSUME run \in RunRow, run.st # "none", NEW st \in Active \cup Terminal
    PROVE  /\ markRun(st) \in RunRow /\ markRun(st).st # "none" /\ markRun(st).st \in {run.st, st}
           /\ run.st \in Terminal => markRun(st).st = run.st
           /\ st \in Terminal => markRun(st).st \in Terminal
<1>1. CASE run.st \in Active
  <2> DEFINE r == [run EXCEPT !.st = st]
  <2>1. markRun(st) = r
    BY <1>1 DEF markRun
  <2>2. r \in RunRow /\ r.st = st
    BY DEF RunRow
  <2> HIDE DEF r
  <2> QED
    BY <1>1, <2>1, <2>2 DEF Active, Terminal
<1>2. CASE run.st \notin Active
  <2>1. markRun(st) = run /\ run.st \in Terminal
    BY <1>2 DEF markRun, RunRow
  <2> QED
    BY <2>1
<1> QED
  BY <1>1, <1>2

\* The reply's marker leaves the status alone.
LEMMA MarkDeliveryOK ==
    ASSUME NEW r \in RunRow, NEW st \in {"delivered", "failed"}
    PROVE  markDelivery(r, st) \in RunRow /\ markDelivery(r, st).st = r.st
<1> DEFINE m == [r EXCEPT !.deliv = st]
<1>1. m \in RunRow /\ m.st = r.st
  BY DEF RunRow
<1> HIDE DEF m
<1>2. markDelivery(r, st) \in {m, r}
  BY DEF markDelivery, m
<1> QED
  BY <1>1, <1>2

\* A driver's step that touches the run's row only.
LEMMA DriverMarks ==
    ASSUME IInv, NEW p \in Proc, drv[p].pc \notin {"none", "dispatching"},
           NEW e \in Driver, drv' = [drv EXCEPT ![p] = e], e.pc # "none",
           e.cancel = drv[p].cancel, e.intr = drv[p].intr,
           UNCHANGED <<row, seen, kid, wf, hist, around>>,
           run' \in RunRow, run'.st # "none",
           run.st \in Terminal => run'.st \in Terminal,
           run'.st = "canceled" => run.st = "canceled" \/ Canceled(p),
           DriverOK(e, row, hist),
           e.pc \in {"deliver", "post", "mark", "exit"} =>
               faults # 0 \/ e.intr \/ run'.st \in Terminal,
           e.pc = "cancelrow" \/ e.res = "canceled" => Canceled(p)
    PROVE  IInv'
<1>1. TypeOK /\ run.st # "none" /\ (faults = 0 => Unfaulty)
  BY DEF IInv, Owner
<1>2. faults = 0 /\ Canceled(p) => e.cancel
  BY <1>1 DEF Canceled, Unfaulty, Undisturbed, CancelKnown
<1>3. faults = 0 => ~e.intr
  BY <1>1 DEF Unfaulty, Undisturbed
<1>4. /\ hist \in Past /\ wf \in Value /\ faults \in 0 .. MaxFaults /\ faults >= faults
      /\ row \in [Pos -> StepRow] /\ seen \in [Pos -> Nat]
  BY <1>1, RunAssumption DEF TypeOK
<1>5. /\ UNCHANGED <<plan, lock, kid, jobs, proc, owes, sweep, moves>>
      /\ faults' = faults /\ hist' = hist /\ row' = row /\ seen' = seen /\ wf' = wf
  BY DEF around
<1>6. \A i \in Pos : Ledgered(i)'
  <2>1. Kept /\ UNCHANGED <<plan, hist, kid>>
    BY <1>1, <1>5, RowsLeft
  <2> QED
    BY <2>1, KeptLedger
<1>7. e.intr = drv[p].intr \/ faults' # 0
  OBVIOUS
<1> QED
  BY <1>1, <1>2, <1>3, <1>4, <1>5, <1>6, <1>7, DriverStep

\* The driver takes the run up, or finds it ended.
LEMMA BootIInv ==
    ASSUME IInv, NEW p \in Proc, Boot(p)
    PROVE  IInv'
<1> DEFINE d == drv[p]
           c == IF run.st \in Active THEN "begin" ELSE "exit"
           e == [d EXCEPT !.pc = c]
<1>1. /\ d.pc = "boot" /\ UNCHANGED <<row, seen, kid, wf, hist, around>>
      /\ run' = markRun("running") /\ drv' = [drv EXCEPT ![p] = e]
  BY DEF Boot, Is, Goto, Move, At
<1>2. d \in Driver /\ run \in RunRow /\ run.st # "none"
  BY <1>1, DriverFacts
<1>3. c \in {"begin", "exit"} /\ (c = "exit" => run.st \in Terminal)
  BY <1>2 DEF RunRow
<1> HIDE DEF c
<1>4. e \in Driver
  BY <1>2, <1>3 DEF Driver
<1>5. e.pc = c /\ e.cancel = d.cancel /\ e.intr = d.intr /\ e.res = d.res
  BY <1>2 DEF Driver
<1> HIDE DEF e
<1>6. /\ run' \in RunRow /\ run'.st # "none" /\ (run.st \in Terminal => run'.st = run.st)
      /\ run'.st \in {run.st, "running"}
  <2>1. "running" \in Active
    BY DEF Active
  <2> QED
    BY <1>1, <1>2, <2>1, MarkRunOK
<1>7. DriverOK(e, row, hist)
  BY <1>3, <1>5 DEF DriverOK, Working, Calling, OnChild, Closes
<1>8. e.res = "canceled" => Canceled(p)
  BY <1>5 DEF Canceled
<1> QED
  BY <1>1, <1>3, <1>4, <1>5, <1>6, <1>7, <1>8, DriverMarks

\* The snapshot, and what an earlier driver left.
LEMMA BeginIInv ==
    ASSUME IInv, NEW p \in Proc, Begin(p)
    PROVE  IInv'
<1> DEFINE d == drv[p]
           exec == IF run.begun THEN Cardinality({i \in Pos : row[i].st \in Terminal}) ELSE 0
           prior == IF run.begun THEN {i \in Pos : row[i].st # "none"} ELSE {}
           shown == IF run.begun THEN Shown ELSE Pos
           b == Onward(d, 1)
           c == [b EXCEPT !.sc = wf, !.exec = exec]
           e == [c EXCEPT !.prior = prior, !.shown = shown]
           r == [run EXCEPT !.begun = TRUE]
<1>1. /\ d.pc = "begin" /\ UNCHANGED <<row, seen, kid, wf, hist, around>>
      /\ run' = r /\ drv' = [drv EXCEPT ![p] = e]
  BY DEF Begin, Is, Move
<1>2. /\ TypeOK /\ d \in Driver /\ run \in RunRow /\ run.st # "none" /\ wf \in Value
  BY <1>1, DriverFacts DEF TypeOK
<1>3. exec \in Nat
  <2>1. IsFiniteSet(Pos)
    BY RunAssumption, FS_Interval DEF Pos
  <2>2. IsFiniteSet({i \in Pos : row[i].st \in Terminal})
    BY <2>1, FS_Subset
  <2> QED
    BY <2>2, FS_CardinalityType
<1>4. prior \in SUBSET Pos /\ shown \in SUBSET Pos
  BY DEF Shown
<1> HIDE DEF exec, prior, shown
<1>5. CarriesOn(d, b) /\ b.pc = "step"
  BY <1>2, OnwardOK
<1>6. b \in Driver /\ b.cancel = d.cancel /\ b.intr = d.intr /\ b.res \in {d.res, "failed"}
  BY <1>5 DEF CarriesOn, Carries
<1> HIDE DEF b
<1>7. c \in Driver
  BY <1>2, <1>3, <1>6 DEF Driver
<1>8. c.pc = "step" /\ c.cancel = d.cancel /\ c.intr = d.intr /\ c.res = b.res
  BY <1>5, <1>6 DEF Driver
<1> HIDE DEF c
<1>9. e \in Driver
  BY <1>4, <1>7 DEF Driver
<1>10. e.pc = "step" /\ e.cancel = d.cancel /\ e.intr = d.intr /\ e.res = c.res
  BY <1>7, <1>8 DEF Driver
<1> HIDE DEF e
<1>11. DriverOK(e, row, hist)
  BY <1>10 DEF DriverOK, Working, Calling, OnChild, Closes
<1>12. e.res = "canceled" => Canceled(p)
  BY <1>6, <1>8, <1>10 DEF Canceled
<1>13. r \in RunRow /\ r.st = run.st
  BY <1>2 DEF RunRow
<1> HIDE DEF r
<1> QED
  BY <1>1, <1>2, <1>9, <1>10, <1>11, <1>12, <1>13, DriverMarks

\* The driver settles the run, or leaves it to its successor.
LEMMA SettleIInv ==
    ASSUME IInv, NEW p \in Proc, Settle(p)
    PROVE  IInv'
<1> DEFINE d == drv[p]
           c == IF d.intr THEN "exit" ELSE "deliver"
           e == [d EXCEPT !.pc = c]
<1>1. /\ d.pc = "settle" /\ UNCHANGED <<row, seen, kid, wf, hist, around>>
      /\ run' = (IF d.intr THEN run ELSE markRun(d.res)) /\ drv' = [drv EXCEPT ![p] = e]
  BY DEF Settle, Is, Goto, Move, At
<1>2. d \in Driver /\ run \in RunRow /\ run.st # "none" /\ d.res \in Terminal
  BY <1>1, DriverFacts DEF DriverOK
<1>3. c \in {"deliver", "exit"} /\ (c = "exit" => d.intr) /\ (c = "deliver" => ~d.intr)
  OBVIOUS
<1> HIDE DEF c
<1>4. e \in Driver
  BY <1>2, <1>3 DEF Driver
<1>5. e.pc = c /\ e.cancel = d.cancel /\ e.intr = d.intr /\ e.res = d.res
  BY <1>2 DEF Driver
<1> HIDE DEF e
<1>6. /\ run' \in RunRow /\ run'.st # "none" /\ (run.st \in Terminal => run'.st = run.st)
      /\ run'.st \in {run.st, d.res} /\ (~d.intr => run'.st \in Terminal)
  BY <1>1, <1>2, MarkRunOK
<1>7. DriverOK(e, row, hist)
  BY <1>3, <1>5 DEF DriverOK, Working, Calling, OnChild, Closes
<1>8. d.res = "canceled" => Canceled(p)
  BY DEF Canceled
<1> QED
  BY <1>1, <1>3, <1>4, <1>5, <1>6, <1>7, <1>8, DriverMarks

\* The three steps of the reply: none changes the run's status.
LEMMA DeliveryStep ==
    ASSUME IInv, NEW p \in Proc, drv[p].pc \in {"deliver", "post", "mark"},
           NEW c \in {"post", "mark", "exit"}, drv' = [drv EXCEPT ![p] = At(drv[p], c)],
           run' = run \/ run' = markDelivery(run, "failed") \/ run' = markDelivery(run, "delivered"),
           UNCHANGED <<row, seen, kid, wf, hist, around>>
    PROVE  IInv'
<1> DEFINE d == drv[p]  e == [d EXCEPT !.pc = c]
<1>1. /\ d \in Driver /\ run \in RunRow /\ run.st # "none"
  BY DriverFacts
<1>2. drv' = [drv EXCEPT ![p] = e]
  BY DEF At
<1>3. e \in Driver
  BY <1>1 DEF Driver
<1>4. e.pc = c /\ e.cancel = d.cancel /\ e.intr = d.intr /\ e.res = d.res
  BY <1>1 DEF Driver
<1> HIDE DEF e
<1>5. run' \in RunRow /\ run'.st = run.st
  BY <1>1, MarkDeliveryOK
<1>6. DriverOK(e, row, hist)
  BY <1>4 DEF DriverOK, Working, Calling, OnChild, Closes
<1>7. faults = 0 => run.st \in Terminal
  BY DEF IInv, Unfaulty, Undisturbed
<1>8. e.res = "canceled" => Canceled(p)
  BY <1>4 DEF Canceled
<1> QED
  BY <1>1, <1>2, <1>3, <1>4, <1>5, <1>6, <1>7, <1>8, DriverMarks

\* What is owed is posted, or the ledger settled.
LEMMA DeliverIInv ==
    ASSUME IInv, NEW p \in Proc, Deliver(p) \/ Post(p) \/ Mark(p)
    PROVE  IInv'
<1>1. CASE Deliver(p)
  BY <1>1, DeliveryStep DEF Deliver, Is, Goto, Move
<1>2. CASE Post(p)
  BY <1>2, DeliveryStep DEF Post, Is, Goto, Move
<1>3. CASE Mark(p)
  BY <1>3, DeliveryStep DEF Mark, Is, Goto, Move
<1> QED
  BY <1>1, <1>2, <1>3
-----------------------------------------------------------------------------
(* Calls, parking and errors. *)

\* A call with the row's input, made by the driver that owns the step.
LEMMA CallsMore ==
    ASSUME IInv, NEW i \in Pos, row[i].st # "none", NEW ep \in Nat, NEW att \in Nat,
           hist' = [hist EXCEPT !.calls[i] = @ \cup {<<ep, att, row[i].inp>>}],
           i \in DOMAIN plan /\ plan[i].kind = "once" => \A c \in hist.calls[i] : c[1] = ep,
           UNCHANGED <<plan, row, kid>>
    PROVE  /\ hist' \in Past /\ hist'.sent = hist.sent
           /\ \A c \in hist'.calls[i] : c \in hist.calls[i] \/ c[1] = ep
           /\ \A k \in Pos : Ledgered(k)'
<1>1. hist \in Past /\ row[i].inp \in Value /\ \A k \in Pos : Ledgered(k)
  BY DEF IInv, TypeOK, StepRow
<1> DEFINE new == <<ep, att, row[i].inp>>
           calls == [hist.calls EXCEPT ![i] = hist.calls[i] \cup {new}]
<1>2. hist' = [hist EXCEPT !.calls = calls]
  BY <1>1 DEF Past
<1>3. new \in Nat \X Nat \X Value /\ new[1] = ep /\ new[3] = row[i].inp
  BY <1>1
<1> HIDE DEF new
<1>4. /\ calls \in [Pos -> SUBSET (Nat \X Nat \X Value)]
      /\ calls[i] = hist.calls[i] \cup {new} /\ \A k \in Pos : k # i => calls[k] = hist.calls[k]
  BY <1>1, <1>3 DEF Past
<1> HIDE DEF calls
<1>5. hist' \in Past /\ hist'.sent = hist.sent /\ hist'.calls = calls
  BY <1>1, <1>2, <1>4 DEF Past
<1>6. ASSUME NEW k \in Pos PROVE Ledgered(k)'
  <2>1. CASE k = i
    BY <1>1, <1>3, <1>4, <1>5, <2>1 DEF Ledgered
  <2>2. CASE k # i
    BY <1>1, <1>4, <1>5, <2>2 DEF Ledgered
  <2> QED
    BY <2>1, <2>2
<1> QED
  BY <1>3, <1>4, <1>5, <1>6

\* A driver that makes a call of its step.
LEMMA DriverCalls ==
    ASSUME IInv, NEW p \in Proc, drv[p].pc \in {"eval", "attempt"}, NEW att \in Nat,
           NEW e \in Driver, drv' = [drv EXCEPT ![p] = e], e.pc \in {"fin", "calling"},
           e.cancel = drv[p].cancel, e.intr = drv[p].intr, e.pos = drv[p].pos,
           e.epoch = drv[p].epoch, e.res \in {drv[p].res, "succeeded"},
           e.pc = "fin" => e.res = "succeeded", e.pc = "calling" => drv[p].pc = "attempt",
           e.child = drv[p].child,
           drv[p].pc = "eval" => plan[drv[p].pos].kind # "once",
           hist' = [hist EXCEPT !.calls[drv[p].pos] = @ \cup {<<drv[p].epoch, att, row[drv[p].pos].inp>>}],
           UNCHANGED <<run, row, seen, kid, around>>, wf' \in Value
    PROVE  IInv'
<1> DEFINE d == drv[p]  i == d.pos
<1>1. /\ TypeOK /\ d \in Driver /\ DriverOK(d, row, hist) /\ DOMAIN plan \subseteq Pos
      /\ row \in [Pos -> StepRow] /\ seen \in [Pos -> Nat] /\ run \in RunRow /\ hist \in Past /\ run.st # "none"
  BY DriverFacts
<1>2. Steppable(i) /\ i \in Pos /\ row[i].st # "none" /\ d.epoch \in Nat
  BY <1>1 DEF DriverOK, Steppable, Working, Calling, Driver
<1>3. plan[i].kind = "once" => \A c \in hist.calls[i] : c[1] = d.epoch
  BY <1>1 DEF DriverOK, Calling
<1>4. /\ UNCHANGED <<plan, lock, kid, jobs, proc, owes, sweep, moves>>
      /\ faults' = faults /\ run' = run /\ row' = row /\ seen' = seen /\ kid' = kid /\ plan' = plan
  BY DEF around
<1>5. /\ hist' \in Past /\ hist'.sent = hist.sent
      /\ \A c \in hist'.calls[i] : c \in hist.calls[i] \/ c[1] = d.epoch
      /\ \A k \in Pos : Ledgered(k)'
  <2>1. UNCHANGED <<plan, row, kid>>
    BY <1>4
  <2> QED
    BY <1>2, <1>3, <2>1, CallsMore
<1>6. DriverOK(e, row', hist')
  BY <1>1, <1>2, <1>3, <1>4, <1>5 DEF DriverOK, Working, Calling, OnChild, Closes, Terminal
<1>7. faults = 0 => Unfaulty
  BY DEF IInv
<1>8. faults = 0 /\ Canceled(p) => e.cancel
  BY <1>7 DEF Canceled, Unfaulty, Undisturbed, CancelKnown
<1>9. e.pc = "cancelrow" \/ e.res = "canceled" => e.cancel \/ faults' # 0
  BY <1>4, <1>8 DEF Canceled
<1>10. faults \in 0 .. MaxFaults /\ faults >= faults
  BY <1>1, RunAssumption DEF TypeOK
<1> QED
  BY <1>1, <1>4, <1>5, <1>6, <1>9, <1>10, DriverStep

\* A state step writes the row's input, or is refused.
LEMMA StateWriteIInv ==
    ASSUME IInv, NEW p \in Proc, StateWrite(p)
    PROVE  IInv'
<1> DEFINE d == drv[p]  i == d.pos
<1>1. d.pc = "eval" /\ plan[i].kind = "state" /\ UNCHANGED <<run, row, seen, kid, around>>
  BY DEF StateWrite, Is
<1>2. /\ d \in Driver /\ DriverOK(d, row, hist) /\ row \in [Pos -> StepRow] /\ DOMAIN plan \subseteq Pos
  BY DriverFacts
<1>3. row[i].inp \in Value
  BY <1>1, <1>2 DEF DriverOK, Steppable, Working, StepRow
<1>4. CASE /\ SetState(row[i].inp)
           /\ hist' = [hist EXCEPT !.calls[i] = @ \cup {<<d.epoch, d.att, row[i].inp>>}]
           /\ Move(p, [Closing(d, "succeeded") EXCEPT !.sc = row[i].inp])
  <2> DEFINE b == [d EXCEPT !.pc = "fin", !.res = "succeeded"]
             e == [b EXCEPT !.sc = row[i].inp]
  <2>1. drv' = [drv EXCEPT ![p] = e] /\ wf' \in Value
    BY <1>3, <1>4 DEF Move, Closing, SetState
  <2>2. b \in Driver
    BY <1>2 DEF Driver, Terminal
  <2>3. /\ b.pc = "fin" /\ b.cancel = d.cancel /\ b.intr = d.intr /\ b.res = "succeeded" /\ b.pos = i
        /\ b.child = d.child /\ b.epoch = d.epoch
    BY <1>2 DEF Driver
  <2> HIDE DEF b
  <2>4. e \in Driver
    BY <1>3, <2>2 DEF Driver
  <2>5. /\ e.pc = "fin" /\ e.cancel = d.cancel /\ e.intr = d.intr /\ e.res = "succeeded" /\ e.pos = i
        /\ e.child = d.child /\ e.epoch = d.epoch
    BY <2>2, <2>3 DEF Driver
  <2> HIDE DEF e
  <2>6. d.att \in Nat
    BY <1>2 DEF Driver
  <2> QED
    BY <1>1, <1>4, <2>1, <2>4, <2>5, <2>6, DriverCalls
<1>5. CASE Move(p, Closing(d, "failed")) /\ UNCHANGED <<wf, hist>>
  BY <1>1, <1>5, DriverFails DEF Move, Working
<1> QED
  BY <1>4, <1>5 DEF StateWrite

\* The step and the run of p's driver are marked st.
Parks(p, st, c) ==
    /\ drv[p].pc \in {"park", "parked"}
    /\ row' = [row EXCEPT ![drv[p].pos].st = st] /\ run' = markRun(st)
    /\ Goto(p, c)
    /\ UNCHANGED <<seen, kid, wf, hist, around>>

\* The step and the run wait with the child, or go on with it.
LEMMA ParkStep ==
    ASSUME IInv, NEW p \in Proc, NEW st \in {"waiting", "running"},
           NEW c \in {"parked", "attempt"}, Parks(p, st, c)
    PROVE  IInv'
<1> DEFINE d == drv[p]  i == d.pos
           e == [d EXCEPT !.pc = c]
           r == [row[i] EXCEPT !.st = st]
<1>0. d.pc \in {"park", "parked"} /\ run' = markRun(st)
  BY DEF Parks
<1>1. /\ TypeOK /\ d \in Driver /\ DriverOK(d, row, hist) /\ DOMAIN plan \subseteq Pos
      /\ row \in [Pos -> StepRow] /\ seen \in [Pos -> Nat] /\ run \in RunRow /\ hist \in Past
      /\ run.st # "none" /\ wf \in Value
  BY <1>0, DriverFacts DEF TypeOK
<1>2. Steppable(i) /\ i \in Pos /\ row[i].st # "none" /\ plan[i].kind = "agent" /\ d.child = "linked"
  BY <1>0, <1>1 DEF DriverOK, Steppable, Working, OnChild
<1>3. drv' = [drv EXCEPT ![p] = e] /\ row' = [row EXCEPT ![i] = r]
  BY <1>1, <1>2 DEF Parks, Goto, Move, At
<1>4. r \in StepRow /\ r.st = st /\ r.inp = row[i].inp /\ r.st \notin {"none", "canceled"}
  BY <1>1, <1>2 DEF StepRow
<1>5. e \in Driver
  BY <1>1 DEF Driver
<1>6. /\ e.pc = c /\ e.cancel = d.cancel /\ e.intr = d.intr /\ e.res = d.res /\ e.pos = i /\ e.child = d.child
  BY <1>1 DEF Driver
<1> HIDE DEF e, r
<1>7. /\ row' \in [Pos -> StepRow] /\ row'[i] = r /\ Kept
      /\ \A k \in Pos : row'[k].st = "canceled" => row[k].st = "canceled"
  BY <1>1, <1>2, <1>3, <1>4, RowWritten
<1>8. DriverOK(e, row', hist)
  BY <1>2, <1>4, <1>6, <1>7 DEF DriverOK, Working, Calling, OnChild, Closes
<1>9. /\ UNCHANGED <<plan, lock, kid, jobs, proc, owes, sweep, moves>> /\ UNCHANGED <<plan, hist, kid>>
      /\ faults' = faults /\ hist' = hist /\ seen' = seen /\ wf' = wf
  BY DEF Parks, around
<1>10. \A k \in Pos : Ledgered(k)'
  BY <1>7, <1>9, KeptLedger
<1>11. /\ run' \in RunRow /\ run'.st # "none" /\ (run.st \in Terminal => run'.st = run.st)
       /\ run'.st \in {run.st, st}
  <2>1. st \in Active
    BY DEF Active
  <2> QED
    BY <1>0, <1>1, <2>1, MarkRunOK
<1>12. faults = 0 => Unfaulty
  BY DEF IInv
<1>13. faults = 0 /\ Canceled(p) => e.cancel
  BY <1>0, <1>6, <1>12 DEF Canceled, Unfaulty, Undisturbed, CancelKnown
<1>14. e.pc = "cancelrow" \/ e.res = "canceled" => e.cancel \/ faults' # 0
  BY <1>6, <1>9, <1>13 DEF Canceled
<1>15. faults \in 0 .. MaxFaults /\ faults >= faults /\ (\A k \in Pos : row[k].st # "none" => row'[k].st # "none")
  BY <1>1, <1>7, RunAssumption DEF TypeOK, Kept
<1>16. /\ d.pc \notin {"none", "dispatching"} /\ e.pc \notin {"none", "deliver", "post", "mark", "exit"}
       /\ (e.intr = d.intr \/ faults' # 0) /\ e.cancel = d.cancel
       /\ run'.st = "canceled" => run.st = "canceled" \/ e.cancel \/ faults' # 0
       /\ run.st \in Terminal => run'.st \in Terminal
       /\ \A k \in Pos : row'[k].st = "canceled" => row[k].st = "canceled" \/ e.cancel \/ faults' # 0
       /\ hist'.sent = hist.sent /\ wf' \in Value /\ seen' \in [Pos -> Nat] /\ hist' \in Past
       /\ faults' \in 0 .. MaxFaults /\ faults' >= faults
  BY <1>0, <1>1, <1>6, <1>7, <1>9, <1>11, <1>15
<1> QED
  BY <1>3, <1>5, <1>7, <1>8, <1>9, <1>10, <1>11, <1>14, <1>15, <1>16, DriverStep

\* Parking on a waiting child.
LEMMA ParkIInv ==
    ASSUME IInv, NEW p \in Proc, Park(p)
    PROVE  IInv'
BY ParkStep DEF Park, Parks, Is

\* The child moved, or the driver has to leave.
LEMMA UnparkIInv ==
    ASSUME IInv, NEW p \in Proc, Unpark(p)
    PROVE  IInv'
<1> DEFINE d == drv[p]
           c == IF d.intr THEN "exit" ELSE "cancelrow"
           e == [d EXCEPT !.pc = c]
<1>1. d.pc = "parked" /\ run' = markRun("running") /\ UNCHANGED <<seen, kid, wf, hist, around>>
  BY DEF Unpark, Is
<1>2. CASE ~(d.intr \/ d.cancel)
  BY <1>1, <1>2, ParkStep DEF Unpark, Parks
<1>3. CASE d.intr \/ d.cancel
  <2>1. drv' = [drv EXCEPT ![p] = e] /\ row' = row
    BY <1>3 DEF Unpark, Goto, Move, At
  <2>2. d \in Driver /\ run \in RunRow /\ run.st # "none" /\ DriverOK(d, row, hist)
    BY <1>1, DriverFacts
  <2>3. c \in {"exit", "cancelrow"} /\ (c = "exit" => d.intr) /\ (c = "cancelrow" => d.cancel)
    BY <1>3
  <2> HIDE DEF c
  <2>4. e \in Driver
    BY <2>2, <2>3 DEF Driver
  <2>5. e.pc = c /\ e.cancel = d.cancel /\ e.intr = d.intr /\ e.res = d.res /\ e.pos = d.pos
    BY <2>2 DEF Driver
  <2> HIDE DEF e
  <2>6. /\ run' \in RunRow /\ run'.st # "none" /\ (run.st \in Terminal => run'.st = run.st)
        /\ run'.st \in {run.st, "running"}
    <3>1. "running" \in Active
      BY DEF Active
    <3> QED
      BY <1>1, <2>2, <3>1, MarkRunOK
  <2>7. DriverOK(e, row, hist)
    BY <1>1, <2>2, <2>3, <2>5 DEF DriverOK, Working, Calling, OnChild, Closes
  <2>8. e.pc = "cancelrow" \/ e.res = "canceled" => Canceled(p)
    BY <2>3, <2>5 DEF Canceled
  <2>9. UNCHANGED <<row, seen, kid, wf, hist, around>>
    BY <1>1, <2>1
  <2> QED
    BY <1>1, <2>1, <2>3, <2>4, <2>5, <2>6, <2>7, <2>8, <2>9, DriverMarks
<1> QED
  BY <1>2, <1>3

\* A store that throws ends the run, or is left to a successor.
LEMMA DriverErrorIInv ==
    ASSUME IInv, NEW p \in Proc, DriverError(p)
    PROVE  IInv'
<1> DEFINE d == drv[p]
<1>0. PICK leaves \in BOOLEAN : IF leaves THEN Goto(p, "exit") ELSE Move(p, Settling(d, "failed"))
  BY DEF DriverError
<1> DEFINE c == IF leaves THEN "exit" ELSE "settle"
           res == IF leaves THEN d.res ELSE "failed"
           e == [d EXCEPT !.pc = c, !.res = res]
<1>1. /\ d.pc \in Throws /\ d.pc \notin {"none", "dispatching"}
      /\ faults < MaxFaults /\ faults' = faults + 1
      /\ UNCHANGED <<tables, lock, jobs, proc, owes, sweep, hist, moves>>
  BY DEF DriverError, Throws
<1>2. /\ TypeOK /\ d \in Driver /\ run \in RunRow /\ run.st # "none"
  BY <1>1, DriverFacts
<1>3. drv' = [drv EXCEPT ![p] = e]
  <2>1. CASE leaves
    <3>1. [d EXCEPT !.pc = "exit"] = [d EXCEPT !.pc = "exit", !.res = d.res]
      BY <1>2 DEF Driver
    <3> QED
      BY <1>0, <2>1, <3>1 DEF Goto, Move, At
  <2>2. CASE ~leaves
    BY <1>0, <2>2 DEF Move, Settling
  <2> QED
    BY <2>1, <2>2
<1>4. c \in {"exit", "settle"} /\ (c = "settle" => res = "failed") /\ res \in Terminal \cup {"ok", "skipped"}
  BY <1>2 DEF Driver, Terminal
<1> HIDE DEF c, res
<1>5. e \in Driver
  BY <1>2, <1>4 DEF Driver
<1>6. e.pc = c /\ e.cancel = d.cancel /\ e.intr = d.intr /\ e.res = res
  BY <1>2 DEF Driver
<1> HIDE DEF e
<1>7. /\ UNCHANGED <<plan, lock, kid, jobs, proc, owes, sweep, moves>> /\ UNCHANGED <<plan, hist, kid>>
      /\ hist' = hist /\ run' = run /\ row' = row /\ seen' = seen /\ wf' = wf
  BY <1>1 DEF tables
<1>8. DriverOK(e, row', hist')
  BY <1>4, <1>6, <1>7 DEF DriverOK, Working, Calling, OnChild, Closes, Terminal
<1>9. /\ row' \in [Pos -> StepRow] /\ Kept /\ wf' \in Value /\ seen' \in [Pos -> Nat] /\ hist' \in Past
  BY <1>2, <1>7, RowsLeft DEF TypeOK
<1>10. \A i \in Pos : Ledgered(i)'
  BY <1>7, <1>9, KeptLedger
<1>11. faults' # 0 /\ faults' \in 0 .. MaxFaults /\ faults' >= faults
  <2>1. faults \in Nat /\ MaxFaults \in Nat
    BY <1>2, RunAssumption DEF TypeOK
  <2> QED
    BY <1>1, <2>1
<1>12. \A i \in Pos : row[i].st # "none" => row'[i].st # "none"
  BY <1>7
<1> QED
  BY <1>1, <1>2, <1>3, <1>5, <1>6, <1>4, <1>7, <1>8, <1>9, <1>10, <1>11, <1>12, DriverStep
-----------------------------------------------------------------------------
(* The dispatch of an agent step. *)

\* While one process has a driver, no other has.
LEMMA OnlyDriver ==
    ASSUME IInv, NEW p \in Proc, drv[p].pc # "none"
    PROVE  \A q \in Proc : q # p => drv[q].pc = "none" /\ ~drv[q].cancel
<1>1. \A q \in Proc : q # p => drv[q].pc = "none"
  BY DEF IInv, Owner
<1> QED
  BY <1>1 DEF IInv, DriverOK

\* A step of a dispatch, or of the driver on p that begins or leaves one.
LEMMA DispatchStep ==
    ASSUME IInv, UNCHANGED <<plan, run, row, seen, wf, lock, proc, owes, sweep, faults, moves>>,
           NEW p \in Proc, NEW e \in Driver, drv' = [drv EXCEPT ![p] = e],
           e.pc = "none" <=> drv[p].pc = "none",
           e.cancel = drv[p].cancel, e.intr = drv[p].intr, e.res = drv[p].res,
           e.pc \in {"deliver", "post", "mark", "exit", "cancelrow"} =>
               e.pc = drv[p].pc \/ faults # 0 \/ (e.pc = "cancelrow" /\ e.cancel),
           DriverOK(e, row, hist'), hist' = hist \/ drv[p].pc # "none",
           kid' \in [Pos -> ChildRow], hist' \in Past, jobs' \subseteq Job,
           \A i \in Pos : Ledgered(i)', JobsOK',
           faults = 0 /\ sweep = {} /\ Stopped =>
               \A i \in Pos : kid'[i].st \in Active =>
                   \E j \in jobs' : j.pos = i /\ j.pc \in {"send", "fence"}
    PROVE  IInv'
<1>1. TypeOK'
  BY DEF IInv, TypeOK
<1>2. drv'[p] = e /\ \A q \in Proc : q # p => drv'[q] = drv[q]
  BY DEF IInv, TypeOK
<1>3. Owner'
  BY <1>2 DEF IInv, Owner
<1>4. \A q \in Proc : DriverOK(drv[q], row, hist)'
  <2>1. \A q \in Proc : DriverOK(drv'[q], row', hist')
    <3>1. CASE hist' = hist
      BY <1>2, <3>1 DEF IInv
    <3>2. CASE drv[p].pc # "none"
      BY <1>2, <3>2, OnlyDriver, IdleDriver
    <3> QED
      BY <3>1, <3>2
  <2> QED
    BY <2>1, SamePlan
<1>5. ASSUME faults' = 0 PROVE Unfaulty'
  <2>1. faults = 0 /\ Unfaulty
    BY <1>5 DEF IInv
  <2>2. \A q \in Proc : Undisturbed(q)'
    <3> SUFFICES ASSUME NEW q \in Proc PROVE Undisturbed(q)'
      OBVIOUS
    <3>1. CASE q = p
      BY <1>2, <2>1, <3>1 DEF Unfaulty, Undisturbed
    <3>2. CASE q # p
      BY <1>2, <2>1, <3>2 DEF Unfaulty, Undisturbed
    <3> QED
      BY <3>1, <3>2
  <2>3. CancelKnown'
    BY <1>2, <2>1 DEF Unfaulty, CancelKnown
  <2>4. Stopped' => Stopped
    BY <1>2 DEF Stopped
  <2>5. Caught'
    BY <2>1, <2>4 DEF Caught
  <2> QED
    BY <2>2, <2>3, <2>5 DEF Unfaulty
<1> QED
  BY <1>1, <1>3, <1>4, <1>5 DEF IInv

\* A driver that starts a dispatch: no other is still answered.
LEMMA DispatchBegins ==
    ASSUME IInv, NEW p \in Proc, drv[p].pc \in {"attempt", "watch"}, ~drv[p].cancel,
           plan[drv[p].pos].kind = "agent", hist.sent[drv[p].pos] = 0,
           NEW e \in Driver, drv' = [drv EXCEPT ![p] = e], e.pc = "dispatching",
           e.cancel = drv[p].cancel, e.intr = drv[p].intr, e.res = drv[p].res, e.pos = drv[p].pos,
           jobs' = jobs \cup {[proc |-> p, pos |-> drv[p].pos, pc |-> "link", ab |-> FALSE]},
           UNCHANGED <<plan, run, row, seen, kid, wf, lock, proc, owes, sweep, hist, faults, moves>>
    PROVE  IInv'
<1> DEFINE d == drv[p]  i == d.pos
           n == [proc |-> p, pos |-> i, pc |-> "link", ab |-> FALSE]
<1>1. /\ TypeOK /\ DriverOK(d, row, hist) /\ DOMAIN plan \subseteq Pos /\ hist \in Past
      /\ jobs \subseteq Job /\ kid \in [Pos -> ChildRow] /\ JobsOK
  BY DriverFacts DEF IInv, TypeOK
<1>2. Steppable(i) /\ i \in Pos /\ row[i].st # "none"
  BY <1>1 DEF DriverOK, Steppable, Working, OnChild, Calling
<1>3. n \in Job /\ n.proc = p /\ n.pos = i /\ n.pc = "link" /\ jobs' = jobs \cup {n}
  BY <1>2 DEF Job
<1> HIDE DEF n
<1>4. DriverOK(e, row, hist)
  BY <1>1, <1>2 DEF DriverOK, Working, Calling, OnChild, Closes
<1>5. \A j \in jobs : j.ab
  BY <1>1, OnlyDriver DEF JobsOK, Job
<1>6. drv'[p] = e
  BY <1>1 DEF TypeOK
<1>7. JobsOK'
  BY <1>1, <1>2, <1>3, <1>5, <1>6 DEF JobsOK
<1>8. \A k \in Pos : Ledgered(k)'
  BY DEF IInv, Ledgered
<1>9. faults = 0 /\ sweep = {} /\ Stopped =>
          \A k \in Pos : kid'[k].st \in Active =>
              \E j \in jobs' : j.pos = k /\ j.pc \in {"send", "fence"}
  BY <1>3 DEF IInv, Unfaulty, Caught
<1>10. hist' = hist /\ kid' = kid /\ jobs' \subseteq Job
       /\ UNCHANGED <<plan, run, row, seen, wf, lock, proc, owes, sweep, faults, moves>>
  BY <1>1, <1>3
<1> QED
  BY <1>1, <1>4, <1>7, <1>8, <1>9, <1>10, DispatchStep

\* What UNCHANGED around is made of.
LEMMA AroundLeft ==
    ASSUME UNCHANGED <<plan, lock, jobs, proc, owes, sweep, faults, moves>>
    PROVE  UNCHANGED around
BY DEF around

\* An attempt: the driver leaves, gives up, calls, watches or dispatches.
LEMMA AttemptIInv ==
    ASSUME IInv, NEW p \in Proc, Attempt(p)
    PROVE  IInv'
<1> DEFINE d == drv[p]  i == d.pos
<1>1. d.pc = "attempt" /\ UNCHANGED <<plan, run, row, seen, kid, wf, lock, proc, owes, sweep, faults, moves>>
  BY DEF Attempt, Is
<1>2. /\ d \in Driver /\ DriverOK(d, row, hist) /\ wf \in Value
      /\ d.pc \in Working \ {"dispatching"} /\ d.att \in Nat
  BY <1>1, DriverFacts DEF Working, Calling, Driver, TypeOK
<1>3. jobs' = jobs => UNCHANGED around
  BY <1>1, AroundLeft
<1>4. CASE d.intr /\ Goto(p, "exit") /\ UNCHANGED <<hist, jobs>>
  BY <1>1, <1>2, <1>3, <1>4, DriverTurns DEF Goto, Move
<1>5. CASE d.cancel /\ Goto(p, "cancelrow") /\ UNCHANGED <<hist, jobs>>
  BY <1>1, <1>2, <1>3, <1>5, DriverTurns DEF Goto, Move
<1>6. CASE Move(p, Closing(d, "failed")) /\ UNCHANGED <<hist, jobs>>
  BY <1>1, <1>2, <1>3, <1>6, DriverFails DEF Move
<1>7. CASE /\ Goto(p, "calling") /\ UNCHANGED jobs
           /\ hist' = [hist EXCEPT !.calls[i] = @ \cup {<<d.epoch, d.att, row[i].inp>>}]
  <2> DEFINE e == [d EXCEPT !.pc = "calling"]
  <2>1. drv' = [drv EXCEPT ![p] = e]
    BY <1>7 DEF Goto, Move, At
  <2>2. e \in Driver
    BY <1>2 DEF Driver
  <2>3. /\ e.pc = "calling" /\ e.cancel = d.cancel /\ e.intr = d.intr /\ e.res = d.res /\ e.pos = i
        /\ e.child = d.child /\ e.epoch = d.epoch
    BY <1>2 DEF Driver
  <2> HIDE DEF e
  <2>4. wf' \in Value /\ UNCHANGED <<run, row, seen, kid, around>>
    BY <1>1, <1>2, <1>3, <1>7
  <2> QED
    BY <1>1, <1>2, <1>7, <2>1, <2>2, <2>3, <2>4, DriverCalls
<1>8. CASE plan[i].kind = "agent" /\ d.child = "linked" /\ Goto(p, "watch") /\ UNCHANGED <<hist, jobs>>
  BY <1>1, <1>2, <1>3, <1>8, DriverTurns DEF Goto, Move
<1>9. CASE /\ plan[i].kind = "agent" /\ d.child # "linked" /\ ~d.cancel
           /\ Goto(p, "dispatching") /\ UNCHANGED hist
           /\ jobs' = jobs \cup {[proc |-> p, pos |-> i, pc |-> "link", ab |-> FALSE]}
  <2> DEFINE e == [d EXCEPT !.pc = "dispatching"]
  <2>1. drv' = [drv EXCEPT ![p] = e]
    BY <1>9 DEF Goto, Move, At
  <2>2. e \in Driver
    BY <1>2 DEF Driver
  <2>3. e.pc = "dispatching" /\ e.cancel = d.cancel /\ e.intr = d.intr /\ e.res = d.res /\ e.pos = i
    BY <1>2 DEF Driver
  <2> HIDE DEF e
  <2>4. hist.sent[i] = 0
    BY <1>1, <1>2, <1>9 DEF DriverOK, Calling
  <2>5. UNCHANGED <<plan, run, row, seen, kid, wf, lock, proc, owes, sweep, hist, faults, moves>>
    BY <1>1, <1>9
  <2> QED
    BY <1>1, <1>9, <2>1, <2>2, <2>3, <2>4, <2>5, DispatchBegins
<1> QED
  BY <1>4, <1>5, <1>6, <1>7, <1>8, <1>9 DEF Attempt

\* What the linked child decides.
LEMMA WatchIInv ==
    ASSUME IInv, NEW p \in Proc, Watch(p)
    PROVE  IInv'
<1> DEFINE d == drv[p]  i == d.pos  k == kid[i]
<1>1. d.pc = "watch" /\ UNCHANGED <<plan, run, seen, kid, wf, lock, proc, owes, sweep, hist, faults, moves>>
  BY DEF Watch, Is
<1>2. /\ d \in Driver /\ DriverOK(d, row, hist) /\ DOMAIN plan \subseteq Pos
      /\ d.pc \in Working \ {"dispatching"} /\ hist \in Past
  BY <1>1, DriverFacts DEF Working, OnChild
<1>3. plan[i].kind = "agent" /\ d.child = "linked" /\ i \in Pos /\ Ledgered(i)
  BY <1>1, <1>2 DEF DriverOK, Steppable, Working, OnChild, IInv
<1>4. jobs' = jobs => UNCHANGED around
  BY <1>1, AroundLeft
<1>5. ASSUME NEW v \in Value, row' = [row EXCEPT ![i].st = "succeeded", ![i].out = v],
             Move(p, [d EXCEPT !.pc = "emit", !.res = "succeeded"]), UNCHANGED jobs
      PROVE  IInv'
  <2>1. UNCHANGED <<run, seen, kid, wf, hist, around>>
    BY <1>1, <1>4, <1>5
  <2> QED
    BY <1>2, <1>5, <2>1, DriverSucceeds DEF Move
<1>6. CASE Move(p, Failed(d, FALSE)) /\ UNCHANGED <<row, jobs>>
  <2>1. drv' = [drv EXCEPT ![p] = At(d, "failing")]
    BY <1>6 DEF Move, Failed
  <2> QED
    BY <1>1, <1>2, <1>4, <1>6, <2>1, DriverTurns
<1>7. CASE Goto(p, "park") /\ UNCHANGED <<row, jobs>>
  BY <1>1, <1>2, <1>3, <1>4, <1>7, DriverTurns DEF Goto, Move
<1>8. CASE /\ Stillborn(k) /\ ~d.cancel /\ UNCHANGED row
           /\ Move(p, [d EXCEPT !.pc = "dispatching", !.child = "stillborn"])
           /\ jobs' = jobs \cup {[proc |-> p, pos |-> i, pc |-> "link", ab |-> FALSE]}
  <2> DEFINE e == [d EXCEPT !.pc = "dispatching", !.child = "stillborn"]
  <2>1. drv' = [drv EXCEPT ![p] = e]
    BY <1>8 DEF Move
  <2>2. e \in Driver
    BY <1>2 DEF Driver
  <2>3. e.pc = "dispatching" /\ e.cancel = d.cancel /\ e.intr = d.intr /\ e.res = d.res /\ e.pos = i
    BY <1>2 DEF Driver
  <2> HIDE DEF e
  <2>4. hist.sent[i] = 0
    BY <1>3, <1>8 DEF Ledgered, Stillborn
  <2>5. UNCHANGED <<plan, run, row, seen, kid, wf, lock, proc, owes, sweep, hist, faults, moves>>
    BY <1>1, <1>8
  <2> QED
    BY <1>1, <1>3, <1>8, <2>1, <2>2, <2>3, <2>4, <2>5, DispatchBegins
<1> QED
  BY <1>5, <1>6, <1>7, <1>8 DEF Watch
\* Aborting the dispatches of process p, if b, leaves the others as they are.
LEMMA AbortedJobs ==
    ASSUME TypeOK, NEW p \in Proc, NEW b \in BOOLEAN,
           jobs' = {[j EXCEPT !.ab = @ \/ (j.proc = p /\ b)] : j \in jobs}
    PROVE  /\ jobs' \subseteq Job
           /\ \A k \in jobs' : \E j \in jobs : k.pos = j.pos
           /\ \A j \in jobs : \E k \in jobs' : k.pos = j.pos /\ k.pc = j.pc
           /\ \A k \in jobs' : ~k.ab => k \in jobs /\ (b => k.proc # p)
<1> DEFINE A(j) == [j EXCEPT !.ab = j.ab \/ (j.proc = p /\ b)]
<1>1. ASSUME NEW j \in jobs
      PROVE  /\ A(j) \in Job /\ A(j).pos = j.pos /\ A(j).pc = j.pc /\ A(j).proc = j.proc
             /\ A(j).ab <=> j.ab \/ (j.proc = p /\ b)
             /\ ~A(j).ab => A(j) = j
  <2>1. j \in Job
    BY DEF TypeOK
  <2>2. CASE j.ab \/ (j.proc = p /\ b)
    <3>1. A(j) = [j EXCEPT !.ab = TRUE]
      BY <2>1, <2>2
    <3> QED
      BY <2>1, <2>2, <3>1 DEF Job
  <2>3. CASE ~(j.ab \/ (j.proc = p /\ b))
    <3>1. A(j) = [j EXCEPT !.ab = FALSE] /\ j.ab = FALSE
      BY <2>1, <2>3 DEF Job
    <3> QED
      BY <2>1, <2>3, <3>1 DEF Job
  <2> QED
    BY <2>2, <2>3
<1>2. jobs' = {A(j) : j \in jobs}
  OBVIOUS
<1> HIDE DEF A
<1> QED
  BY <1>1, <1>2

\* The same, for all dispatches of p.
LEMMA AllAborted ==
    ASSUME TypeOK, NEW p \in Proc,
           jobs' = {[j EXCEPT !.ab = @ \/ j.proc = p] : j \in jobs}
    PROVE  /\ jobs' \subseteq Job
           /\ \A k \in jobs' : \E j \in jobs : k.pos = j.pos
           /\ \A j \in jobs : \E k \in jobs' : k.pos = j.pos /\ k.pc = j.pc
           /\ \A k \in jobs' : ~k.ab => k \in jobs /\ k.proc # p
<1>1. jobs' = {[j EXCEPT !.ab = @ \/ (j.proc = p /\ TRUE)] : j \in jobs}
  OBVIOUS
<1> QED
  BY <1>1, AbortedJobs

\* An aborted driver leaves its dispatch behind.
LEMMA AbandonIInv ==
    ASSUME IInv, NEW p \in Proc, Abandon(p)
    PROVE  IInv'
<1> DEFINE d == drv[p]
           c == CASE d.intr -> "exit" [] ~d.intr /\ d.cancel -> "cancelrow" [] OTHER -> "failing"
           e == [d EXCEPT !.pc = c]
<1>1. /\ d.pc \in {"dispatching", "watch"}
      /\ UNCHANGED <<plan, run, row, seen, wf, lock, proc, owes, sweep, faults, moves>>
      /\ kid' = kid /\ hist' = hist
  BY DEF Abandon, tables
<1>0. jobs' = {[j EXCEPT !.ab = @ \/ j.proc = p] : j \in jobs}
  BY DEF Abandon
<1>2. /\ TypeOK /\ d \in Driver /\ DriverOK(d, row, hist) /\ hist \in Past /\ JobsOK
      /\ kid \in [Pos -> ChildRow] /\ (faults = 0 => Unfaulty)
  BY DriverFacts DEF TypeOK, IInv
<1>3. c \in {"exit", "cancelrow", "failing"} /\ (c = "exit" => d.intr) /\ (c = "cancelrow" => d.cancel)
  OBVIOUS
<1>4. drv' = [drv EXCEPT ![p] = e]
  <2>1. CASE d.intr
    BY <2>1 DEF Abandon, Move, At
  <2>2. CASE ~d.intr /\ d.cancel
    BY <2>2 DEF Abandon, Move, At
  <2>3. CASE ~d.intr /\ ~d.cancel
    BY <2>3 DEF Abandon, Move, At
  <2> QED
    BY <2>1, <2>2, <2>3
<1> HIDE DEF c
<1>5. e \in Driver
  BY <1>2, <1>3 DEF Driver
<1>6. e.pc = c /\ e.cancel = d.cancel /\ e.intr = d.intr /\ e.res = d.res /\ e.pos = d.pos
  BY <1>2 DEF Driver
<1> HIDE DEF e
<1>7. DriverOK(e, row, hist)
  BY <1>1, <1>2, <1>3, <1>6 DEF DriverOK, Working, Calling, OnChild, Closes
<1>8. /\ jobs' \subseteq Job
      /\ \A k \in jobs' : \E j \in jobs : k.pos = j.pos
      /\ \A j \in jobs : \E k \in jobs' : k.pos = j.pos /\ k.pc = j.pc
      /\ \A k \in jobs' : ~k.ab => k \in jobs /\ k.proc # p
  BY <1>0, <1>2, AllAborted
<1>9. \A k \in jobs' : k.ab
  <2>1. \A q \in Proc : q # p => drv[q].pc = "none"
    BY <1>1, OnlyDriver
  <2> QED
    BY <1>2, <1>8, <2>1 DEF JobsOK, Job
<1>10. JobsOK'
  BY <1>1, <1>2, <1>8, <1>9 DEF JobsOK
<1>11. \A k \in Pos : Ledgered(k)'
  BY <1>1 DEF IInv, Ledgered
<1>12. faults = 0 /\ sweep = {} /\ Stopped =>
           \A i \in Pos : kid'[i].st \in Active =>
               \E j \in jobs' : j.pos = i /\ j.pc \in {"send", "fence"}
  BY <1>1, <1>2, <1>8 DEF Unfaulty, Caught
<1>13. faults = 0 => ~d.intr
  BY <1>2 DEF Unfaulty, Undisturbed
<1>14. /\ jobs' \subseteq Job /\ kid' \in [Pos -> ChildRow] /\ hist' \in Past /\ DriverOK(e, row, hist')
       /\ e.pc = "none" <=> d.pc = "none"
       /\ e.pc \in {"deliver", "post", "mark", "exit", "cancelrow"} =>
              faults # 0 \/ (e.pc = "cancelrow" /\ e.cancel)
  BY <1>1, <1>2, <1>3, <1>6, <1>7, <1>8, <1>13
<1> QED
  BY <1>1, <1>4, <1>5, <1>6, <1>10, <1>11, <1>12, <1>14, DispatchStep

\* A dispatch that is done, told to the driver that waits: nobody waits any more.
LEMMA DispatchEnds ==
    ASSUME IInv, NEW j \in jobs, UNCHANGED <<plan, run, row, seen, wf, lock, proc, owes, sweep, hist, faults, moves>>,
           jobs' = jobs \ {j}, kid' \in [Pos -> ChildRow],
           NEW e, Tell(j, e),
           ~j.ab => /\ e \in Driver /\ e.pc \in {"retry", "failing", "park"} /\ DriverOK(e, row, hist)
                    /\ e.cancel = drv[j.proc].cancel /\ e.intr = drv[j.proc].intr /\ e.res = drv[j.proc].res,
           \A i \in Pos : Ledgered(i)',
           faults = 0 /\ sweep = {} /\ Stopped =>
               \A i \in Pos : kid'[i].st \in Active =>
                   \E k \in jobs' : k.pos = i /\ k.pc \in {"send", "fence"}
    PROVE  IInv'
<1>1. /\ TypeOK /\ jobs \subseteq Job /\ JobsOK /\ j \in Job /\ j.proc \in Proc /\ hist \in Past
      /\ drv \in [Proc -> Driver] /\ \A p \in Proc : DriverOK(drv[p], row, hist)
  BY DEF IInv, TypeOK, Job
<1>2. hist' = hist /\ jobs' \subseteq Job
      /\ UNCHANGED <<plan, run, row, seen, wf, lock, proc, owes, sweep, faults, moves>>
  BY <1>1
<1>3. CASE j.ab
  <2>1. drv' = drv
    BY <1>3 DEF Tell
  <2>2. drv' = [drv EXCEPT ![j.proc] = drv[j.proc]]
    BY <1>1, <2>1
  <2>3. JobsOK'
    BY <1>1, <1>2, <2>1 DEF JobsOK
  <2>4. drv[j.proc] \in Driver /\ DriverOK(drv[j.proc], row, hist')
    BY <1>1, <1>2
  <2>5. drv[j.proc].pc \in {"deliver", "post", "mark", "exit", "cancelrow"} => drv[j.proc].pc = drv[j.proc].pc
    OBVIOUS
  <2> QED
    BY <1>1, <1>2, <2>2, <2>3, <2>4, <2>5, DispatchStep
<1>4. CASE ~j.ab
  <2>1. drv' = [drv EXCEPT ![j.proc] = e]
    BY <1>4 DEF Tell, Move
  <2>2. \A k \in jobs' : k.ab
    BY <1>1, <1>4 DEF JobsOK
  <2>3. JobsOK'
    BY <1>1, <1>2, <2>2 DEF JobsOK
  <2>4. drv[j.proc].pc = "dispatching"
    BY <1>1, <1>4 DEF JobsOK
  <2>5. /\ e \in Driver /\ DriverOK(e, row, hist') /\ hist' \in Past
        /\ e.pc = "none" <=> drv[j.proc].pc = "none"
        /\ e.pc \notin {"deliver", "post", "mark", "exit", "cancelrow"}
        /\ e.cancel = drv[j.proc].cancel /\ e.intr = drv[j.proc].intr /\ e.res = drv[j.proc].res
    BY <1>1, <1>2, <1>4, <2>4
  <2> QED
    BY <1>1, <1>2, <2>1, <2>3, <2>5, DispatchStep
<1> QED
  BY <1>3, <1>4

\* A failed dispatch that its driver hears of.
LEMMA ToldFailed ==
    ASSUME IInv, NEW j \in jobs, ~j.ab, NEW b \in BOOLEAN, b => j.pc \in {"link", "send"}
    PROVE  /\ Failed(drv[j.proc], b) \in Driver /\ Failed(drv[j.proc], b).pc \in {"retry", "failing", "park"}
           /\ DriverOK(Failed(drv[j.proc], b), row, hist)
           /\ Failed(drv[j.proc], b).cancel = drv[j.proc].cancel
           /\ Failed(drv[j.proc], b).intr = drv[j.proc].intr
           /\ Failed(drv[j.proc], b).res = drv[j.proc].res
<1> DEFINE d == drv[j.proc]
           c == IF b /\ d.att < MaxAttempts /\ ~d.cancel /\ ~run.late THEN "retry" ELSE "failing"
           e == [d EXCEPT !.pc = c]
<1>1. Failed(d, b) = e
  BY DEF Failed, At
<1>2. j.proc \in Proc /\ d.pc = "dispatching" /\ d.pos = j.pos /\ (b => hist.sent[j.pos] = 0)
  BY DEF IInv, JobsOK, TypeOK, Job
<1>3. d \in Driver /\ DriverOK(d, row, hist)
  BY <1>2, DriverFacts
<1>4. c \in {"retry", "failing"} /\ (c = "retry" => b)
  OBVIOUS
<1> HIDE DEF c
<1>5. e \in Driver
  BY <1>3, <1>4 DEF Driver
<1>6. /\ e.pc = c /\ e.cancel = d.cancel /\ e.intr = d.intr /\ e.res = d.res /\ e.pos = d.pos
      /\ e.child = d.child
  BY <1>3 DEF Driver
<1> HIDE DEF e
<1>7. DriverOK(e, row, hist)
  BY <1>2, <1>3, <1>4, <1>6 DEF DriverOK, Working, Calling, OnChild, Closes
<1> QED
  BY <1>1, <1>4, <1>5, <1>6, <1>7
\* A dispatch that goes on to its next stage, unheard.
LEMMA DispatchGoes ==
    ASSUME IInv, NEW j \in jobs, ~j.ab, NEW k \in Job, jobs' = (jobs \ {j}) \cup {k},
           k.proc = j.proc, k.pos = j.pos, ~k.ab,
           k.pc \in {"link", "send"} => hist'.sent[k.pos] = 0,
           UNCHANGED <<plan, run, row, seen, wf, lock, drv, proc, owes, sweep, faults, moves>>,
           kid' \in [Pos -> ChildRow], hist' \in Past, \A i \in Pos : Ledgered(i)',
           k.pc \in {"send", "fence"},
           \A i \in Pos : kid'[i].st \in Active => kid[i].st \in Active \/ i = k.pos
    PROVE  IInv'
<1> DEFINE p == j.proc
<1>1. /\ TypeOK /\ jobs \subseteq Job /\ JobsOK /\ p \in Proc
      /\ drv \in [Proc -> Driver] /\ DriverOK(drv[p], row, hist) /\ drv[p] \in Driver
  BY DEF IInv, TypeOK, Job
<1>2. drv[p].pc = "dispatching" /\ drv[p].pos = j.pos /\ ~drv[p].cancel /\ row[j.pos].st # "none"
  BY <1>1 DEF JobsOK
<1>3. \A i \in jobs \ {j} : i.ab
  BY <1>1 DEF JobsOK
<1>4. JobsOK'
  BY <1>1, <1>2, <1>3 DEF JobsOK
<1>5. DriverOK(drv[p], row, hist')
  BY <1>1, <1>2 DEF DriverOK, Working, Calling, OnChild, Closes
<1>6. drv' = [drv EXCEPT ![p] = drv[p]]
  BY <1>1
<1>7. faults = 0 /\ sweep = {} /\ Stopped =>
          \A i \in Pos : kid'[i].st \in Active =>
              \E m \in jobs' : m.pos = i /\ m.pc \in {"send", "fence"}
  BY DEF IInv, Unfaulty, Caught
<1>8. /\ UNCHANGED <<plan, run, row, seen, wf, lock, proc, owes, sweep, faults, moves>>
      /\ jobs' \subseteq Job /\ drv[p].pc # "none"
      /\ drv[p].pc \notin {"deliver", "post", "mark", "exit", "cancelrow"}
  BY <1>1, <1>2
<1> QED
  BY <1>1, <1>4, <1>5, <1>6, <1>7, <1>8, DispatchStep

\* What a dispatch and its child are.
LEMMA DispatchFacts ==
    ASSUME IInv, NEW j \in jobs
    PROVE  /\ TypeOK /\ j \in Job /\ j.pos \in Pos /\ j.proc \in Proc /\ row[j.pos].st # "none"
           /\ hist \in Past /\ kid \in [Pos -> ChildRow] /\ kid[j.pos] \in ChildRow
           /\ (~j.ab /\ j.pc \in {"link", "send"} => hist.sent[j.pos] = 0)
           /\ JobsOK /\ Ledgered(j.pos)
BY DEF IInv, TypeOK, Job, JobsOK

\* A child row rewritten by its dispatch.
LEMMA ChildWritten ==
    ASSUME IInv, NEW i \in Pos, row[i].st # "none", NEW k \in ChildRow,
           kid' = [kid EXCEPT ![i] = k], UNCHANGED <<plan, row, hist>>,
           hist.sent[i] # 0 => k.armed /\ k.st # "none"
    PROVE  /\ kid' \in [Pos -> ChildRow] /\ kid'[i] = k /\ \A m \in Pos : m # i => kid'[m] = kid[m]
           /\ \A m \in Pos : Ledgered(m)'
<1>1. kid \in [Pos -> ChildRow] /\ \A m \in Pos : Ledgered(m)
  BY DEF IInv, TypeOK
<1>2. kid' \in [Pos -> ChildRow] /\ kid'[i] = k /\ \A m \in Pos : m # i => kid'[m] = kid[m]
  BY <1>1
<1>3. ASSUME NEW m \in Pos PROVE Ledgered(m)'
  <2>1. CASE m = i
    BY <1>1, <1>2, <2>1 DEF Ledgered
  <2>2. CASE m # i
    BY <1>1, <1>2, <2>2 DEF Ledgered
  <2> QED
    BY <2>1, <2>2
<1> QED
  BY <1>2, <1>3

\* The child row and its link, or nothing.
LEMMA LinkIInv ==
    ASSUME IInv, NEW j \in jobs, Link(j)
    PROVE  IInv'
<1>1. /\ j.pc = "link" /\ hist' = hist
      /\ UNCHANGED <<plan, run, row, seen, wf, lock, proc, owes, sweep, hist, faults, moves>>
  BY DEF Link
<1>2. /\ TypeOK /\ j \in Job /\ j.pos \in Pos /\ j.proc \in Proc /\ row[j.pos].st # "none"
      /\ hist \in Past /\ kid \in [Pos -> ChildRow] /\ (~j.ab => hist.sent[j.pos] = 0)
  BY <1>1, DispatchFacts
<1>3. CASE /\ ~Fenced(j) /\ UNCHANGED drv
           /\ kid' = [kid EXCEPT ![j.pos] = [st |-> "queued", armed |-> FALSE]]
           /\ jobs' = (jobs \ {j}) \cup {[j EXCEPT !.pc = "send"]}
  <2> DEFINE n == [st |-> "queued", armed |-> FALSE]
             k == [j EXCEPT !.pc = "send"]
  <2>1. ~j.ab
    BY <1>3 DEF Fenced
  <2>2. n \in ChildRow /\ n.st = "queued" /\ kid' = [kid EXCEPT ![j.pos] = n]
    BY <1>3 DEF ChildRow, Active
  <2>3. k \in Job /\ k.proc = j.proc /\ k.pos = j.pos /\ ~k.ab /\ k.pc = "send" /\ jobs' = (jobs \ {j}) \cup {k}
    BY <1>2, <1>3, <2>1 DEF Job
  <2> HIDE DEF n, k
  <2>4. hist.sent[j.pos] = 0 /\ UNCHANGED <<plan, row, hist>>
    BY <1>1, <1>2, <2>1
  <2>5. /\ kid' \in [Pos -> ChildRow] /\ \A m \in Pos : m # j.pos => kid'[m] = kid[m]
        /\ \A m \in Pos : Ledgered(m)'
    BY <1>2, <2>2, <2>4, ChildWritten
  <2>6. UNCHANGED <<plan, run, row, seen, wf, lock, drv, proc, owes, sweep, faults, moves>>
        /\ hist' \in Past /\ hist'.sent[k.pos] = 0
    BY <1>1, <1>2, <1>3, <2>3, <2>4
  <2>7. \A i \in Pos : kid'[i].st \in Active => kid[i].st \in Active \/ i = k.pos
    BY <2>3, <2>5
  <2> QED
    BY <2>1, <2>3, <2>5, <2>6, <2>7, DispatchGoes
<1>4. ASSUME NEW busy \in BOOLEAN, jobs' = jobs \ {j}, UNCHANGED kid, Tell(j, Failed(drv[j.proc], busy))
      PROVE  IInv'
  <2>1. \A i \in Pos : Ledgered(i)'
    BY <1>1, <1>4 DEF IInv, Ledgered
  <2>2. faults = 0 /\ sweep = {} /\ Stopped =>
            \A i \in Pos : kid'[i].st \in Active =>
                \E m \in jobs' : m.pos = i /\ m.pc \in {"send", "fence"}
    BY <1>1, <1>4 DEF IInv, Unfaulty, Caught
  <2>3. kid' \in [Pos -> ChildRow]
    BY <1>2, <1>4
  <2> QED
    BY <1>1, <1>4, <2>1, <2>2, <2>3, ToldFailed, DispatchEnds
<1> QED
  BY <1>3, <1>4 DEF Link

\* The marker and the message, or the end of the child.
LEMMA SendIInv ==
    ASSUME IInv, NEW j \in jobs, Send(j)
    PROVE  IInv'
<1> DEFINE i == j.pos
<1>1. j.pc = "send" /\ UNCHANGED <<plan, run, row, seen, wf, lock, proc, owes, sweep, faults, moves>>
  BY DEF Send
<1>2. /\ TypeOK /\ j \in Job /\ i \in Pos /\ j.proc \in Proc /\ row[i].st # "none" /\ Ledgered(i)
      /\ hist \in Past /\ kid \in [Pos -> ChildRow] /\ (~j.ab => hist.sent[i] = 0) /\ kid[i] \in ChildRow
  BY <1>1, DispatchFacts
<1>3. ASSUME NEW k \in ChildRow, NEW b \in BOOLEAN, kid' = [kid EXCEPT ![i] = k], hist' = hist,
             jobs' = jobs \ {j}, Tell(j, Failed(drv[j.proc], b)), k.st \notin Active,
             hist.sent[i] # 0 => k.armed /\ k.st # "none"
      PROVE  IInv'
  <2>1. UNCHANGED <<plan, row, hist>>
        /\ UNCHANGED <<plan, run, row, seen, wf, lock, proc, owes, sweep, hist, faults, moves>>
    BY <1>1, <1>3
  <2>2. /\ kid' \in [Pos -> ChildRow] /\ kid'[i] = k /\ \A m \in Pos : m # i => kid'[m] = kid[m]
        /\ \A m \in Pos : Ledgered(m)'
    BY <1>2, <1>3, <2>1, ChildWritten
  <2>3. faults = 0 /\ sweep = {} /\ Stopped =>
            \A m \in Pos : kid'[m].st \in Active =>
                \E n \in jobs' : n.pos = m /\ n.pc \in {"send", "fence"}
    BY <1>3, <2>2 DEF IInv, Unfaulty, Caught
  <2> QED
    BY <1>1, <1>3, <2>1, <2>2, <2>3, ToldFailed, DispatchEnds
<1>4. CASE /\ kid' = [kid EXCEPT ![i].st = IF @ \in Active THEN "canceled" ELSE @]
           /\ jobs' = jobs \ {j} /\ Tell(j, Failed(drv[j.proc], FALSE)) /\ UNCHANGED hist
  <2> DEFINE k == [kid[i] EXCEPT !.st = IF kid[i].st \in Active THEN "canceled" ELSE kid[i].st]
  <2>1. k \in ChildRow /\ k.st \notin Active /\ k.armed = kid[i].armed /\ (kid[i].st # "none" => k.st # "none")
    BY <1>2 DEF ChildRow, Active, Terminal
  <2>2. kid' = [kid EXCEPT ![i] = k]
    BY <1>2, <1>4
  <2> HIDE DEF k
  <2>3. hist.sent[i] # 0 => k.armed /\ k.st # "none"
    BY <1>2, <2>1 DEF Ledgered
  <2> QED
    BY <1>3, <1>4, <2>1, <2>2, <2>3
<1>5. CASE /\ ~j.ab /\ kid[i].st = "queued" /\ UNCHANGED drv
           /\ kid' = [kid EXCEPT ![i].armed = TRUE]
           /\ hist' = [hist EXCEPT !.sent[i] = @ + 1]
           /\ jobs' = (jobs \ {j}) \cup {[j EXCEPT !.pc = "fence"]}
  <2> DEFINE n == [kid[i] EXCEPT !.armed = TRUE]
             k == [j EXCEPT !.pc = "fence"]
             sent == [hist.sent EXCEPT ![i] = 1]
  <2>1. n \in ChildRow /\ n.st = "queued" /\ n.armed
    BY <1>2, <1>5 DEF ChildRow
  <2>2. kid' = [kid EXCEPT ![i] = n]
    BY <1>2, <1>5
  <2>3. k \in Job /\ k.proc = j.proc /\ k.pos = i /\ ~k.ab /\ k.pc = "fence" /\ jobs' = (jobs \ {j}) \cup {k}
    BY <1>2, <1>5 DEF Job
  <2>4. hist' = [hist EXCEPT !.sent = sent]
    BY <1>2, <1>5 DEF Past
  <2>5. sent \in [Pos -> Nat] /\ sent[i] = 1 /\ \A m \in Pos : m # i => sent[m] = hist.sent[m]
    BY <1>2 DEF Past
  <2> HIDE DEF n, k, sent
  <2>6. hist' \in Past /\ hist'.sent = sent /\ hist'.calls = hist.calls
    BY <1>2, <2>4, <2>5 DEF Past
  <2>7. kid' \in [Pos -> ChildRow] /\ kid'[i] = n /\ \A m \in Pos : m # i => kid'[m] = kid[m]
    BY <1>2, <2>1, <2>2
  <2>8. ASSUME NEW m \in Pos PROVE Ledgered(m)'
    <3>1. Ledgered(m) /\ UNCHANGED <<plan, row>>
      BY <1>1 DEF IInv
    <3>2. CASE m = i
      BY <1>2, <2>1, <2>5, <2>6, <2>7, <3>1, <3>2 DEF Ledgered
    <3>3. CASE m # i
      BY <2>5, <2>6, <2>7, <3>1, <3>3 DEF Ledgered
    <3> QED
      BY <3>2, <3>3
  <2>9. UNCHANGED <<plan, run, row, seen, wf, lock, drv, proc, owes, sweep, faults, moves>>
    BY <1>1, <1>5
  <2>10. \A m \in Pos : kid'[m].st \in Active => kid[m].st \in Active \/ m = k.pos
    BY <2>3, <2>7
  <2> QED
    BY <1>5, <2>3, <2>6, <2>7, <2>8, <2>9, <2>10, DispatchGoes
<1>6. ASSUME ~j.ab, NEW armed \in BOOLEAN, NEW dead \in BOOLEAN,
             kid' = [kid EXCEPT ![i] = [st |-> "failed", armed |-> armed]],
             Tell(j, Failed(drv[j.proc], dead)), jobs' = jobs \ {j}, UNCHANGED hist
      PROVE  IInv'
  <2> DEFINE k == [st |-> "failed", armed |-> armed]
  <2>1. k \in ChildRow /\ k.st = "failed" /\ kid' = [kid EXCEPT ![i] = k]
    BY <1>6 DEF ChildRow, Terminal
  <2> HIDE DEF k
  <2>2. k.st \notin Active /\ hist.sent[i] = 0
    BY <1>2, <1>6, <2>1 DEF Active
  <2> QED
    BY <1>3, <1>6, <2>1, <2>2
<1> QED
  BY <1>4, <1>5, <1>6 DEF Send

\* Eve accepted: chased when stopped, else the driver waits for the turn.
LEMMA FenceIInv ==
    ASSUME IInv, NEW j \in jobs, Fence(j)
    PROVE  IInv'
<1> DEFINE i == j.pos  d == drv[j.proc]
           stopped == j.ab \/ run.st = "canceled"
           st == IF kid[i].st \in Terminal THEN kid[i].st ELSE IF stopped THEN "canceled" ELSE "running"
           k == [kid[i] EXCEPT !.st = st]
           e == IF stopped \/ kid[i].st \in Terminal THEN Failed(d, FALSE)
                ELSE [d EXCEPT !.pc = "park", !.child = "linked"]
<1>1. /\ j.pc = "fence" /\ jobs' = jobs \ {j} /\ Tell(j, e) /\ hist' = hist /\ UNCHANGED <<plan, row, hist>>
      /\ UNCHANGED <<plan, run, row, seen, wf, lock, proc, owes, sweep, hist, faults, moves>>
  BY DEF Fence
<1>2. /\ TypeOK /\ j \in Job /\ i \in Pos /\ j.proc \in Proc /\ row[i].st # "none" /\ Ledgered(i) /\ JobsOK
      /\ hist \in Past /\ kid \in [Pos -> ChildRow] /\ kid[i] \in ChildRow
  BY DispatchFacts
<1>3. /\ st \in Terminal \cup {"running"} /\ (st = "running" => ~stopped)
  BY DEF Terminal
<1>4. kid' = [kid EXCEPT ![i] = k]
  BY <1>2 DEF Fence
<1> HIDE DEF st
<1>5. k \in ChildRow /\ k.st = st /\ k.armed = kid[i].armed
  BY <1>2, <1>3 DEF ChildRow, Active
<1> HIDE DEF k
<1>6. hist.sent[i] # 0 => k.armed /\ k.st # "none"
  BY <1>2, <1>3, <1>5 DEF Ledgered, Terminal
<1>7. /\ kid' \in [Pos -> ChildRow] /\ kid'[i] = k /\ \A m \in Pos : m # i => kid'[m] = kid[m]
      /\ \A m \in Pos : Ledgered(m)'
  BY <1>1, <1>2, <1>4, <1>5, <1>6, ChildWritten
<1>8. ASSUME ~j.ab
      PROVE  /\ e \in Driver /\ e.pc \in {"retry", "failing", "park"} /\ DriverOK(e, row, hist)
             /\ e.cancel = d.cancel /\ e.intr = d.intr /\ e.res = d.res
  <2>1. CASE stopped \/ kid[i].st \in Terminal
    BY <1>8, <2>1, ToldFailed
  <2>2. CASE ~(stopped \/ kid[i].st \in Terminal)
    <3> DEFINE f == [d EXCEPT !.pc = "park", !.child = "linked"]
    <3>1. e = f
      BY <2>2
    <3>2. d \in Driver /\ DriverOK(d, row, hist) /\ d.pc = "dispatching"
      BY <1>2, <1>8, DriverFacts DEF JobsOK
    <3>3. f \in Driver
      BY <3>2 DEF Driver
    <3>4. /\ f.pc = "park" /\ f.cancel = d.cancel /\ f.intr = d.intr /\ f.res = d.res /\ f.pos = d.pos
          /\ f.child = "linked"
      BY <3>2 DEF Driver
    <3> HIDE DEF e, f
    <3>5. DriverOK(f, row, hist)
      BY <3>2, <3>4 DEF DriverOK, Working, Calling, OnChild, Closes
    <3> QED
      BY <3>1, <3>3, <3>4, <3>5
  <2> QED
    BY <2>1, <2>2
<1> HIDE DEF e
<1>9. faults = 0 /\ sweep = {} /\ Stopped =>
          \A m \in Pos : kid'[m].st \in Active =>
              \E n \in jobs' : n.pos = m /\ n.pc \in {"send", "fence"}
  <2> SUFFICES ASSUME faults = 0, sweep = {}, Stopped, NEW m \in Pos, kid'[m].st \in Active
               PROVE  \E n \in jobs' : n.pos = m /\ n.pc \in {"send", "fence"}
    OBVIOUS
  <2>1. ASSUME ~stopped PROVE FALSE
    <3>1. ~j.ab /\ run.st # "canceled"
      BY <2>1
    <3>2. d.pc # "none" /\ ~d.cancel
      BY <1>2, <3>1 DEF JobsOK
    <3>3. \A q \in Proc : ~drv[q].cancel
      BY <1>2, <3>2, OnlyDriver
    <3> QED
      BY <3>1, <3>3 DEF Stopped
  <2>2. m # i /\ kid'[m] = kid[m]
    BY <1>3, <1>5, <1>7, <2>1 DEF Active, Terminal
  <2>3. PICK n \in jobs : n.pos = m /\ n.pc \in {"send", "fence"}
    BY <2>2 DEF IInv, Unfaulty, Caught
  <2> QED
    BY <1>1, <2>2, <2>3
<1> QED
  BY <1>1, <1>7, <1>8, <1>9, DispatchEnds
-----------------------------------------------------------------------------
(* The run's drivers come and go. *)

\* While the lock is free, nobody drives the run and no dispatch is answered.
LEMMA Undriven ==
    ASSUME IInv, lock = None \/ run.st = "none"
    PROVE  /\ \A q \in Proc : drv[q].pc = "none" /\ ~drv[q].cancel
           /\ \A j \in jobs : j.ab
           /\ faults = 0 /\ run.st \notin Terminal => \A i \in Pos : row[i].st # "canceled"
<1>1. \A q \in Proc : drv[q].pc = "none"
  BY RunAssumption DEF IInv, Owner
<1>2. \A q \in Proc : ~drv[q].cancel
  BY <1>1 DEF IInv, DriverOK
<1>3. \A j \in jobs : j.proc \in Proc
  BY DEF IInv, TypeOK, Job
<1>4. \A j \in jobs : j.ab
  BY <1>1, <1>3 DEF IInv, JobsOK
<1>5. faults = 0 /\ run.st \notin Terminal => \A i \in Pos : row[i].st # "canceled"
  BY <1>1 DEF IInv, Unfaulty, CancelKnown
<1> QED
  BY <1>1, <1>2, <1>4, <1>5

\* The rows are as they were.
LEMMA SameLedger ==
    ASSUME IInv, UNCHANGED <<plan, row, hist, kid>>
    PROVE  \A i \in Pos : Ledgered(i)'
BY DEF IInv, Ledgered

\* A driver is launched on a run nobody drives.
LEMMA LaunchIInv ==
    ASSUME IInv, NEW p \in Proc, Launch(p), proc[p] = "up",
           lock = None \/ run.st = "none",
           run' \in RunRow, run'.st \in Active, run.st \notin Terminal,
           UNCHANGED <<plan, row, seen, kid, wf, jobs, proc, owes, sweep, faults, moves>>
    PROVE  IInv'
<1> DEFINE ep == hist.epochs + 1
           e == [NoDriver EXCEPT !.pc = "boot", !.epoch = ep]
<1>1. lock' = p /\ drv' = [drv EXCEPT ![p] = e] /\ hist' = [hist EXCEPT !.epochs = ep]
  BY DEF Launch, Move
<1>2. TypeOK /\ hist \in Past /\ JobsOK /\ drv \in [Proc -> Driver]
  BY DEF IInv, TypeOK
<1>3. ep \in Nat
  BY <1>2 DEF Past
<1> HIDE DEF ep
<1>4. hist' \in Past /\ hist'.calls = hist.calls /\ hist'.sent = hist.sent
  BY <1>1, <1>2, <1>3 DEF Past
<1>5. NoDriver \in Driver
  BY RunAssumption DEF NoDriver, Driver
<1>6. e \in Driver
  BY <1>3, <1>5 DEF Driver
<1>7. e.pc = "boot" /\ ~e.cancel /\ ~e.intr /\ e.res = "ok"
  BY DEF NoDriver
<1> HIDE DEF e
<1>8. /\ drv' \in [Proc -> Driver] /\ drv'[p] = e /\ \A q \in Proc : q # p => drv'[q] = drv[q]
  BY <1>1, <1>2, <1>6
<1>9. /\ \A q \in Proc : drv[q].pc = "none" /\ ~drv[q].cancel
      /\ \A j \in jobs : j.ab
      /\ faults = 0 => \A i \in Pos : row[i].st # "canceled"
  BY Undriven
<1>10. TypeOK'
  BY <1>1, <1>2, <1>4, <1>8 DEF TypeOK
<1>11. Owner'
  BY <1>1, <1>8, <1>9 DEF Owner, Active
<1>12. \A i \in Pos : Ledgered(i)'
  BY <1>4 DEF IInv, Ledgered
<1>13. \A q \in Proc : DriverOK(drv[q], row, hist)'
  <2>1. DriverOK(e, row', hist')
    BY <1>7 DEF DriverOK, Working, Calling, OnChild, Closes
  <2>2. \A q \in Proc : DriverOK(drv'[q], row', hist')
    BY <1>8, <1>9, <2>1, IdleDriver
  <2> QED
    BY <2>2, SamePlan
<1>14. JobsOK'
  BY <1>2, <1>9 DEF JobsOK
<1>15. ASSUME faults' = 0 PROVE Unfaulty'
  <2>1. \A q \in Proc : Undisturbed(q)'
    <3> SUFFICES ASSUME NEW q \in Proc PROVE Undisturbed(q)'
      OBVIOUS
    <3>1. CASE q = p
      BY <1>7, <1>8, <3>1 DEF Undisturbed
    <3>2. CASE q # p
      BY <1>8, <1>9, <1>15, <3>2 DEF IInv, Unfaulty, Undisturbed
    <3> QED
      BY <3>1, <3>2
  <2>2. CancelKnown'
    BY <1>9, <1>15 DEF CancelKnown
  <2>3. ~Stopped'
    BY <1>7, <1>8, <1>9 DEF Stopped, Active
  <2> QED
    BY <2>1, <2>2, <2>3 DEF Unfaulty, Caught
<1> QED
  BY <1>10, <1>11, <1>12, <1>13, <1>14, <1>15 DEF IInv

\* A run is started.
LEMMA StartIInv ==
    ASSUME IInv, NEW p \in Proc, Start(p)
    PROVE  IInv'
<1>1. PICK owed \in {"none", "pending"} : run' = [run EXCEPT !.st = "queued", !.deliv = owed]
  BY DEF Start
<1>2. run \in RunRow
  BY DEF IInv, TypeOK
<1>3. run' \in RunRow /\ run'.st = "queued"
  BY <1>1, <1>2 DEF RunRow, Active
<1>4. /\ proc[p] = "up" /\ run.st = "none" /\ Launch(p)
      /\ UNCHANGED <<plan, row, seen, kid, wf, jobs, proc, owes, sweep, faults, moves>>
  BY DEF Start
<1> QED
  BY <1>3, <1>4, LaunchIInv DEF Active, Terminal

\* A run nobody drives is adopted ...
LEMMA ResumeIInv ==
    ASSUME IInv, NEW p \in Proc, Resume(p)
    PROVE  IInv'
<1>1. /\ proc[p] = "up" /\ run.st \in Active /\ lock = None /\ Launch(p) /\ run' = run
      /\ UNCHANGED <<plan, row, seen, kid, wf, jobs, proc, owes, sweep, faults, moves>>
  BY DEF Resume, Orphan, LockFree, tables
<1>2. run' \in RunRow /\ run'.st \in Active /\ run.st \notin Terminal
  BY <1>1 DEF IInv, TypeOK, Active, Terminal
<1> QED
  BY <1>1, <1>2, LaunchIInv

\* The run's own row moves while its drivers, rows and children stay.
LEMMA RunMoves ==
    ASSUME IInv, run' \in RunRow, run'.st # "none" \/ run'.st = run.st,
           run.st \in Terminal => run'.st \in Terminal,
           UNCHANGED <<plan, row, kid, hist, drv, jobs, lock, proc, faults>>,
           seen' \in [Pos -> Nat], wf' \in Value, moves' \in Nat,
           owes' \in [Proc -> {"none", "due", "post", "mark"}],
           sweep' \subseteq Proc \X BOOLEAN,
           faults = 0 => Caught'
    PROVE  IInv'
<1>1. TypeOK'
  BY DEF IInv, TypeOK
<1>2. Owner'
  BY DEF IInv, Owner
<1>3. (\A i \in Pos : Ledgered(i)') /\ JobsOK'
  BY SameLedger DEF IInv, JobsOK
<1>4. \A q \in Proc : DriverOK(drv[q], row, hist)'
  BY SamePlan DEF IInv
<1>5. ASSUME faults' = 0 PROVE Unfaulty'
  <2>1. \A q \in Proc : Undisturbed(q)'
    BY <1>5 DEF IInv, Unfaulty, Undisturbed
  <2>2. CancelKnown'
    BY <1>5 DEF IInv, Unfaulty, CancelKnown
  <2> QED
    BY <1>5, <2>1, <2>2 DEF Unfaulty
<1> QED
  BY <1>1, <1>2, <1>3, <1>4, <1>5 DEF IInv

\* A Stop that caught the children has caught them while the status stays.
LEMMA StillCaught ==
    ASSUME IInv, faults = 0, run'.st = "canceled" => run.st = "canceled",
           UNCHANGED <<kid, drv, jobs>>, sweep' = sweep
    PROVE  Caught'
<1>1. Stopped' => Stopped
  BY DEF Stopped
<1> QED
  BY <1>1 DEF IInv, Unfaulty, Caught

\* ... or fails outright.
LEMMA ResumeFailsIInv ==
    ASSUME IInv, NEW p \in Proc, ResumeFails(p)
    PROVE  IInv'
<1>1. /\ run.st \in Active /\ run' = markDelivery(markRun("failed"), "failed")
      /\ UNCHANGED <<row, seen, kid, wf, drv, hist, around>>
  BY DEF ResumeFails, Orphan
<1>2. TypeOK /\ run \in RunRow /\ run.st # "none"
  BY <1>1 DEF IInv, TypeOK, Active
<1>3. /\ markRun("failed") \in RunRow /\ markRun("failed").st # "none"
      /\ markRun("failed").st \in {run.st, "failed"} /\ markRun("failed").st \in Terminal
  <2>1. "failed" \in Terminal
    BY DEF Terminal
  <2> QED
    BY <1>2, <2>1, MarkRunOK
<1>4. run' \in RunRow /\ run'.st = markRun("failed").st
  BY <1>1, <1>3, MarkDeliveryOK
<1>5. /\ UNCHANGED <<plan, row, kid, hist, drv, jobs, lock, proc, faults>> /\ UNCHANGED <<kid, drv, jobs>>
      /\ sweep' = sweep /\ seen' = seen /\ wf' = wf /\ moves' = moves /\ owes' = owes
  BY <1>1 DEF around
<1>6. /\ seen' \in [Pos -> Nat] /\ wf' \in Value /\ moves' \in Nat
      /\ owes' \in [Proc -> {"none", "due", "post", "mark"}] /\ sweep' \subseteq Proc \X BOOLEAN
  BY <1>2, <1>5 DEF TypeOK
<1>7. run'.st = "canceled" => run.st = "canceled"
  BY <1>3, <1>4
<1>8. faults = 0 => Caught'
  BY <1>5, <1>7, StillCaught
<1> QED
  BY <1>3, <1>4, <1>5, <1>6, <1>8, RunMoves

\* The lock is released by the driver that leaves.
LEMMA ReleaseIInv ==
    ASSUME IInv, NEW p \in Proc, Release(p)
    PROVE  IInv'
<1>1. /\ drv[p].pc = "exit" /\ drv' = [drv EXCEPT ![p] = NoDriver]
      /\ lock' = (IF lock = p THEN None ELSE lock)
      /\ UNCHANGED <<plan, run, row, seen, kid, wf, jobs, proc, owes, sweep, hist, faults, moves>>
      /\ UNCHANGED <<plan, row, hist, kid>>
  BY DEF Release, Is, Move, tables
<1>2. TypeOK /\ drv \in [Proc -> Driver]
  BY DEF IInv, TypeOK
<1>3. NoDriver \in Driver /\ NoDriver.pc = "none" /\ ~NoDriver.cancel /\ ~NoDriver.intr /\ NoDriver.res = "ok"
  BY RunAssumption DEF NoDriver, Driver
<1>4. drv' \in [Proc -> Driver] /\ drv'[p] = NoDriver /\ \A q \in Proc : q # p => drv'[q] = drv[q]
  BY <1>1, <1>2, <1>3
<1>5. \A q \in Proc : drv'[q].pc = "none" /\ ~drv'[q].cancel
  BY <1>1, <1>3, <1>4, OnlyDriver
<1>6. TypeOK'
  BY <1>1, <1>2, <1>4 DEF TypeOK
<1>7. Owner'
  BY <1>5 DEF Owner
<1>8. \A i \in Pos : Ledgered(i)'
  BY <1>1, SameLedger
<1>9. \A q \in Proc : DriverOK(drv[q], row, hist)'
  BY <1>1, <1>5, IdleDriver, SamePlan
<1>10. JobsOK'
  <2>1. \A j \in jobs : j.proc \in Proc
    BY <1>2 DEF TypeOK, Job
  <2>2. \A j \in jobs : j.ab
    BY <1>1, <2>1, OnlyDriver DEF IInv, JobsOK
  <2> QED
    BY <1>1, <2>2 DEF IInv, JobsOK
<1>11. ASSUME faults' = 0 PROVE Unfaulty'
  <2>1. faults = 0 /\ Unfaulty
    BY <1>1, <1>11 DEF IInv
  <2>2. \A q \in Proc : Undisturbed(q)'
    <3> SUFFICES ASSUME NEW q \in Proc PROVE Undisturbed(q)'
      OBVIOUS
    <3>1. CASE q = p
      BY <1>1, <1>3, <1>4, <2>1, <3>1 DEF Unfaulty, Undisturbed
    <3>2. CASE q # p
      BY <1>1, <1>4, <2>1, <3>2 DEF Unfaulty, Undisturbed
    <3> QED
      BY <3>1, <3>2
  <2>3. CancelKnown'
    BY <1>1, <1>5, <2>1 DEF Unfaulty, Undisturbed, CancelKnown
  <2>4. Stopped' => Stopped
    BY <1>1, <1>5 DEF Stopped
  <2>5. Caught'
    BY <1>1, <2>1, <2>4 DEF Unfaulty, Caught
  <2> QED
    BY <2>2, <2>3, <2>5 DEF Unfaulty
<1> QED
  BY <1>6, <1>7, <1>8, <1>9, <1>10, <1>11 DEF IInv
\* A boot settles the reply of a run that has ended: no status changes.
LEMMA RecoverDeliveryIInv ==
    ASSUME IInv, NEW p \in Proc, RecoverDelivery(p)
    PROVE  IInv'
<1>1. /\ UNCHANGED <<plan, row, kid, hist, drv, jobs, lock, proc, faults>> /\ UNCHANGED <<kid, drv, jobs>>
      /\ sweep' = sweep /\ seen' = seen /\ wf' = wf /\ moves' = moves
  BY DEF RecoverDelivery
<1>2. TypeOK /\ run \in RunRow
  BY DEF IInv, TypeOK
<1>3. run' = run \/ run' = markDelivery(run, "failed") \/ run' = markDelivery(run, "delivered")
  BY DEF RecoverDelivery
<1>4. run' \in RunRow /\ run'.st = run.st
  BY <1>2, <1>3, MarkDeliveryOK
<1>5. owes' \in [Proc -> {"none", "due", "post", "mark"}]
  BY <1>2 DEF RecoverDelivery, TypeOK
<1>6. /\ seen' \in [Pos -> Nat] /\ wf' \in Value /\ moves' \in Nat /\ sweep' \subseteq Proc \X BOOLEAN
  BY <1>1, <1>2 DEF TypeOK
<1>7. faults = 0 => Caught'
  BY <1>1, <1>4, StillCaught
<1> QED
  BY <1>1, <1>4, <1>5, <1>6, <1>7, RunMoves

\* The deadline passes.
LEMMA DeadlineIInv ==
    ASSUME IInv, Deadline
    PROVE  IInv'
<1>1. /\ UNCHANGED <<plan, row, kid, hist, drv, jobs, lock, proc, faults>> /\ UNCHANGED <<kid, drv, jobs>>
      /\ sweep' = sweep /\ seen' = seen /\ wf' = wf /\ moves' = moves + 1 /\ owes' = owes
      /\ run' = [run EXCEPT !.late = TRUE]
  BY DEF Deadline
<1>2. TypeOK /\ run \in RunRow
  BY DEF IInv, TypeOK
<1>4. run' \in RunRow /\ run'.st = run.st
  BY <1>1, <1>2 DEF RunRow
<1>6. /\ seen' \in [Pos -> Nat] /\ wf' \in Value /\ moves' \in Nat /\ sweep' \subseteq Proc \X BOOLEAN
      /\ owes' \in [Proc -> {"none", "due", "post", "mark"}]
  BY <1>1, <1>2 DEF TypeOK
<1>7. faults = 0 => Caught'
  BY <1>1, <1>4, StillCaught
<1> QED
  BY <1>1, <1>4, <1>6, <1>7, RunMoves

\* Another run writes the workflow's state.
LEMMA OtherRunWritesIInv ==
    ASSUME IInv, OtherRunWrites
    PROVE  IInv'
<1>1. /\ UNCHANGED <<plan, row, kid, hist, drv, jobs, lock, proc, faults>> /\ UNCHANGED <<kid, drv, jobs>>
      /\ sweep' = sweep /\ seen' = seen /\ moves' = moves + 1 /\ owes' = owes /\ run' = run /\ wf' \in Value
  BY DEF OtherRunWrites
<1>2. TypeOK
  BY DEF IInv
<1>6. /\ run' \in RunRow /\ seen' \in [Pos -> Nat] /\ moves' \in Nat /\ sweep' \subseteq Proc \X BOOLEAN
      /\ owes' \in [Proc -> {"none", "due", "post", "mark"}]
  BY <1>1, <1>2 DEF TypeOK
<1>7. faults = 0 => Caught'
  BY <1>1, StillCaught
<1> QED
  BY <1>1, <1>6, <1>7, RunMoves

\* A Stop: the driver is told and its dispatch aborted, or the run ends here.
LEMMA StopIInv ==
    ASSUME IInv, NEW p \in Proc, Stop(p)
    PROVE  IInv'
<1> DEFINE d == drv[p]
<1>1. /\ run.st \in Active /\ hist' = [hist EXCEPT !.stops = hist.stops + 1]
      /\ sweep' = sweep \cup {<<p, ~Handle(p)>>} /\ UNCHANGED <<plan, row, kid>>
      /\ UNCHANGED <<plan, row, seen, kid, wf, lock, proc, owes, faults, moves>>
  BY DEF Stop
<1>2. /\ TypeOK /\ d \in Driver /\ DriverOK(d, row, hist) /\ hist \in Past /\ run \in RunRow /\ JobsOK
      /\ drv \in [Proc -> Driver] /\ jobs \subseteq Job
  BY DriverFacts DEF IInv, TypeOK
<1>3. hist' \in Past /\ hist'.calls = hist.calls /\ hist'.sent = hist.sent
  <2>1. hist.stops + 1 \in Nat
    BY <1>2 DEF Past
  <2> QED
    BY <1>1, <1>2, <2>1 DEF Past
<1>4. sweep' \subseteq Proc \X BOOLEAN /\ sweep' # {}
  <2>1. PICK b \in BOOLEAN : sweep' = sweep \cup {<<p, b>>}
    <3>1. (~Handle(p)) \in BOOLEAN
      BY DEF Handle
    <3> QED
      BY <1>1, <3>1
  <2>2. <<p, b>> \in Proc \X BOOLEAN /\ sweep \subseteq Proc \X BOOLEAN
    BY <1>2 DEF TypeOK
  <2> QED
    BY <2>1, <2>2
<1>5. \A i \in Pos : Ledgered(i)'
  BY <1>1, <1>3 DEF IInv, Ledgered
<1>6. ASSUME NEW q \in Proc, NEW e, DriverOK(e, row, hist) PROVE DriverOK(e, row', hist')
  BY <1>1, <1>3, <1>6 DEF DriverOK, Steppable
<1>7. Caught'
  BY <1>4 DEF Caught
<1>8. CASE Handle(p)
  <2> DEFINE e == [d EXCEPT !.cancel = TRUE]
  <2>1. /\ drv' = [drv EXCEPT ![p] = e] /\ run' = run
        /\ jobs' = {[j EXCEPT !.ab = @ \/ j.proc = p] : j \in jobs}
    BY <1>8 DEF Stop, Move
  <2>2. e \in Driver
    BY <1>2 DEF Driver
  <2>3. /\ e.pc = d.pc /\ e.cancel /\ e.intr = d.intr /\ e.res = d.res /\ e.pos = d.pos /\ e.child = d.child
        /\ e.epoch = d.epoch /\ d.pc # "none"
    BY <1>2, <1>8 DEF Driver, Handle
  <2> HIDE DEF e
  <2>4. drv' \in [Proc -> Driver] /\ drv'[p] = e /\ \A q \in Proc : q # p => drv'[q] = drv[q]
    BY <1>2, <2>1, <2>2
  <2>5. \A q \in Proc : q # p => drv[q].pc = "none" /\ ~drv[q].cancel
    BY <2>3, OnlyDriver
  <2>6. /\ jobs' \subseteq Job
        /\ \A k \in jobs' : \E j \in jobs : k.pos = j.pos
        /\ \A k \in jobs' : ~k.ab => k \in jobs /\ k.proc # p
    BY <1>2, <2>1, AllAborted
  <2>7. \A k \in jobs' : k.ab
    BY <1>2, <2>5, <2>6 DEF JobsOK, Job
  <2>8. TypeOK'
    BY <1>1, <1>2, <1>3, <1>4, <2>1, <2>4, <2>6 DEF TypeOK
  <2>9. Owner'
    BY <1>1, <2>1, <2>3, <2>4 DEF IInv, Owner
  <2>10. \A q \in Proc : DriverOK(drv[q], row, hist)'
    <3>1. DriverOK(e, row, hist)
      BY <1>2, <2>3 DEF DriverOK
    <3>2. \A q \in Proc : DriverOK(drv'[q], row', hist')
      BY <1>6, <2>4, <3>1 DEF IInv
    <3> QED
      BY <1>1, <3>2, SamePlan
  <2>11. JobsOK'
    <3>1. \A k \in jobs' : row'[k.pos].st # "none"
      BY <1>1, <1>2, <2>6 DEF JobsOK
    <3> QED
      BY <2>7, <3>1 DEF JobsOK
  <2>12. ASSUME faults' = 0 PROVE Unfaulty'
    <3>1. faults = 0 /\ Unfaulty
      BY <1>1, <2>12 DEF IInv
    <3>2. \A q \in Proc : Undisturbed(q)'
      <4> SUFFICES ASSUME NEW q \in Proc PROVE Undisturbed(q)'
        OBVIOUS
      <4>1. CASE q = p
        BY <1>1, <2>1, <2>3, <2>4, <3>1, <4>1 DEF Unfaulty, Undisturbed
      <4>2. CASE q # p
        BY <1>1, <2>1, <2>4, <3>1, <4>2 DEF Unfaulty, Undisturbed
      <4> QED
        BY <4>1, <4>2
    <3>3. CancelKnown'
      BY <1>1, <2>3, <2>4, <2>5, <3>1 DEF Unfaulty, CancelKnown
    <3> QED
      BY <1>7, <3>2, <3>3 DEF Unfaulty
  <2> QED
    BY <1>5, <2>8, <2>9, <2>10, <2>11, <2>12 DEF IInv
<1>9. CASE ~Handle(p)
  <2>1. run' = markRun("canceled") /\ drv' = drv /\ jobs' = jobs
    BY <1>9 DEF Stop
  <2>2. run' \in RunRow /\ run'.st \in Terminal
    <3>1. "canceled" \in Terminal /\ run.st # "none"
      BY <1>1 DEF Active, Terminal
    <3> QED
      BY <1>2, <2>1, <3>1, MarkRunOK
  <2>3. TypeOK'
    BY <1>1, <1>2, <1>3, <1>4, <2>1, <2>2 DEF TypeOK
  <2>4. Owner'
    BY <1>1, <2>1, <2>2 DEF IInv, Owner, Terminal
  <2>5. \A q \in Proc : DriverOK(drv[q], row, hist)'
    BY <1>1, <1>6, <2>1, SamePlan DEF IInv
  <2>6. JobsOK'
    BY <1>1, <1>2, <1>3, <2>1 DEF JobsOK
  <2>7. ASSUME faults' = 0 PROVE Unfaulty'
    <3>1. faults = 0 /\ Unfaulty
      BY <1>1, <2>7 DEF IInv
    <3>2. \A q \in Proc : Undisturbed(q)'
      BY <1>1, <2>1, <2>2, <3>1 DEF Unfaulty, Undisturbed
    <3>3. CancelKnown'
      BY <1>1, <2>1, <2>2, <3>1 DEF Unfaulty, CancelKnown
    <3> QED
      BY <1>7, <3>2, <3>3 DEF Unfaulty
  <2> QED
    BY <1>5, <2>3, <2>4, <2>5, <2>6, <2>7 DEF IInv
<1> QED
  BY <1>8, <1>9

\* The children move; none comes to life that was dead.
LEMMA ChildrenMove ==
    ASSUME IInv, kid' \in [Pos -> ChildRow],
           \A i \in Pos : (kid[i].st = "none" <=> kid'[i].st = "none") /\ kid'[i].armed = kid[i].armed,
           run' \in RunRow, run'.st = run.st, sweep' \subseteq Proc \X BOOLEAN, moves' \in Nat,
           UNCHANGED <<plan, row, seen, wf, lock, drv, jobs, proc, owes, hist, faults>>,
           faults = 0 => Caught'
    PROVE  IInv'
<1>1. TypeOK'
  BY DEF IInv, TypeOK
<1>2. Owner'
  BY DEF IInv, Owner
<1>3. \A i \in Pos : Ledgered(i)'
  BY DEF IInv, Ledgered
<1>4. JobsOK'
  BY DEF IInv, JobsOK
<1>5. \A q \in Proc : DriverOK(drv[q], row, hist)'
  BY SamePlan DEF IInv
<1>6. ASSUME faults' = 0 PROVE Unfaulty'
  <2>1. \A q \in Proc : Undisturbed(q)'
    BY <1>6 DEF IInv, Unfaulty, Undisturbed
  <2>2. CancelKnown'
    BY <1>6 DEF IInv, Unfaulty, CancelKnown
  <2> QED
    BY <1>6, <2>1, <2>2 DEF Unfaulty
<1> QED
  BY <1>1, <1>2, <1>3, <1>4, <1>5, <1>6 DEF IInv

\* The Stop's sweep leaves no child active.
LEMMA StopChildrenIInv ==
    ASSUME IInv, NEW h \in sweep, StopChildren(h)
    PROVE  IInv'
<1>1. /\ sweep' = sweep \ {h} /\ run' = (IF h[2] THEN markDelivery(run, "failed") ELSE run)
      /\ kid' = [i \in Pos |-> IF kid[i].st \in Active THEN [kid[i] EXCEPT !.st = "canceled"] ELSE kid[i]]
      /\ UNCHANGED <<plan, row, seen, wf, lock, drv, jobs, proc, owes, hist, faults>> /\ moves' = moves
  BY DEF StopChildren, Sweepable
<1>2. TypeOK /\ run \in RunRow /\ kid \in [Pos -> ChildRow]
  BY DEF IInv, TypeOK
<1>3. run' \in RunRow /\ run'.st = run.st
  BY <1>1, <1>2, MarkDeliveryOK
<1>4. ASSUME NEW i \in Pos
      PROVE  /\ kid'[i] \in ChildRow /\ (kid[i].st = "none" <=> kid'[i].st = "none")
             /\ kid'[i].armed = kid[i].armed /\ kid'[i].st \notin Active
  <2>1. CASE kid[i].st \in Active
    <3>1. kid'[i] = [kid[i] EXCEPT !.st = "canceled"]
      BY <1>1, <2>1
    <3> QED
      BY <1>2, <2>1, <3>1 DEF ChildRow, Active, Terminal
  <2>2. CASE kid[i].st \notin Active
    <3>1. kid'[i] = kid[i]
      BY <1>1, <2>2
    <3> QED
      BY <1>2, <2>2, <3>1
  <2> QED
    BY <2>1, <2>2
<1>5. kid' \in [Pos -> ChildRow]
  <2>1. DOMAIN kid' = Pos /\ kid' = [i \in Pos |-> kid'[i]]
    BY <1>1
  <2> QED
    BY <1>4, <2>1
<1>6. Caught'
  BY <1>4 DEF Caught
<1>7. sweep' \subseteq Proc \X BOOLEAN /\ moves' \in Nat
  BY <1>1, <1>2 DEF TypeOK
<1>8. UNCHANGED <<plan, row, seen, wf, lock, drv, jobs, proc, owes, hist, faults>>
  BY <1>1
<1> QED
  BY <1>3, <1>4, <1>5, <1>6, <1>7, <1>8, ChildrenMove

\* A child's own step.
LEMMA ChildMovesIInv ==
    ASSUME IInv, NEW i \in Pos, ChildMoves(i)
    PROVE  IInv'
<1>1. /\ UNCHANGED <<plan, row, seen, wf, lock, drv, jobs, proc, owes, hist, faults>> /\ run' = run
      /\ sweep' = sweep /\ UNCHANGED <<drv, jobs>> /\ (moves' = moves + 1 \/ moves' = moves)
  BY DEF ChildMoves
<1>2. TypeOK /\ run \in RunRow /\ kid \in [Pos -> ChildRow] /\ kid[i] \in ChildRow
  BY DEF IInv, TypeOK
<1>3. PICK st \in {"waiting", "running", "succeeded", "failed"} :
          /\ kid' = [kid EXCEPT ![i].st = st] /\ kid[i].st \in Active
  BY DEF ChildMoves, Active
<1> DEFINE k == [kid[i] EXCEPT !.st = st]
<1>4. k \in ChildRow /\ k.st = st /\ k.armed = kid[i].armed
  BY <1>2 DEF ChildRow, Active, Terminal
<1>5. kid' = [kid EXCEPT ![i] = k]
  BY <1>2, <1>3
<1> HIDE DEF k
<1>6. kid' \in [Pos -> ChildRow] /\ kid'[i] = k /\ \A m \in Pos : m # i => kid'[m] = kid[m]
  BY <1>2, <1>4, <1>5
<1>7. \A m \in Pos : (kid[m].st = "none" <=> kid'[m].st = "none") /\ kid'[m].armed = kid[m].armed
  BY <1>3, <1>4, <1>6 DEF Active
<1>8. ASSUME faults = 0 PROVE Caught'
  <2>1. Stopped' => Stopped
    BY <1>1 DEF Stopped
  <2>2. \A m \in Pos : kid'[m].st \in Active => kid[m].st \in Active
    BY <1>3, <1>6
  <2> QED
    BY <1>1, <1>8, <2>1, <2>2 DEF IInv, Unfaulty, Caught
<1>9. run' \in RunRow /\ run'.st = run.st /\ sweep' \subseteq Proc \X BOOLEAN /\ moves' \in Nat
  BY <1>1, <1>2 DEF TypeOK
<1> QED
  BY <1>1, <1>6, <1>7, <1>8, <1>9, ChildrenMove
\* A graceful close interrupts the driver and aborts its dispatches.
LEMMA ShutdownIInv ==
    ASSUME IInv, NEW p \in Proc, Shutdown(p)
    PROVE  IInv'
<1> DEFINE d == drv[p]
<1>1. /\ faults < MaxFaults /\ faults' = faults + 1 /\ proc' = [proc EXCEPT ![p] = "closing"]
      /\ UNCHANGED <<plan, row, hist, kid>> /\ jobs' = {[j EXCEPT !.ab = @ \/ (j.proc = p /\ Handle(p))] : j \in jobs}
      /\ UNCHANGED <<plan, run, row, seen, kid, wf, lock, owes, sweep, hist, moves>>
  BY DEF Shutdown, tables
<1>2. /\ TypeOK /\ d \in Driver /\ DriverOK(d, row, hist) /\ JobsOK /\ drv \in [Proc -> Driver] /\ jobs \subseteq Job
      /\ faults \in Nat /\ MaxFaults \in Nat
  BY DriverFacts, RunAssumption DEF IInv, TypeOK
<1>3. faults' \in 0 .. MaxFaults /\ faults' # 0
  BY <1>1, <1>2
<1>4. /\ jobs' \subseteq Job
      /\ \A k \in jobs' : \E j \in jobs : k.pos = j.pos
      /\ \A k \in jobs' : ~k.ab => k \in jobs /\ (Handle(p) => k.proc # p)
  <2>1. Handle(p) \in BOOLEAN
    BY DEF Handle
  <2> QED
    BY <1>1, <1>2, <2>1, AbortedJobs
<1> DEFINE e == IF Handle(p) THEN [d EXCEPT !.intr = TRUE] ELSE d
<1>5. drv' = [drv EXCEPT ![p] = e]
  BY DEF Shutdown, Drain
<1>6. /\ e \in Driver /\ e.pc = d.pc /\ e.cancel = d.cancel /\ e.res = d.res /\ e.pos = d.pos
      /\ e.child = d.child /\ e.epoch = d.epoch
  <2> DEFINE f == [d EXCEPT !.intr = TRUE]
  <2>1. f \in Driver
    BY <1>2 DEF Driver
  <2>2. /\ f.pc = d.pc /\ f.cancel = d.cancel /\ f.res = d.res /\ f.pos = d.pos
        /\ f.child = d.child /\ f.epoch = d.epoch
    BY <1>2 DEF Driver
  <2>3. e = f \/ e = d
    OBVIOUS
  <2> HIDE DEF e, f
  <2> QED
    BY <1>2, <2>1, <2>2, <2>3
<1> HIDE DEF e
<1>7. drv' \in [Proc -> Driver] /\ drv'[p] = e /\ \A q \in Proc : q # p => drv'[q] = drv[q]
  BY <1>2, <1>5, <1>6
<1>8. TypeOK'
  BY <1>1, <1>2, <1>3, <1>4, <1>7 DEF TypeOK
<1>9. Owner'
  BY <1>1, <1>6, <1>7 DEF IInv, Owner
<1>10. \A i \in Pos : Ledgered(i)'
  BY <1>1, SameLedger
<1>11. \A q \in Proc : DriverOK(drv[q], row, hist)'
  <2>1. DriverOK(e, row, hist)
    BY <1>2, <1>6 DEF DriverOK
  <2>2. \A q \in Proc : DriverOK(drv'[q], row', hist')
    BY <1>1, <1>7, <2>1 DEF IInv
  <2> QED
    BY <1>1, <2>2, SamePlan
<1>12. JobsOK'
  <2>1. \A k \in jobs' : row'[k.pos].st # "none"
    BY <1>1, <1>2, <1>4 DEF JobsOK
  <2>2. ASSUME NEW k \in jobs', ~k.ab
        PROVE  /\ k \in jobs /\ drv'[k.proc].pc = "dispatching" /\ drv'[k.proc].pos = k.pos /\ ~drv'[k.proc].cancel
               /\ k.pc \in {"link", "send"} => hist'.sent[k.pos] = 0
    <3>1. k \in jobs /\ k.proc \in Proc
      BY <1>2, <1>4, <2>2 DEF Job
    <3> QED
      BY <1>1, <1>2, <1>6, <1>7, <2>2, <3>1 DEF JobsOK
  <2>3. \A j, k \in jobs' : ~j.ab /\ ~k.ab => j = k
    BY <1>2, <1>4 DEF JobsOK
  <2> QED
    BY <2>1, <2>2, <2>3 DEF JobsOK
<1> QED
  BY <1>3, <1>8, <1>9, <1>10, <1>11, <1>12 DEF IInv

\* A process that is gone takes its driver, its dispatches and its lock along.
LEMMA GoneIInv ==
    ASSUME IInv, NEW p \in Proc, Gone(p), faults' \in 0 .. MaxFaults, faults' # 0
    PROVE  IInv'
<1>1. /\ proc' = [proc EXCEPT ![p] = "down"] /\ drv' = [drv EXCEPT ![p] = NoDriver]
      /\ lock' = (IF lock = p THEN None ELSE lock)
      /\ jobs' = {j \in jobs : j.proc # p} /\ sweep' = {h \in sweep : h[1] # p}
      /\ owes' = [owes EXCEPT ![p] = "none"] /\ UNCHANGED <<plan, row, hist, kid>>
      /\ UNCHANGED <<plan, run, row, seen, kid, wf, hist, moves>>
  BY DEF Gone, tables
<1>2. TypeOK /\ drv \in [Proc -> Driver] /\ jobs \subseteq Job /\ JobsOK
  BY DEF IInv, TypeOK
<1>3. NoDriver \in Driver /\ NoDriver.pc = "none" /\ ~NoDriver.cancel
  BY RunAssumption DEF NoDriver, Driver
<1>4. drv' \in [Proc -> Driver] /\ drv'[p] = NoDriver /\ \A q \in Proc : q # p => drv'[q] = drv[q]
  BY <1>1, <1>2, <1>3
<1>5. TypeOK'
  BY <1>1, <1>2, <1>4 DEF TypeOK
<1>6. Owner'
  BY <1>1, <1>3, <1>4 DEF IInv, Owner
<1>7. \A i \in Pos : Ledgered(i)'
  BY <1>1, SameLedger
<1>8. \A q \in Proc : DriverOK(drv[q], row, hist)'
  <2>1. \A q \in Proc : DriverOK(drv'[q], row', hist')
    BY <1>1, <1>3, <1>4, IdleDriver DEF IInv
  <2> QED
    BY <1>1, <2>1, SamePlan
<1>9. JobsOK'
  <2>1. \A j \in jobs' : j \in jobs /\ j.proc \in Proc /\ drv'[j.proc] = drv[j.proc]
    BY <1>1, <1>2, <1>4 DEF Job
  <2> QED
    BY <1>1, <1>2, <2>1 DEF JobsOK
<1> QED
  BY <1>5, <1>6, <1>7, <1>8, <1>9 DEF IInv

\* A crash is a fault; a process that closes has had one.
LEMMA LeavesIInv ==
    ASSUME IInv, NEW p \in Proc, Crash(p) \/ Closed(p)
    PROVE  IInv'
<1>1. faults \in 0 .. MaxFaults /\ MaxFaults \in Nat
  BY RunAssumption DEF IInv, TypeOK
<1>2. CASE Crash(p)
  <2>1. Gone(p) /\ faults < MaxFaults /\ faults' = faults + 1
    BY <1>2 DEF Crash
  <2>2. faults' \in 0 .. MaxFaults /\ faults' # 0
    BY <1>1, <2>1
  <2> QED
    BY <2>1, <2>2, GoneIInv
<1>3. CASE Closed(p)
  <2>1. Gone(p) /\ proc[p] = "closing" /\ faults' = faults
    BY <1>3 DEF Closed
  <2>2. faults # 0
    BY <2>1 DEF IInv, Unfaulty, Undisturbed
  <2> QED
    BY <1>1, <2>1, <2>2, GoneIInv
<1> QED
  BY <1>2, <1>3

\* Only a process that left restarts.
LEMMA RestartIInv ==
    ASSUME IInv, NEW p \in Proc, Restart(p)
    PROVE  IInv'
<1>1. /\ proc[p] = "down" /\ proc' = [proc EXCEPT ![p] = "up"] /\ owes' = [owes EXCEPT ![p] = "due"]
      /\ UNCHANGED <<plan, run, row, seen, kid, wf, lock, drv, jobs, sweep, hist, faults, moves>>
      /\ UNCHANGED <<plan, row, hist, kid>>
  BY DEF Restart, BootOwes, tables
<1>2. faults # 0
  BY <1>1 DEF IInv, Unfaulty, Undisturbed
<1>3. TypeOK'
  BY <1>1 DEF IInv, TypeOK
<1>4. Owner' /\ JobsOK'
  BY <1>1 DEF IInv, Owner, JobsOK
<1>5. \A i \in Pos : Ledgered(i)'
  BY <1>1, SameLedger
<1>6. \A q \in Proc : DriverOK(drv[q], row, hist)'
  BY <1>1, SamePlan DEF IInv
<1> QED
  BY <1>1, <1>2, <1>3, <1>4, <1>5, <1>6 DEF IInv

-----------------------------------------------------------------------------
(* The invariant, and what follows from it. *)

\* A step of a driver.
LEMMA StepsIInv ==
    ASSUME IInv, NEW p \in Proc, Steps(p)
    PROVE  IInv'
<1>1. CASE Boot(p) \/ Begin(p) \/ Boundary(p) \/ Claim(p) \/ Adopt(p) \/ Reclaim(p)
  BY <1>1, BootIInv, BeginIInv, BoundaryIInv, ClaimIInv, AdoptIInv, ReclaimIInv
<1>2. CASE Filter(p) \/ Branch(p)
  BY <1>2, DecideIInv DEF Filter, Branch, Is
<1>3. CASE StateWrite(p) \/ LoopEnter(p) \/ Finish(p) \/ Emit(p) \/ CloseCanceled(p)
  BY <1>3, StateWriteIInv, LoopEnterIInv, FinishIInv, EmitIInv, CloseCanceledIInv
<1>4. CASE SkipStep(p) \/ SkipEmit(p) \/ Attempt(p) \/ Return(p) \/ Retry(p)
  BY <1>4, SkipStepIInv, SkipEmitIInv, AttemptIInv, ReturnIInv, RetryIInv
<1>5. CASE EmitFailure(p) \/ RecordFailure(p) \/ Abandon(p) \/ Watch(p) \/ Park(p) \/ Unpark(p)
  BY <1>5, EmitFailureIInv, RecordFailureIInv, AbandonIInv, WatchIInv, ParkIInv, UnparkIInv
<1>6. CASE Settles(p)
  BY <1>6, SettleIInv, DeliverIInv, ReleaseIInv DEF Settles
<1> QED
  BY <1>1, <1>2, <1>3, <1>4, <1>5, <1>6 DEF Steps

\* Every step of the system keeps the invariant.
LEMMA NextIInv ==
    ASSUME IInv, [Next]_vars
    PROVE  IInv'
<1>1. ASSUME NEW p \in Proc, Start(p) \/ Resume(p) \/ ResumeFails(p) \/ Steps(p)
      PROVE  IInv'
  BY <1>1, StartIInv, ResumeIInv, ResumeFailsIInv, StepsIInv
<1>2. ASSUME NEW p \in Proc, \/ RecoverDelivery(p) \/ DriverError(p) \/ Stop(p) \/ Shutdown(p)
                             \/ Crash(p) \/ Closed(p) \/ Restart(p)
      PROVE  IInv'
  BY <1>2, RecoverDeliveryIInv, DriverErrorIInv, StopIInv, ShutdownIInv, LeavesIInv, RestartIInv
<1>3. ASSUME NEW j \in jobs, Link(j) \/ Send(j) \/ Fence(j)
      PROVE  IInv'
  BY <1>3, LinkIInv, SendIInv, FenceIInv
<1>4. ASSUME NEW h \in sweep, StopChildren(h)
      PROVE  IInv'
  BY <1>4, StopChildrenIInv
<1>5. ASSUME NEW i \in Pos, ChildMoves(i)
      PROVE  IInv'
  BY <1>5, ChildMovesIInv
<1>6. CASE Deadline \/ OtherRunWrites
  BY <1>6, DeadlineIInv, OtherRunWritesIInv
<1>7. CASE UNCHANGED vars
  <2>1. TypeOK' /\ Owner' /\ JobsOK' /\ (\A i \in Pos : Ledgered(i)') /\ UNCHANGED <<plan, drv, row, hist, faults>>
    BY <1>7, SameLedger DEF vars, IInv, TypeOK, Owner, JobsOK
  <2>2. \A q \in Proc : DriverOK(drv[q], row, hist)'
    BY <2>1, SamePlan DEF IInv
  <2>3. faults' = 0 => Unfaulty'
    BY <1>7 DEF vars, IInv, Unfaulty, Undisturbed, CancelKnown, Caught, Stopped
  <2> QED
    BY <2>1, <2>2, <2>3 DEF IInv
<1> QED
  BY <1>1, <1>2, <1>3, <1>4, <1>5, <1>6, <1>7 DEF Next, Dispatches

\* The inductive invariant holds of every run of every plan, with any number of
\* processes, whatever crashes, is stopped or deployed (the whole pipeline).
THEOREM InvariantHolds == Spec => []IInv
<1>1. Init => IInv
  BY InitIInv
<1>2. IInv /\ [Next]_vars => IInv'
  BY NextIInv
<1> QED
  BY <1>1, <1>2, PTL DEF Spec

\* The rows, the drivers, the dispatches and the handlers keep their shapes.
THEOREM TypeCorrect == Spec => []TypeOK
<1>1. IInv => TypeOK
  BY DEF IInv
<1> QED
  BY <1>1, InvariantHolds, PTL

\* At most one driver touches the run: it holds the advisory lock from its
\* launch until its last write (runner.ts tryAcquire, resume, drive's finally).
THEOREM OneDriverHolds == Spec => []OneDriver
<1>1. IInv => OneDriver
  BY DEF IInv, Owner, OneDriver, Handle
<1> QED
  BY <1>1, InvariantHolds, PTL

\* A set with no two different members has at most one.
LEMMA AtMostOneMember ==
    ASSUME NEW S, \A x, y \in S : x = y
    PROVE  Cardinality(S) <= 1
<1>1. CASE S = {}
  BY <1>1, FS_EmptySet
<1>2. CASE S # {}
  <2>1. PICK x \in S : TRUE
    BY <1>2
  <2>2. S = {x}
    BY <2>1
  <2>3. Cardinality({x}) = 1
    BY FS_Singleton
  <2> QED
    BY <2>2, <2>3
<1> QED
  BY <1>1, <1>2

\* A "once" step is called by one driver only, and an agent step's message
\* leaves at most once, whatever crashes in between (executeLeaf, steps/agent.ts
\* phase 2, linkChildRunToStep).
THEOREM CalledOnce == Spec => []AtMostOnce
<1>1. ASSUME IInv, NEW i \in DOMAIN plan
      PROVE  /\ plan[i].kind = "once" => Cardinality({c[1] : c \in hist.calls[i]}) <= 1
             /\ hist.sent[i] <= 1
  <2>1. i \in Pos /\ Ledgered(i) /\ hist.sent[i] \in Nat
    BY <1>1, PlanFacts DEF IInv, TypeOK, Past
  <2>2. hist.sent[i] <= 1
    BY <2>1 DEF Ledgered
  <2>3. ASSUME plan[i].kind = "once" PROVE Cardinality({c[1] : c \in hist.calls[i]}) <= 1
    <3>1. \A x, y \in {c[1] : c \in hist.calls[i]} : x = y
      BY <2>1, <2>3 DEF Ledgered
    <3> QED
      BY <3>1, AtMostOneMember
  <2> QED
    BY <2>2, <2>3
<1>2. IInv => AtMostOnce
  BY <1>1 DEF AtMostOnce
<1> QED
  BY <1>2, InvariantHolds, PTL

\* Every attempt of a step runs with the input it was claimed with, also after
\* a restart (executeLeaf's and executeState's persisted input).
THEOREM InputPersists == Spec => []SameInput
<1>1. ASSUME IInv, NEW i \in DOMAIN plan
      PROVE  Cardinality({c[3] : c \in hist.calls[i]}) <= 1
  <2>1. i \in Pos /\ Ledgered(i)
    BY <1>1, PlanFacts DEF IInv
  <2>2. \A x, y \in {c[3] : c \in hist.calls[i]} : x = y
    BY <2>1 DEF Ledgered
  <2> QED
    BY <2>2, AtMostOneMember
<1>2. IInv => SameInput
  BY <1>1 DEF SameInput
<1> QED
  BY <1>2, InvariantHolds, PTL

\* A Stop that ended the run leaves no child turn alive, however a dispatch
\* raced it (the cancel route's sweep, the agent step's two fences).
THEOREM StopReachesAll == Spec => []StopReachesChildren
<1>1. IInv => StopReachesChildren
  BY DEF IInv, StopReachesChildren, Quiet, Unfaulty, Caught, Stopped
<1> QED
  BY <1>1, InvariantHolds, PTL

-----------------------------------------------------------------------------
(* PipelineRunner implements StepLedger.  A driver that takes over replays *)
(* the rows of its predecessors: the invariant says of the rows alone that *)
(* this replay comes to the step that was under way before it comes to one *)
(* that was never claimed (RowsOK), and of a driver that what lies behind  *)
(* its position is closed or was passed over for good (PathOK).            *)
(*                                                                         *)
(* The run's timeline is a second table beside the ledger, and a row is    *)
(* written before its event.  Tells and TimeOK say which rows have shown   *)
(* their end by the time a driver is where it is, so that a run that       *)
(* succeeds has shown them all (TInv).                                     *)

-----------------------------------------------------------------------------
(* The ledger's rows rw, as a replay sees them.                            *)

Touched(rw, i) == rw[i].st # "none"
Opened(rw, i) == rw[i].st \in {"running", "waiting"}
Ended(rw, i) == rw[i].st \in Terminal \cup {"skipped"}

LoopOf(k) == IF k \in DOMAIN plan THEN plan[k].loop ELSE 0
IsTop(i) == i \in DOMAIN plan /\ plan[i].loop = 0
IsLoop(i) == i \in DOMAIN plan /\ plan[i].kind = "loop"

AppliesIn(rw, k) ==
    /\ plan[k].loop # 0 /\ plan[k].kind # "end" =>
         plan[k].item < Items[rw[plan[k].loop].inp]
    /\ plan[k].lane # 0 => rw[plan[k].lane].out # 0

\* A filter recorded false.
Skips(rw, i) ==
    i \in DOMAIN plan /\ plan[i].kind = "filter" /\ rw[i].st = "succeeded" /\ rw[i].out = 0

\* What keeps the replay from the rest of the run, of a loop, of an item.
EndsRun(rw, i) == IsTop(i) /\ (rw[i].st \in {"failed", "canceled"} \/ Skips(rw, i))
EndsLoop(rw, i) == \/ rw[i].st = "canceled"
                   \/ rw[i].st = "failed" /\ plan[LoopOf(i)].halt
EndsItem(rw, i) == rw[i].st = "failed" \/ Skips(rw, i)
SameItem(i, k) == plan[i].item = plan[k].item /\ plan[k].kind # "end"

\* The loop of k is being gone through, and nothing before k ends what k is in.
Framed(rw, k) == LoopOf(k) # 0 => rw[LoopOf(k)].st = "running"
Clear(rw, k) ==
    /\ \A i \in Pos : i < k /\ i # LoopOf(k) => ~EndsRun(rw, i)
    /\ \A i \in Pos : i < k /\ LoopOf(k) # 0 /\ LoopOf(i) = LoopOf(k) =>
          ~EndsLoop(rw, i) /\ (EndsItem(rw, i) => ~SameItem(i, k))

\* The replay does not stop at k.
Passed(rw, k) == AppliesIn(rw, k) /\ Framed(rw, k) => ~Clear(rw, k)

\* Before k only its loop is open, and what was not claimed is passed over.
Shut(rw, k) == \A i \in Pos : i < k /\ Opened(rw, i) => i = LoopOf(k)
Gap(rw, k) == \A i \in DOMAIN plan : i < k /\ ~Touched(rw, i) => Passed(rw, i)

-----------------------------------------------------------------------------
(* The invariant.                                                          *)

\* A row belongs to a step that applies, in a loop that was entered.
Placed(rw) ==
    \A i \in Pos :
        /\ Touched(rw, i) =>
             /\ i \in DOMAIN plan /\ plan[i].kind # "end" /\ AppliesIn(rw, i)
             /\ LoopOf(i) # 0 => Touched(rw, LoopOf(i))
        /\ ~Touched(rw, i) => rw[i].out = 0
        /\ IsLoop(i) => rw[i].st # "waiting" /\ rw[i].out = 0

\* Before a row there are rows, and steps the replay passes over.
Gapless(rw) == \A j \in Pos : Touched(rw, j) => Gap(rw, j)

\* Nothing is behind an open row, but for the body of an open loop.
Frontier(rw) ==
    \A i, j \in Pos : i < j /\ Opened(rw, i) /\ Touched(rw, j) => IsLoop(i) /\ LoopOf(j) = i

\* A loop that succeeded in time has closed its body.
Bodies(rw) ==
    \A j \in Pos : Opened(rw, j) /\ LoopOf(j) # 0 => rw[LoopOf(j)].st # "succeeded"

\* What ended the run, a loop or an item has nothing of it behind it.
Halted(rw) ==
    \A i, j \in Pos : i < j /\ Touched(rw, j) =>
        /\ EndsRun(rw, i) => LoopOf(j) = i \/ (Skips(rw, i) /\ rw[j].st = "skipped")
        /\ LoopOf(i) # 0 /\ LoopOf(j) = LoopOf(i) =>
             ~EndsLoop(rw, i) /\ (EndsItem(rw, i) => ~SameItem(i, j))

\* Skipped rows are behind a filter that was recorded false.
FilteredOut(rw, j) == \E f \in Pos : f < j /\ IsTop(f) /\ Skips(rw, f)
Skipped(rw) == \A j \in Pos : rw[j].st = "skipped" => FilteredOut(rw, j)

RowsOK(rw, late) ==
    /\ Placed(rw) /\ Gapless(rw) /\ Frontier(rw) /\ Halted(rw) /\ Skipped(rw)
    /\ ~late => Bodies(rw)

OnStep == Working \cup {"fin", "failing", "failed"}
Trying == Calling \cup OnChild
Begun == OnStep \cup {"step", "emit", "cancelrow", "skip", "skipped"}

\* Driver d on rows rw of a run that is late or not.
OnTrack(rw, late, k) == Framed(rw, k) /\ (~late => Clear(rw, k) /\ Shut(rw, k))
AtStep(d, rw, late) ==
    /\ d.pos \in DOMAIN plan => AppliesIn(rw, d.pos)
    /\ OnTrack(rw, late, d.pos)
    /\ ~late /\ d.exec < MaxExecuted => Gap(rw, d.pos)
    /\ \A k \in Pos : k >= d.pos /\ Touched(rw, k) => k \in d.prior
AtRow(d, rw, late) ==
    /\ Opened(rw, d.pos)
    /\ OnTrack(rw, late, d.pos)
    /\ d.pc \in Trying => ~IsLoop(d.pos)
    /\ d.pc = "eval" => \A k \in Pos : k > d.pos /\ Touched(rw, k) => k \in d.prior
    /\ d.pc = "fin" => d.res \in {"succeeded", "failed"}
    /\ d.pc = "fin" /\ IsLoop(d.pos) /\ d.res = "succeeded" /\ ~late =>
         \A k \in Pos : LoopOf(k) = d.pos => ~Opened(rw, k)
AtEvent(d, rw, late) ==
    /\ OnTrack(rw, late, d.pos)
    /\ rw[d.pos].st = d.res /\ d.res \in {"succeeded", "failed"}
    /\ \A k \in Pos : k > d.pos /\ Touched(rw, k) => IsLoop(d.pos) /\ LoopOf(k) = d.pos
PathOK(d, rw, late) ==
    /\ \A k \in d.prior : Touched(rw, k)
    /\ d.pc = "step" => AtStep(d, rw, late)
    /\ d.pc \in OnStep => AtRow(d, rw, late)
    /\ d.pc = "emit" => AtEvent(d, rw, late)
    /\ d.pc = "cancelrow" => Opened(rw, d.pos)
    /\ d.pc \in {"skip", "skipped"} =>
         /\ FilteredOut(rw, d.pos)
         /\ d.pos \in DOMAIN plan => plan[d.pos].loop = 0 /\ plan[d.pos].lane = 0

LInv ==
    /\ RowsOK(row, run.late)
    /\ \A p \in Proc : PathOK(drv[p], row, run.late)
    /\ ~run.begun => \A i \in Pos : ~Touched(row, i)
    /\ \A p \in Proc : drv[p].pc \in Begun => run.begun

-----------------------------------------------------------------------------
(* The plan: loops, items and lanes.                                       *)

\* Where a loop's body ends.
LEMMA LoopShape ==
    ASSUME TypeOK, NEW l \in Pos, IsLoop(l)
    PROVE  /\ l \in DOMAIN plan /\ LoopOf(l) = 0 /\ plan[l].loop = 0
           /\ EndOf(l) \in DOMAIN plan /\ EndOf(l) \in 1 .. Len /\ l < EndOf(l)
           /\ plan[EndOf(l)].kind = "end" /\ plan[EndOf(l)].loop = l
           /\ plan[EndOf(l)].lane = plan[l].lane
           /\ \A k \in Pos : LoopOf(k) = l <=> l < k /\ k <= EndOf(l)
           /\ \A k \in Pos : l < k /\ k < EndOf(l) => plan[k].kind # "end"
<1>1. /\ l \in DOMAIN plan /\ DOMAIN plan = 1 .. Len /\ Len \in Nat /\ WellNested(plan)
      /\ plan[l].kind = "loop" /\ Pos \subseteq Nat /\ 1 .. Len \subseteq Pos
  BY PlanFacts DEF IsLoop, Pos
<1>2. PICK e \in 1 .. Len :
        /\ l < e /\ plan[e].kind = "end" /\ plan[e].lane = plan[l].lane
        /\ \A k \in 1 .. Len : /\ plan[k].loop = l <=> l < k /\ k <= e
                               /\ l < k /\ k < e => plan[k].kind # "end"
  BY <1>1 DEF WellNested
<1>3. plan[e].loop = l
  BY <1>1, <1>2
<1>4. \A k \in 1 .. Len : plan[k].kind = "end" /\ plan[k].loop = l => k = e
  BY <1>1, <1>2
<1>5. EndOf(l) = e
  BY <1>1, <1>2, <1>3, <1>4 DEF EndOf
<1>6. plan[l].loop = 0
  <2>1. plan[e].loop # 0
    BY <1>1, <1>2 DEF WellNested
  <2> QED
    BY <1>1, <1>3, <2>1 DEF WellNested
<1>7. \A k \in Pos : LoopOf(k) = l <=> l < k /\ k <= e
  <2> TAKE k \in Pos
  <2>1. CASE k \in 1 .. Len
    BY <1>1, <1>2, <2>1 DEF LoopOf
  <2>2. CASE k \notin 1 .. Len
    BY <1>1, <2>2 DEF LoopOf
  <2> QED
    BY <2>1, <2>2
<1>8. \A k \in Pos : l < k /\ k < e => plan[k].kind # "end"
  BY <1>1, <1>2
<1> QED
  BY <1>1, <1>2, <1>3, <1>5, <1>6, <1>7, <1>8 DEF LoopOf

\* A step of a loop's body.
LEMMA BodyShape ==
    ASSUME TypeOK, NEW i, LoopOf(i) # 0
    PROVE  /\ i \in DOMAIN plan /\ i \in Pos /\ plan[i].loop = LoopOf(i)
           /\ LoopOf(i) \in Pos /\ IsLoop(LoopOf(i)) /\ LoopOf(i) < i /\ i <= EndOf(LoopOf(i))
           /\ plan[i].item \in Nat
           /\ \/ plan[i].lane = plan[LoopOf(i)].lane
              \/ LoopOf(i) < plan[i].lane /\ plan[i].lane < i /\ plan[i].lane \in Pos
           /\ \A k \in Pos : k < i /\ LoopOf(k) = LoopOf(i) => plan[k].item <= plan[i].item
<1>1. i \in DOMAIN plan /\ plan[i].loop = LoopOf(i)
  BY DEF LoopOf
<1>2. /\ DOMAIN plan = 1 .. Len /\ Len \in Nat /\ WellNested(plan) /\ plan[i] \in PlanShape
      /\ i \in Pos /\ i \in 1 .. Len /\ MaxLen \in Nat /\ Len <= MaxLen
  BY <1>1, PlanFacts
<1>3a. PICK l \in 0 .. MaxLen : l = LoopOf(i)
  BY <1>1, <1>2 DEF PlanShape
<1>3. l < i /\ plan[l].kind = "loop" /\ plan[i].lane \in 0 .. MaxLen
      /\ plan[i].lane < i /\ plan[i].item \in Nat /\ plan[i].loop = l /\ l # 0
  BY <1>1, <1>2, <1>3a DEF WellNested, PlanShape
<1>4. l \in 1 .. Len /\ l \in Pos
  BY <1>2, <1>3 DEF Pos
<1>5. IsLoop(l)
  BY <1>2, <1>3, <1>4 DEF IsLoop
<1>6. i <= EndOf(l)
  BY <1>2, <1>3a, <1>4, <1>5, LoopShape
<1>7. plan[i].lane = plan[l].lane \/ plan[i].lane > l
  BY <1>1, <1>2, <1>3 DEF WellNested
<1>8. plan[i].lane > l => plan[i].lane \in Pos
  BY <1>2, <1>3, <1>4 DEF Pos
<1>9. \A k \in Pos : k < i /\ LoopOf(k) = l => plan[k].item <= plan[i].item
  <2> SUFFICES ASSUME NEW k \in Pos, k < i, LoopOf(k) = l
               PROVE  plan[k].item <= plan[i].item
    OBVIOUS
  <2>1. k \in DOMAIN plan /\ plan[k].loop = plan[i].loop
    BY <1>3 DEF LoopOf
  <2> QED
    BY <1>1, <1>2, <1>3, <2>1 DEF WellNested
<1> QED
  BY <1>1, <1>2, <1>3a, <1>3, <1>4, <1>5, <1>6, <1>7, <1>8, <1>9

\* A lane comes after its branch.
LEMMA LaneShape ==
    ASSUME TypeOK, NEW i \in DOMAIN plan, plan[i].lane # 0
    PROVE  plan[i].lane \in Pos /\ plan[i].lane < i
<1>1. /\ plan[i] \in PlanShape /\ WellNested(plan) /\ MaxLen \in Nat
  BY PlanFacts
<1>2. plan[i].lane \in 0 .. MaxLen /\ plan[i].lane < i
  BY <1>1 DEF WellNested, PlanShape
<1> QED
  BY <1>1, <1>2 DEF Pos

\* No loop encloses the step behind a top-level one, but for the loop itself.
LEMMA TopShape ==
    ASSUME TypeOK, NEW i \in Pos, IsTop(i), NEW k \in Pos, i < k, LoopOf(k) # 0,
           LoopOf(k) <= i
    PROVE  LoopOf(k) = i
<1> DEFINE l == LoopOf(k)
<1>1. l \in Pos /\ IsLoop(l) /\ k <= EndOf(l)
  BY BodyShape
<1>2. \A j \in Pos : LoopOf(j) = l <=> l < j /\ j <= EndOf(l)
  BY <1>1, LoopShape
<1>3. EndOf(l) \in Nat /\ l \in Nat /\ i \in Nat /\ k \in Nat
  BY <1>1, LoopShape, PlanFacts DEF Pos
<1>4. LoopOf(i) = 0 /\ l # 0
  BY DEF IsTop, LoopOf
<1>5. ~(l < i)
  BY <1>1, <1>2, <1>3, <1>4
<1> QED
  BY <1>3, <1>5

\* Where the replay goes on from j.
LEMMA SeekShape ==
    ASSUME TypeOK, NEW j \in 1 .. Len + 1
    PROVE  /\ Seek(j) \in j .. Len + 1
           /\ Seek(j) \in DOMAIN plan => AppliesIn(row, Seek(j))
           /\ \A i \in Pos : j <= i /\ i < Seek(j) => i \in DOMAIN plan /\ ~AppliesIn(row, i)
<1>1. Len \in Nat /\ DOMAIN plan = 1 .. Len /\ Pos \subseteq Nat
  BY PlanFacts DEF Pos
<1> DEFINE S == {k \in j .. Len : Applies(k)} \cup {Len + 1}
<1>2. S \in SUBSET Nat /\ S # {} /\ S \subseteq j .. Len + 1
  BY <1>1
<1>3. \A k \in j .. Len : Applies(k) => k \in S
  OBVIOUS
<1>4. \A k \in S : k \in DOMAIN plan => Applies(k)
  BY <1>1
<1> HIDE DEF S
<1>5. Min(S) \in S /\ (\A y \in S : Min(S) <= y) /\ j \in Nat
  <2>1. Min(S) \in S /\ \A y \in S : Min(S) <= y
    BY <1>2, LeastIn
  <2> QED
    BY <1>1, <2>1
<1>6. Seek(j) = Min(S) /\ Seek(j) \in j .. Len + 1
  BY <1>2, <1>5 DEF Seek, S
<1>7. \A k : AppliesIn(row, k) <=> Applies(k)
  BY DEF AppliesIn, Applies
<1>8. \A i \in Pos : j <= i /\ i < Seek(j) => i \in 1 .. Len /\ ~Applies(i)
  <2> SUFFICES ASSUME NEW i \in Pos, j <= i, i < Seek(j)
               PROVE  i \in 1 .. Len /\ ~Applies(i)
    OBVIOUS
  <2>1. i \in j .. Len /\ i \in 1 .. Len
    BY <1>1, <1>5, <1>6
  <2>2. i \notin S
    BY <1>1, <1>5, <1>6, <2>1
  <2> QED
    BY <1>3, <2>1, <2>2
<1> QED
  BY <1>1, <1>2, <1>4, <1>5, <1>6, <1>7, <1>8

\* The next item of a loop, or its end; what is in between is of the same item.
LEMMA NextItemShape ==
    ASSUME TypeOK, NEW i \in DOMAIN plan, plan[i].loop # 0, plan[i].kind # "end"
    PROVE  LET n == NextItem(i)  l == LoopOf(i) IN
           /\ n \in 1 .. Len /\ i < n /\ n <= EndOf(l) /\ LoopOf(n) = l
           /\ plan[n].kind = "end" \/ plan[n].item > plan[i].item
           /\ \A k \in Pos : i < k /\ k < n =>
                k \in DOMAIN plan /\ LoopOf(k) = l /\ SameItem(i, k)
<1> DEFINE l == LoopOf(i)
           S == {k \in i + 1 .. Len : plan[k].loop = plan[i].loop
                    /\ (plan[k].kind = "end" \/ plan[k].item > plan[i].item)}
<1>1. /\ l = plan[i].loop /\ l = LoopOf(i) /\ l # 0 /\ i \in 1 .. Len /\ Len \in Nat /\ DOMAIN plan = 1 .. Len
      /\ Pos \subseteq Nat /\ 1 .. Len \subseteq Pos
  BY PlanFacts DEF LoopOf, Pos
<1>2. /\ l \in Pos /\ IsLoop(l) /\ l < i /\ i <= EndOf(l) /\ plan[i].item \in Nat
  BY <1>1, BodyShape
<1>3. /\ EndOf(l) \in 1 .. Len /\ plan[EndOf(l)].kind = "end" /\ plan[EndOf(l)].loop = l
      /\ \A k \in Pos : LoopOf(k) = l <=> l < k /\ k <= EndOf(l)
  BY <1>2, LoopShape
<1>4. EndOf(l) \in S
  <2>1. EndOf(l) # i
    BY <1>3
  <2> QED
    BY <1>1, <1>2, <1>3, <2>1
<1>5. S \in SUBSET Nat /\ S # {}
  BY <1>1, <1>4
<1>6. \A k \in S : /\ k \in 1 .. Len /\ i < k /\ plan[k].loop = l
                   /\ plan[k].kind = "end" \/ plan[k].item > plan[i].item
  BY <1>1
<1>7. \A k \in 1 .. Len : i < k /\ plan[k].loop = l /\ k \notin S =>
        plan[k].kind # "end" /\ ~(plan[k].item > plan[i].item)
  BY <1>1
<1> HIDE DEF S, l
<1>8. Min(S) \in S /\ \A y \in S : Min(S) <= y
  BY <1>5, LeastIn
<1>9. NextItem(i) = Min(S)
  BY DEF NextItem, S
<1>10. Min(S) <= EndOf(l) /\ LoopOf(Min(S)) = l
  BY <1>1, <1>4, <1>6, <1>8 DEF LoopOf
<1>11. ASSUME NEW k \in Pos, i < k, k < Min(S)
       PROVE  k \in DOMAIN plan /\ LoopOf(k) = l /\ SameItem(i, k)
  <2>1. k \in 1 .. Len /\ k <= EndOf(l)
    BY <1>1, <1>3, <1>6, <1>8, <1>10, <1>11
  <2>2. LoopOf(k) = l /\ plan[k].loop = l
    BY <1>1, <1>2, <1>3, <1>11, <2>1 DEF LoopOf
  <2>3. k \notin S
    BY <1>1, <1>6, <1>8, <1>11
  <2>4. plan[k].kind # "end" /\ ~(plan[k].item > plan[i].item)
    BY <1>7, <1>11, <2>1, <2>2, <2>3
  <2>5. plan[i].item <= plan[k].item /\ plan[k].item \in Nat
    BY <1>1, <1>11, <2>2, BodyShape
  <2> QED
    BY <1>1, <1>2, <2>1, <2>2, <2>4, <2>5 DEF SameItem
<1> QED
  BY <1>1, <1>6, <1>8, <1>9, <1>10, <1>11

\* The next step outside loops and lanes.
LEMMA NextTopShape ==
    ASSUME TypeOK, NEW i \in 1 .. MaxLen + 1
    PROVE  /\ NextTop(i) \in 1 .. Len + 1
           /\ NextTop(i) \in DOMAIN plan => plan[NextTop(i)].loop = 0 /\ plan[NextTop(i)].lane = 0
           /\ i <= Len => i < NextTop(i)
           /\ i > Len => NextTop(i) = Len + 1
<1>1. Len \in Nat /\ MaxLen \in Nat /\ DOMAIN plan = 1 .. Len
  BY PlanFacts
<1> DEFINE S == {k \in i + 1 .. Len : plan[k].loop = 0 /\ plan[k].lane = 0} \cup {Len + 1}
<1>2. S \in SUBSET Nat /\ S # {} /\ S \subseteq 1 .. Len + 1
  BY <1>1
<1>3. \A k \in S : /\ k \in DOMAIN plan => plan[k].loop = 0 /\ plan[k].lane = 0
                   /\ i <= Len => i < k
                   /\ i > Len => k = Len + 1
  BY <1>1
<1> HIDE DEF S
<1>4. Min(S) \in S
  BY <1>2, LeastIn
<1>5. NextTop(i) = Min(S)
  BY DEF NextTop, S
<1> QED
  BY <1>2, <1>3, <1>4, <1>5

\* The order of positions, loops and lanes.
LEMMA Order ==
    ASSUME TypeOK
    PROVE  /\ Pos \subseteq Nat /\ Len \in Nat /\ Len <= MaxLen /\ MaxLen \in Nat
           /\ DOMAIN plan = 1 .. Len /\ DOMAIN plan \subseteq Pos /\ 0 \notin Pos
           /\ \A k : LoopOf(k) # 0 =>
                /\ k \in DOMAIN plan /\ LoopOf(k) \in Pos /\ LoopOf(k) < k
                /\ LoopOf(k) \in DOMAIN plan /\ plan[LoopOf(k)].kind = "loop"
                /\ IsLoop(LoopOf(k)) /\ LoopOf(LoopOf(k)) = 0 /\ k <= EndOf(LoopOf(k))
           /\ \A k \in DOMAIN plan : plan[k].lane # 0 => plan[k].lane \in Pos /\ plan[k].lane < k
<1>1. /\ Pos \subseteq Nat /\ Len \in Nat /\ Len <= MaxLen /\ MaxLen \in Nat
      /\ DOMAIN plan = 1 .. Len /\ DOMAIN plan \subseteq Pos /\ 0 \notin Pos
  BY PlanFacts DEF Pos
<1>2. ASSUME NEW k, LoopOf(k) # 0
      PROVE  /\ k \in DOMAIN plan /\ LoopOf(k) \in Pos /\ LoopOf(k) < k
             /\ LoopOf(k) \in DOMAIN plan /\ plan[LoopOf(k)].kind = "loop"
             /\ IsLoop(LoopOf(k)) /\ LoopOf(LoopOf(k)) = 0 /\ k <= EndOf(LoopOf(k))
  <2>1. k \in DOMAIN plan /\ LoopOf(k) \in Pos /\ IsLoop(LoopOf(k)) /\ LoopOf(k) < k
        /\ k <= EndOf(LoopOf(k))
    BY <1>2, BodyShape
  <2>2. LoopOf(LoopOf(k)) = 0
    BY <2>1, LoopShape
  <2> QED
    BY <2>1, <2>2 DEF IsLoop
<1>3. \A k \in DOMAIN plan : plan[k].lane # 0 => plan[k].lane \in Pos /\ plan[k].lane < k
  BY LaneShape
<1> QED
  BY <1>1, <1>2, <1>3

-----------------------------------------------------------------------------
(* Rows and what applies.                                                  *)

\* A row that was not claimed ends nothing.
LEMMA Blank ==
    ASSUME NEW rw, NEW i, ~Touched(rw, i)
    PROVE  ~Opened(rw, i) /\ ~EndsRun(rw, i) /\ ~EndsLoop(rw, i) /\ ~EndsItem(rw, i)
  BY DEF Touched, Opened, EndsRun, EndsLoop, EndsItem, Skips

\* Nor does an open one.
LEMMA OpenEnds ==
    ASSUME NEW rw, NEW i, Opened(rw, i)
    PROVE  Touched(rw, i) /\ ~EndsRun(rw, i) /\ ~EndsLoop(rw, i) /\ ~EndsItem(rw, i)
  BY DEF Touched, Opened, EndsRun, EndsLoop, EndsItem, Skips

\* A step of a loop's body applies only if its loop does.
LEMMA AppliesLoop ==
    ASSUME TypeOK, NEW rw, Placed(rw), NEW k, LoopOf(k) # 0, AppliesIn(rw, k)
    PROVE  AppliesIn(rw, LoopOf(k))
<1>1. PICK l \in Pos : l = LoopOf(k) /\ IsLoop(l) /\ plan[l].loop = 0 /\ k \in Pos /\ k <= EndOf(l)
                       /\ EndOf(l) \in Nat /\ l \in DOMAIN plan
  BY Order, LoopShape
<1>2. CASE plan[k].lane = plan[l].lane
  BY <1>1, <1>2 DEF AppliesIn
<1>3. CASE l < plan[k].lane /\ plan[k].lane < k /\ plan[k].lane \in Pos
  <2> DEFINE b == plan[k].lane
  <2>1. b # 0 /\ rw[b].out # 0
    BY <1>1, <1>3, Order DEF AppliesIn
  <2>2. Touched(rw, b)
    BY <1>3, <2>1 DEF Placed
  <2>3. LoopOf(b) = l
    <3>1. b <= EndOf(l)
      BY <1>1, <1>3, Order
    <3> QED
      BY <1>1, <1>3, <3>1, LoopShape
  <2>4. l # 0
    BY <1>1
  <2>5. Touched(rw, l)
    BY <1>1, <1>3, <2>2, <2>3, <2>4 DEF Placed
  <2> QED
    BY <1>1, <2>5 DEF Placed
<1> QED
  BY <1>1, <1>2, <1>3, BodyShape

\* The end of a loop that applies applies.
LEMMA EndApplies ==
    ASSUME TypeOK, NEW rw, NEW l \in Pos, IsLoop(l), AppliesIn(rw, l)
    PROVE  AppliesIn(rw, EndOf(l))
  BY LoopShape DEF AppliesIn

\* What applies depends on the inputs and the outputs of the rows.
SameData(rw) == \A i \in Pos : rw[i].inp = row[i].inp /\ rw[i].out = row[i].out

\* Equal ledgers apply the same steps.
LEMMA SameApplies ==
    ASSUME TypeOK, NEW rw, SameData(rw), NEW k \in DOMAIN plan
    PROVE  AppliesIn(rw, k) <=> AppliesIn(row, k)
<1>1. plan[k].loop # 0 => plan[k].loop \in Pos
  BY Order DEF LoopOf
<1>2. plan[k].lane # 0 => plan[k].lane \in Pos
  BY Order
<1> QED
  BY <1>1, <1>2 DEF AppliesIn, SameData

\* From j the replay goes to the next step that applies, past untouched ones.
LEMMA Sought ==
    ASSUME TypeOK, NEW rw, Placed(rw), SameData(rw), NEW j \in 1 .. Len + 1
    PROVE  /\ Seek(j) \in j .. Len + 1
           /\ Seek(j) \in DOMAIN plan => AppliesIn(rw, Seek(j))
           /\ \A b \in Pos : j <= b /\ b < Seek(j) =>
                b \in DOMAIN plan /\ ~AppliesIn(rw, b) /\ ~Touched(rw, b)
<1>1. /\ Seek(j) \in j .. Len + 1
      /\ Seek(j) \in DOMAIN plan => AppliesIn(row, Seek(j))
      /\ \A i \in Pos : j <= i /\ i < Seek(j) => i \in DOMAIN plan /\ ~AppliesIn(row, i)
  BY SeekShape
<1>2. \A k \in DOMAIN plan : AppliesIn(rw, k) <=> AppliesIn(row, k)
  BY SameApplies
<1> QED
  BY <1>1, <1>2 DEF Placed

-----------------------------------------------------------------------------
(* Where a driver arrives.                                                 *)

\* Before j, in loop l or in none, nothing is open and nothing keeps the
\* replay from what is at j or behind it.
Settled(rw, j, l) ==
    /\ \A b \in Pos : b < j /\ b # l => ~EndsRun(rw, b) /\ ~Opened(rw, b)
    /\ l # 0 => \A b \in Pos : b < j /\ LoopOf(b) = l =>
         /\ ~EndsLoop(rw, b)
         /\ EndsItem(rw, b) => \A m \in Pos : j <= m /\ LoopOf(m) = l => ~SameItem(b, m)

\* j is in the body of l, or outside all loops.
Inside(rw, j, l) ==
    IF l = 0 THEN j \in 1 .. Len + 1 /\ \A m \in Pos : IsLoop(m) /\ m < j => EndOf(m) < j
    ELSE l \in Pos /\ IsLoop(l) /\ rw[l].st = "running" /\ j \in Nat /\ l < j /\ j <= EndOf(l)

\* The next step that applies is in the same loop, or in none.
LEMMA Lands ==
    ASSUME TypeOK, NEW rw, Placed(rw), SameData(rw), NEW j, NEW l, Inside(rw, j, l)
    PROVE  LoopOf(Seek(j)) = l /\ j \in 1 .. Len + 1 /\ Framed(rw, Seek(j))
<1> DEFINE k == Seek(j)
<1>1. CASE l = 0
  <2>1. j \in 1 .. Len + 1
    BY <1>1 DEF Inside
  <2>2. /\ k \in j .. Len + 1 /\ (k \in DOMAIN plan => AppliesIn(rw, k))
        /\ \A b \in Pos : j <= b /\ b < k => ~AppliesIn(rw, b)
    <3>1. /\ k \in j .. Len + 1 /\ (k \in DOMAIN plan => AppliesIn(rw, k))
          /\ \A b \in Pos : j <= b /\ b < k => ~AppliesIn(rw, b)
      BY <2>1, Sought
    <3> QED
      BY <3>1
  <2> HIDE DEF k
  <2>3. ASSUME LoopOf(k) # 0 PROVE FALSE
    <3>1. /\ k \in DOMAIN plan /\ LoopOf(k) \in Pos /\ LoopOf(k) < k /\ IsLoop(LoopOf(k))
          /\ k <= EndOf(LoopOf(k)) /\ EndOf(LoopOf(k)) \in Nat
      BY <2>3, Order, LoopShape
    <3>2. AppliesIn(rw, LoopOf(k))
      BY <2>2, <2>3, <3>1, AppliesLoop
    <3>3. LoopOf(k) < j
      BY <2>1, <2>2, <3>1, <3>2, Order
    <3>4. EndOf(LoopOf(k)) < j
      BY <1>1, <3>1, <3>3 DEF Inside
    <3> QED
      BY <2>1, <2>2, <3>1, <3>4, Order
  <2>4. LoopOf(k) = 0
    BY <2>3
  <2> QED
    BY <1>1, <2>1, <2>4 DEF Framed, k
<1>2. CASE l # 0
  <2>1. /\ l \in Pos /\ IsLoop(l) /\ rw[l].st = "running" /\ j \in Nat /\ l < j /\ j <= EndOf(l)
        /\ EndOf(l) \in 1 .. Len /\ EndOf(l) \in Pos /\ Len \in Nat /\ l \in Nat
        /\ \A m \in Pos : LoopOf(m) = l <=> l < m /\ m <= EndOf(l)
    BY <1>2, LoopShape, Order DEF Inside
  <2>2. j \in 1 .. Len + 1
    BY <2>1
  <2>3. AppliesIn(rw, l)
    BY <2>1 DEF Placed, Touched
  <2>4. k \in j .. Len + 1 /\ \A b \in Pos : j <= b /\ b < k => ~AppliesIn(rw, b)
    BY <2>2, Sought
  <2>5. AppliesIn(rw, EndOf(l))
    BY <2>1, <2>3, EndApplies
  <2> HIDE DEF k
  <2>6. k <= EndOf(l) /\ k \in Pos
    BY <2>1, <2>2, <2>4, <2>5, Order
  <2>7. LoopOf(k) = l
    BY <2>1, <2>2, <2>4, <2>6
  <2> QED
    BY <2>1, <2>2, <2>7 DEF Framed, k
<1> QED
  BY <1>1, <1>2

\* What was settled at j is settled where the replay lands.
LEMMA LandsClear ==
    ASSUME TypeOK, NEW rw, Placed(rw), SameData(rw), NEW j, NEW l, Inside(rw, j, l)
    PROVE  /\ Settled(rw, j, l) => Clear(rw, Seek(j)) /\ Shut(rw, Seek(j))
           /\ Gap(rw, j) => Gap(rw, Seek(j))
<1> DEFINE k == Seek(j)
<1>1. LoopOf(k) = l /\ j \in 1 .. Len + 1 /\ Pos \subseteq Nat /\ DOMAIN plan \subseteq Pos
  BY Lands, Order
<1>2. k \in j .. Len + 1 /\ k \in Nat /\ j \in Nat
      /\ \A b \in Pos : j <= b /\ b < k => ~AppliesIn(rw, b) /\ ~Touched(rw, b)
  BY <1>1, Sought, Order
<1>3. k \in Pos \/ LoopOf(k) = 0
  BY <1>1, Order
<1> HIDE DEF k
<1>4. \A b \in Pos : j <= b /\ b < k => ~Opened(rw, b) /\ ~EndsRun(rw, b) /\ ~EndsLoop(rw, b) /\ ~EndsItem(rw, b)
  BY <1>2, Blank
<1>5. ASSUME Settled(rw, j, l) PROVE Clear(rw, k) /\ Shut(rw, k)
  <2>1. \A b \in Pos : b < k /\ b # l => ~EndsRun(rw, b) /\ ~Opened(rw, b)
    BY <1>1, <1>2, <1>4, <1>5 DEF Settled
  <2>2. ASSUME NEW b \in Pos, b < k, l # 0, LoopOf(b) = l
        PROVE  ~EndsLoop(rw, b) /\ (EndsItem(rw, b) => ~SameItem(b, k))
    <3>1. CASE b < j
      BY <1>1, <1>2, <1>3, <1>5, <2>2, <3>1 DEF Settled
    <3>2. CASE j <= b
      BY <1>4, <2>2, <3>2
    <3> QED
      BY <1>1, <1>2, <3>1, <3>2
  <2> QED
    BY <1>1, <2>1, <2>2 DEF Clear, Shut
<1>6. ASSUME Gap(rw, j) PROVE Gap(rw, k)
  <2> SUFFICES ASSUME NEW b \in DOMAIN plan, b < k, ~Touched(rw, b) PROVE Passed(rw, b)
    BY DEF Gap
  <2>1. CASE b < j
    BY <1>6, <2>1 DEF Gap
  <2>2. CASE j <= b
    <3>1. ~AppliesIn(rw, b)
      BY <1>1, <1>2, <2>2
    <3> QED
      BY <3>1 DEF Passed
  <2>3. b < j \/ j <= b
    <3>1. b \in Nat
      BY Order
    <3> QED
      BY <1>2, <3>1
  <2> QED
    BY <2>1, <2>2, <2>3
<1> QED
  BY <1>5, <1>6 DEF k

\* Onward keeps the driver's budget and its memory of the earlier rows.
LEMMA OnwardFields ==
    ASSUME NEW d \in Driver, NEW j
    PROVE  LET e == Onward(d, j) IN
           e.pc = "step" /\ e.pos = Seek(j) /\ e.exec = d.exec /\ e.prior = d.prior
           /\ e.res = d.res
  BY DEF Onward, Driver

\* So the driver is on its path.
LEMMA Arrive ==
    ASSUME TypeOK, NEW rw, Placed(rw), SameData(rw), NEW late, NEW j, NEW l, Inside(rw, j, l),
           NEW d \in Driver, \A m \in d.prior : Touched(rw, m),
           ~late => Settled(rw, j, l), ~late /\ d.exec < MaxExecuted => Gap(rw, j),
           \A m \in Pos : j <= m /\ Touched(rw, m) => m \in d.prior
    PROVE  PathOK(Onward(d, j), rw, late)
<1> DEFINE e == Onward(d, j)  k == Seek(j)
<1>1. e.pc = "step" /\ e.pos = k /\ e.exec = d.exec /\ e.prior = d.prior
  BY OnwardFields
<1>2. j \in 1 .. Len + 1 /\ Framed(rw, k)
  BY Lands
<1>3. k \in j .. Len + 1 /\ (k \in DOMAIN plan => AppliesIn(rw, k))
  BY <1>2, Sought
<1>4. (Settled(rw, j, l) => Clear(rw, k) /\ Shut(rw, k)) /\ (Gap(rw, j) => Gap(rw, k))
  BY LandsClear
<1> HIDE DEF e, k
<1>5. \A m \in Pos : m >= k /\ Touched(rw, m) => m \in d.prior
  BY <1>2, <1>3, Order
<1>6. OnTrack(rw, late, k)
  BY <1>2, <1>4 DEF OnTrack
<1>7. AtStep(e, rw, late)
  BY <1>1, <1>3, <1>4, <1>5, <1>6 DEF AtStep
<1> QED
  BY <1>1, <1>7 DEF PathOK, OnStep, Working, Calling, OnChild, e

\* What is at k is decided by the rows before it.
LEMMA Before ==
    ASSUME TypeOK, NEW rw, NEW rx, NEW k \in Nat, \A m \in Pos : m < k => rx[m] = rw[m]
    PROVE  /\ k \in DOMAIN plan => (AppliesIn(rx, k) <=> AppliesIn(rw, k))
           /\ k \in DOMAIN plan => (Passed(rx, k) <=> Passed(rw, k))
           /\ Framed(rx, k) <=> Framed(rw, k)
           /\ Clear(rx, k) <=> Clear(rw, k)
           /\ Shut(rx, k) <=> Shut(rw, k)
<1>1. k \in DOMAIN plan => (AppliesIn(rx, k) <=> AppliesIn(rw, k))
  <2>1. ASSUME k \in DOMAIN plan
        PROVE  /\ plan[k].loop # 0 => rx[plan[k].loop] = rw[plan[k].loop]
               /\ plan[k].lane # 0 => rx[plan[k].lane] = rw[plan[k].lane]
    BY <2>1, Order DEF LoopOf
  <2> QED
    BY <2>1 DEF AppliesIn
<1>2. Framed(rx, k) <=> Framed(rw, k)
  BY Order DEF Framed
<1>3. \A m \in Pos : m < k => /\ EndsRun(rx, m) <=> EndsRun(rw, m)
                              /\ EndsLoop(rx, m) <=> EndsLoop(rw, m)
                              /\ EndsItem(rx, m) <=> EndsItem(rw, m)
                              /\ Opened(rx, m) <=> Opened(rw, m)
  BY DEF EndsRun, EndsLoop, EndsItem, Opened, Skips
<1>4. Clear(rx, k) <=> Clear(rw, k)
  BY <1>3 DEF Clear
<1>5. Shut(rx, k) <=> Shut(rw, k)
  BY <1>3 DEF Shut
<1> QED
  BY <1>1, <1>2, <1>4, <1>5 DEF Passed

-----------------------------------------------------------------------------
(* The ways on from step i.                                                *)

\* To the next item: i failed, was dropped, or nothing from i on was claimed
\* and the budget is spent.
LEMMA NextItemPath ==
    ASSUME TypeOK, NEW rw, NEW late, RowsOK(rw, late), SameData(rw),
           NEW d \in Driver, \A m \in d.prior : Touched(rw, m),
           NEW i \in DOMAIN plan, plan[i].kind # "end", plan[i].loop # 0, OnTrack(rw, late, i),
           ~late => /\ ~Opened(rw, i) /\ ~EndsLoop(rw, i)
                    /\ \/ EndsItem(rw, i)
                       \/ d.exec >= MaxExecuted /\ \A m \in Pos : i <= m => ~Touched(rw, m),
           \A m \in Pos : i < m /\ Touched(rw, m) => m \in d.prior
    PROVE  PathOK(Onward(d, NextItem(i)), rw, late)
<1>1. Placed(rw) /\ Gapless(rw) /\ Halted(rw)
  BY DEF RowsOK
<1>2. PICK n : n = NextItem(i)
  OBVIOUS
<1>3. PICK l : l = LoopOf(i)
  OBVIOUS
<1>4. /\ i \in Pos /\ i \in Nat /\ l \in Pos /\ l \in Nat /\ IsLoop(l) /\ l < i /\ l # 0
      /\ plan[i].item \in Nat /\ Len \in Nat /\ Pos \subseteq Nat
  BY <1>3, BodyShape, Order DEF LoopOf
<1>5. /\ n \in 1 .. Len /\ i < n /\ n <= EndOf(l) /\ LoopOf(n) = l
      /\ (plan[n].kind = "end" \/ plan[n].item > plan[i].item)
      /\ \A k \in Pos : i < k /\ k < n => k \in DOMAIN plan /\ LoopOf(k) = l /\ SameItem(i, k)
  BY <1>2, <1>3, NextItemShape
<1>6. Framed(rw, i)
  BY DEF OnTrack
<1>7. Inside(rw, n, l)
  BY <1>3, <1>4, <1>5, <1>6 DEF Inside, Framed
<1>8. \A m \in Pos : LoopOf(m) = l => plan[m].item \in Nat /\ m <= EndOf(l) /\ EndOf(l) \in Nat
  BY <1>4, BodyShape, LoopShape
<1>9. \A a, b \in Pos : LoopOf(a) = l /\ LoopOf(b) = l /\ a <= b => plan[a].item <= plan[b].item
  <2> SUFFICES ASSUME NEW a \in Pos, NEW b \in Pos, LoopOf(a) = l, LoopOf(b) = l, a <= b
               PROVE  plan[a].item <= plan[b].item
    OBVIOUS
  <2>1. CASE a = b
    BY <1>8, <2>1
  <2>2. CASE a < b
    BY <1>4, <2>2, BodyShape
  <2> QED
    BY <1>4, <2>1, <2>2
<1>10. n \in Pos /\ n \in Nat
  BY <1>5, Order
<1>11. ASSUME NEW m \in Pos, n <= m, LoopOf(m) = l
       PROVE  /\ ~SameItem(i, m)
              /\ \A b \in Pos : b < i /\ LoopOf(b) = l /\ SameItem(b, m) => SameItem(b, i)
  <2>1. /\ plan[n].item <= plan[m].item /\ plan[m].item \in Nat /\ plan[n].item \in Nat
        /\ plan[i].item <= plan[n].item
    BY <1>3, <1>4, <1>5, <1>8, <1>9, <1>10, <1>11
  <2>2. plan[n].kind = "end" => m = n
    <3> SUFFICES ASSUME plan[n].kind = "end" PROVE m = n
      OBVIOUS
    <3>1. ~(n < EndOf(l))
      BY <1>4, <1>5, <1>10, LoopShape
    <3> QED
      BY <1>4, <1>5, <1>8, <1>10, <1>11, <3>1
  <2>3. ~SameItem(i, m)
    BY <1>4, <1>5, <2>1, <2>2 DEF SameItem
  <2>4. ASSUME NEW b \in Pos, b < i, LoopOf(b) = l, SameItem(b, m) PROVE SameItem(b, i)
    <3>1. plan[b].item <= plan[i].item /\ plan[b].item \in Nat
      BY <1>3, <1>4, <1>8, <1>9, <2>4
    <3> QED
      BY <1>4, <2>1, <2>4, <3>1 DEF SameItem
  <2> QED
    BY <2>3, <2>4
<1>12. ASSUME ~late, NEW b \in Pos, i < b, b < n PROVE ~Touched(rw, b)
  <2>1. SameItem(i, b) /\ LoopOf(b) = LoopOf(i)
    BY <1>3, <1>5, <1>12
  <2>2. CASE EndsItem(rw, i)
    BY <1>1, <1>3, <1>4, <1>12, <2>1, <2>2 DEF Halted
  <2>3. CASE \A m \in Pos : i <= m => ~Touched(rw, m)
    BY <1>4, <1>12, <2>3
  <2> QED
    BY <1>12, <2>2, <2>3
<1>13. ASSUME ~late PROVE Settled(rw, n, l)
  <2>1. /\ Clear(rw, i) /\ Shut(rw, i) /\ ~Opened(rw, i) /\ ~EndsLoop(rw, i)
    BY <1>13 DEF OnTrack
  <2>2. ASSUME NEW b \in Pos, b < n, b # l
        PROVE  ~EndsRun(rw, b) /\ ~Opened(rw, b)
    <3>1. CASE b < i
      BY <1>3, <2>1, <2>2, <3>1 DEF Clear, Shut
    <3>2. CASE b = i
      BY <2>1, <3>2 DEF EndsRun, IsTop
    <3>3. CASE i < b
      BY <1>12, <1>13, <2>2, <3>3, Blank
    <3> QED
      BY <1>4, <3>1, <3>2, <3>3
  <2>3. ASSUME NEW b \in Pos, b < n, LoopOf(b) = l
        PROVE  /\ ~EndsLoop(rw, b)
               /\ EndsItem(rw, b) => \A m \in Pos : n <= m /\ LoopOf(m) = l => ~SameItem(b, m)
    <3>1. CASE b < i
      <4>1. ~EndsLoop(rw, b) /\ (EndsItem(rw, b) => ~SameItem(b, i))
        BY <1>3, <1>4, <2>1, <2>3, <3>1 DEF Clear
      <4> QED
        BY <1>11, <2>3, <3>1, <4>1
    <3>2. CASE b = i
      BY <1>11, <2>1, <3>2
    <3>3. CASE i < b
      BY <1>12, <1>13, <2>3, <3>3, Blank
    <3> QED
      BY <1>4, <3>1, <3>2, <3>3
  <2> QED
    BY <2>2, <2>3 DEF Settled
<1>14. ASSUME ~late, d.exec < MaxExecuted PROVE Gap(rw, n)
  <2>1. d.exec \in Nat /\ MaxExecuted \in Nat
    BY RunAssumption DEF Driver
  <2>2. EndsItem(rw, i)
    BY <1>14, <2>1
  <2>3. Touched(rw, i) /\ Gap(rw, i)
    BY <1>1, <1>4, <2>2, Blank DEF Gapless
  <2> SUFFICES ASSUME NEW b \in DOMAIN plan, b < n, ~Touched(rw, b) PROVE Passed(rw, b)
    BY DEF Gap
  <2>4. CASE b < i
    BY <2>3, <2>4 DEF Gap
  <2>5. CASE i < b
    <3>1. b \in Pos /\ LoopOf(b) = l /\ SameItem(i, b)
      BY <1>5, <2>5, Order
    <3>2. ~Clear(rw, b)
      BY <1>3, <1>4, <2>2, <2>5, <3>1 DEF Clear
    <3> QED
      BY <3>2 DEF Passed
  <2>6. b < i \/ i < b
    <3>1. b \in Nat /\ b # i
      BY <2>3, Order
    <3> QED
      BY <1>4, <3>1
  <2> QED
    BY <2>4, <2>5, <2>6
<1>15. \A m \in Pos : n <= m /\ Touched(rw, m) => m \in d.prior
  BY <1>4, <1>5, <1>10
<1> QED
  BY <1>1, <1>2, <1>7, <1>13, <1>14, <1>15, Arrive

\* What ends the item of a step behind i ends the item of i.
LEMMA Ascends ==
    ASSUME TypeOK, NEW i \in Pos, plan[i].kind # "end", LoopOf(i) # 0,
           NEW b \in Pos, NEW m \in Pos, b < i, i < m, LoopOf(b) = LoopOf(i), LoopOf(m) = LoopOf(i),
           SameItem(b, m)
    PROVE  SameItem(b, i)
<1>1. plan[b].item <= plan[i].item /\ plan[i].item <= plan[m].item
  BY BodyShape
<1>2. plan[b].item \in Nat /\ plan[i].item \in Nat /\ plan[m].item \in Nat
  BY BodyShape
<1> QED
  BY <1>1, <1>2 DEF SameItem

\* A failed step; at a boundary, one that may not start any more.
LEMMA FailingPath ==
    ASSUME TypeOK, NEW rw, NEW late, RowsOK(rw, late), SameData(rw),
           NEW d \in Driver, \A m \in d.prior : Touched(rw, m),
           NEW i \in DOMAIN plan, plan[i].kind # "end", OnTrack(rw, late, i),
           ~late => \/ rw[i].st = "failed"
                    \/ d.exec >= MaxExecuted /\ \A m \in Pos : i <= m => ~Touched(rw, m),
           \A m \in Pos : i < m /\ LoopOf(i) # 0 /\ Touched(rw, m) => m \in d.prior
    PROVE  PathOK(Failing(d, i), rw, late)
<1>1. PICK l : l = plan[i].loop /\ l = LoopOf(i)
  BY DEF LoopOf
<1>2. CASE l = 0
  <2>1. Failing(d, i) = [d EXCEPT !.pc = "settle", !.res = "failed"]
    BY <1>1, <1>2 DEF Failing, Settling
  <2>2. Failing(d, i).pc = "settle" /\ Failing(d, i).prior = d.prior
    BY <2>1 DEF Driver
  <2> QED
    BY <2>2 DEF PathOK, OnStep, Working, Calling, OnChild
<1>3. CASE l # 0 /\ plan[l].halt
  <2>1. Failing(d, i) = [d EXCEPT !.pos = l, !.pc = "fin", !.res = "failed"]
    BY <1>1, <1>3 DEF Failing
  <2>2. PICK e : e = Failing(d, i)
    OBVIOUS
  <2>3. e.pc = "fin" /\ e.pos = l /\ e.res = "failed" /\ e.prior = d.prior
    BY <2>1, <2>2 DEF Driver
  <2>4. l \in Pos /\ l < i /\ LoopOf(l) = 0 /\ i \in Nat /\ l \in Nat /\ i \in Pos /\ Pos \subseteq Nat
    BY <1>1, <1>3, Order
  <2>5. rw[l].st = "running" /\ Opened(rw, l)
    BY <1>1, <1>3 DEF OnTrack, Framed, Opened
  <2>6. OnTrack(rw, late, l)
    <3>1. ASSUME Clear(rw, i), Shut(rw, i) PROVE Clear(rw, l) /\ Shut(rw, l)
      <4>1. \A b \in Pos : b < l => b < i /\ b # l
        BY <2>4
      <4> QED
        BY <1>1, <2>4, <3>1, <4>1 DEF Clear, Shut
    <3> QED
      BY <2>4, <3>1 DEF OnTrack, Framed
  <2>7. AtRow(e, rw, late)
    BY <2>3, <2>5, <2>6 DEF AtRow, Trying, Calling, OnChild
  <2> QED
    BY <2>2, <2>3, <2>7 DEF PathOK, OnStep, Working, Calling, OnChild
<1>4. CASE l # 0 /\ ~plan[l].halt
  <2>1. Failing(d, i) = Onward(d, NextItem(i))
    BY <1>1, <1>4 DEF Failing
  <2>2. ASSUME ~late
        PROVE  /\ ~Opened(rw, i) /\ ~EndsLoop(rw, i)
               /\ \/ EndsItem(rw, i)
                  \/ d.exec >= MaxExecuted /\ \A m \in Pos : i <= m => ~Touched(rw, m)
    <3>1. CASE rw[i].st = "failed"
      BY <1>1, <1>4, <3>1 DEF Opened, EndsLoop, EndsItem
    <3>2. CASE d.exec >= MaxExecuted /\ \A m \in Pos : i <= m => ~Touched(rw, m)
      <4>1. ~Touched(rw, i)
        BY <3>2, Order
      <4> QED
        BY <3>2, <4>1, Blank
    <3> QED
      BY <2>2, <3>1, <3>2
  <2>3. \A m \in Pos : i < m /\ Touched(rw, m) => m \in d.prior
    BY <1>1, <1>4
  <2> QED
    BY <1>1, <1>4, <2>1, <2>2, <2>3, NextItemPath
<1> QED
  BY <1>2, <1>3, <1>4

\* A filter that was recorded false.
LEMMA FencingPath ==
    ASSUME TypeOK, NEW late, RowsOK(row, late),
           NEW d \in Driver, \A m \in d.prior : Touched(row, m),
           NEW i \in DOMAIN plan, OnTrack(row, late, i), Skips(row, i),
           \A m \in Pos : i < m /\ Touched(row, m) => m \in d.prior
    PROVE  PathOK(Fencing(d, i), row, late)
<1>1. plan[i].kind = "filter" /\ row[i].st = "succeeded" /\ plan[i].kind # "end"
  BY DEF Skips
<1>2. CASE plan[i].loop # 0
  <2>1. Fencing(d, i) = Onward(d, NextItem(i))
    BY <1>2 DEF Fencing
  <2>2. ~Opened(row, i) /\ ~EndsLoop(row, i) /\ EndsItem(row, i)
    BY <1>1 DEF Opened, EndsLoop, EndsItem
  <2>3. SameData(row)
    BY DEF SameData
  <2> QED
    BY <1>1, <1>2, <2>1, <2>2, <2>3, NextItemPath
<1>3. CASE plan[i].loop = 0
  <2>1. Fencing(d, i) = [d EXCEPT !.pc = "skip", !.pos = NextTop(i)]
    BY <1>3 DEF Fencing
  <2>2. PICK e : e = Fencing(d, i)
    OBVIOUS
  <2>3. e.pc = "skip" /\ e.pos = NextTop(i) /\ e.prior = d.prior
    BY <2>1, <2>2 DEF Driver
  <2>4. i \in 1 .. MaxLen + 1 /\ i <= Len /\ i \in Pos
    BY Order
  <2>5. /\ i < NextTop(i)
        /\ NextTop(i) \in DOMAIN plan => plan[NextTop(i)].loop = 0 /\ plan[NextTop(i)].lane = 0
    BY <2>4, NextTopShape
  <2>6. FilteredOut(row, NextTop(i))
    BY <1>3, <2>4, <2>5 DEF FilteredOut, IsTop
  <2> QED
    BY <2>2, <2>3, <2>5, <2>6 DEF PathOK, OnStep, Working, Calling, OnChild
<1> QED
  BY <1>2, <1>3

\* Past a loop that succeeded.
LEMMA LoopPassed ==
    ASSUME TypeOK, NEW late, RowsOK(row, late),
           NEW d \in Driver, \A m \in d.prior : Touched(row, m),
           NEW i \in DOMAIN plan, plan[i].kind = "loop", OnTrack(row, late, i),
           row[i].st = "succeeded",
           \A m \in Pos : i < m /\ Touched(row, m) => m \in d.prior \/ LoopOf(m) = i
    PROVE  PathOK(Onward(d, EndOf(i) + 1), row, late)
<1>1. PICK e : e = EndOf(i)
  OBVIOUS
<1>2. /\ i \in Pos /\ IsLoop(i) /\ LoopOf(i) = 0 /\ e \in 1 .. Len /\ i < e /\ i \in Nat
      /\ Len \in Nat /\ Pos \subseteq Nat /\ DOMAIN plan \subseteq Pos /\ 0 \notin Pos
      /\ \A k \in Pos : LoopOf(k) = i <=> i < k /\ k <= e
  BY <1>1, Order, LoopShape DEF IsLoop
<1>3. Placed(row) /\ Gapless(row) /\ SameData(row) /\ (~late => Bodies(row))
  BY DEF RowsOK, SameData
<1>4. Inside(row, e + 1, 0)
  <2> SUFFICES ASSUME NEW m \in Pos, IsLoop(m), m < e + 1 PROVE EndOf(m) < e + 1
    BY <1>2 DEF Inside
  <2>1. EndOf(m) \in Nat /\ m \in Nat /\ LoopOf(m) = 0
    BY <1>2, LoopShape
  <2>2. m <= i
    BY <1>2, <2>1
  <2>3. ~(m < i /\ i <= EndOf(m))
    <3>1. m # 0 /\ LoopOf(i) # m
      BY <1>2
    <3> QED
      BY <1>2, <3>1, LoopShape
  <2> QED
    BY <1>1, <1>2, <2>1, <2>2, <2>3
<1>5. ASSUME ~late PROVE Settled(row, e + 1, 0)
  <2> SUFFICES ASSUME NEW b \in Pos, b < e + 1 PROVE ~EndsRun(row, b) /\ ~Opened(row, b)
    BY DEF Settled
  <2>1. CASE b < i
    BY <1>2, <1>5, <2>1 DEF OnTrack, Clear, Shut
  <2>2. CASE b = i
    BY <2>2 DEF EndsRun, Skips, Opened
  <2>3. CASE i < b
    <3>1. LoopOf(b) = i
      BY <1>2, <2>3
    <3> QED
      BY <1>2, <1>3, <1>5, <3>1 DEF EndsRun, IsTop, LoopOf, Bodies
  <2> QED
    BY <1>2, <2>1, <2>2, <2>3
<1>6. Gap(row, e + 1)
  <2>1. Touched(row, i)
    BY DEF Touched
  <2> SUFFICES ASSUME NEW b \in DOMAIN plan, b < e + 1, ~Touched(row, b) PROVE Passed(row, b)
    BY DEF Gap
  <2>2. CASE b < i
    BY <1>2, <1>3, <2>1, <2>2 DEF Gapless, Gap
  <2>3. CASE i < b
    <3>1. LoopOf(b) = i
      BY <1>2, <2>3
    <3>2. ~Framed(row, b)
      BY <1>2, <3>1 DEF Framed
    <3> QED
      BY <3>2 DEF Passed
  <2>4. b < i \/ i < b
    <3>1. b \in Nat /\ b # i
      BY <1>2, <2>1
    <3> QED
      BY <1>2, <3>1
  <2> QED
    BY <2>2, <2>3, <2>4
<1>7. \A m \in Pos : e + 1 <= m /\ Touched(row, m) => m \in d.prior
  BY <1>2
<1> QED
  BY <1>1, <1>3, <1>4, <1>5, <1>6, <1>7, Arrive

\* Past another step that succeeded and ends nothing.
LEMMA LeafPassed ==
    ASSUME TypeOK, NEW late, RowsOK(row, late),
           NEW d \in Driver, \A m \in d.prior : Touched(row, m),
           NEW i \in DOMAIN plan, plan[i].kind \notin {"loop", "end"}, OnTrack(row, late, i),
           row[i].st = "succeeded", ~Skips(row, i),
           \A m \in Pos : i < m /\ Touched(row, m) => m \in d.prior
    PROVE  PathOK(Onward(d, i + 1), row, late)
<1>1. PICK l : l = LoopOf(i)
  OBVIOUS
<1>2. /\ i \in Pos /\ i \in Nat /\ i \in 1 .. Len /\ Len \in Nat /\ Pos \subseteq Nat /\ DOMAIN plan \subseteq Pos
  BY Order
<1>3. Placed(row) /\ Gapless(row) /\ SameData(row)
  BY DEF RowsOK, SameData
<1>4. Inside(row, i + 1, l)
  <2>1. CASE l = 0
    <3> SUFFICES ASSUME NEW m \in Pos, IsLoop(m), m < i + 1 PROVE EndOf(m) < i + 1
      BY <1>2, <2>1 DEF Inside
    <3>1. EndOf(m) \in Nat /\ m \in Nat /\ m # 0 /\ m # i
      BY <1>2, LoopShape, Order DEF IsLoop
    <3>2. LoopOf(i) = m <=> m < i /\ i <= EndOf(m)
      BY <1>2, LoopShape
    <3> QED
      BY <1>1, <1>2, <2>1, <3>1, <3>2
  <2>2. CASE l # 0
    <3>1. l \in Pos /\ IsLoop(l) /\ l < i /\ i <= EndOf(l) /\ EndOf(l) \in Nat /\ plan[EndOf(l)].kind = "end"
      BY <1>1, <2>2, Order, LoopShape
    <3>2. i # EndOf(l)
      BY <3>1
    <3>3. row[l].st = "running"
      BY <1>1, <2>2 DEF OnTrack, Framed
    <3> QED
      BY <1>2, <2>2, <3>1, <3>2, <3>3 DEF Inside
  <2> QED
    BY <2>1, <2>2
<1>5. ASSUME ~late PROVE Settled(row, i + 1, l)
  <2>1. Clear(row, i) /\ Shut(row, i)
    BY <1>5 DEF OnTrack
  <2>2. ~EndsRun(row, i) /\ ~EndsLoop(row, i) /\ ~EndsItem(row, i) /\ ~Opened(row, i)
    BY DEF EndsRun, EndsLoop, EndsItem, Opened
  <2>3. ASSUME NEW b \in Pos, b < i + 1, b # l PROVE ~EndsRun(row, b) /\ ~Opened(row, b)
    <3>1. b < i \/ b = i
      BY <1>2, <2>3
    <3> QED
      BY <1>1, <2>1, <2>2, <2>3, <3>1 DEF Clear, Shut
  <2>4. ASSUME l # 0, NEW b \in Pos, b < i + 1, LoopOf(b) = l
        PROVE  /\ ~EndsLoop(row, b)
               /\ EndsItem(row, b) => \A m \in Pos : i + 1 <= m /\ LoopOf(m) = l => ~SameItem(b, m)
    <3>1. CASE b = i
      BY <2>2, <3>1
    <3>2. CASE b < i
      <4>1. ~EndsLoop(row, b) /\ (EndsItem(row, b) => ~SameItem(b, i))
        BY <1>1, <2>1, <2>4, <3>2 DEF Clear
      <4>2. \A m \in Pos : i + 1 <= m => i < m
        BY <1>2
      <4>3. \A m \in Pos : i + 1 <= m /\ LoopOf(m) = l /\ SameItem(b, m) => SameItem(b, i)
        BY <1>1, <1>2, <2>4, <3>2, <4>2, Ascends
      <4> QED
        BY <4>1, <4>3
    <3>3. b < i \/ b = i
      BY <1>2, <2>4
    <3> QED
      BY <3>1, <3>2, <3>3
  <2> QED
    BY <2>3, <2>4 DEF Settled
<1>6. Gap(row, i + 1)
  <2>1. Touched(row, i)
    BY DEF Touched
  <2> SUFFICES ASSUME NEW b \in DOMAIN plan, b < i + 1, ~Touched(row, b) PROVE Passed(row, b)
    BY DEF Gap
  <2>2. b < i
    <3>1. b \in Nat /\ b # i
      BY <1>2, <2>1
    <3> QED
      BY <1>2, <3>1
  <2> QED
    BY <1>2, <1>3, <2>1, <2>2 DEF Gapless, Gap
<1>7. \A m \in Pos : i + 1 <= m /\ Touched(row, m) => m \in d.prior
  BY <1>2
<1> QED
  BY <1>3, <1>4, <1>5, <1>6, <1>7, Arrive

\* On from a step whose row has ended.
LEMMA PassingPath ==
    ASSUME TypeOK, NEW late, RowsOK(row, late),
           NEW d \in Driver, \A m \in d.prior : Touched(row, m),
           NEW i \in DOMAIN plan, plan[i].kind # "end", OnTrack(row, late, i),
           row[i].st = d.res, d.res \in {"succeeded", "failed"},
           \A m \in Pos : i < m /\ Touched(row, m) => m \in d.prior \/ (IsLoop(i) /\ LoopOf(m) = i)
    PROVE  PathOK(Passing(d, i), row, late)
<1>1. SameData(row) /\ (IsLoop(i) <=> plan[i].kind = "loop") /\ (Dropped(i) <=> Skips(row, i))
  BY DEF SameData, IsLoop, Dropped, Skips
<1>2. IsLoop(i) => LoopOf(i) = 0
  BY Order, LoopShape
<1>3. CASE d.res = "failed"
  <2>1. Passing(d, i) = Failing(d, i)
    BY <1>3 DEF Passing
  <2>2. \A m \in Pos : i < m /\ LoopOf(i) # 0 /\ Touched(row, m) => m \in d.prior
    BY <1>2
  <2> QED
    BY <1>1, <1>3, <2>1, <2>2, FailingPath
<1>4. CASE d.res = "succeeded" /\ Dropped(i)
  <2>1. Passing(d, i) = Fencing(d, i)
    BY <1>4 DEF Passing
  <2>2. \A m \in Pos : i < m /\ Touched(row, m) => m \in d.prior
    BY <1>1, <1>4 DEF Skips
  <2> QED
    BY <1>1, <1>4, <2>1, <2>2, FencingPath
<1>5. CASE d.res = "succeeded" /\ ~Dropped(i) /\ plan[i].kind = "loop"
  <2>1. Passing(d, i) = Onward(d, EndOf(i) + 1)
    BY <1>5 DEF Passing
  <2> QED
    BY <1>5, <2>1, LoopPassed
<1>6. CASE d.res = "succeeded" /\ ~Dropped(i) /\ plan[i].kind # "loop"
  <2>1. Passing(d, i) = Onward(d, i + 1)
    BY <1>6 DEF Passing
  <2> QED
    BY <1>1, <1>6, <2>1, LeafPassed
<1> QED
  BY <1>3, <1>4, <1>5, <1>6

\* A cancellation closes the loop it leaves.
LEMMA CancelingPath ==
    ASSUME TypeOK, NEW rw, NEW late, NEW d \in Driver, \A m \in d.prior : Touched(rw, m),
           NEW i \in DOMAIN plan, \A m \in Pos : m # i => rw[m] = row[m]
    PROVE  PathOK(Canceling(d, i), rw, late)
<1>1. PICK l : l = plan[i].loop /\ l = LoopOf(i)
  BY DEF LoopOf
<1>2. CASE l # 0 /\ plan[i].kind # "end" /\ row[l].st = "running"
  <2>1. Canceling(d, i) = [d EXCEPT !.pc = "cancelrow", !.pos = l]
    BY <1>1, <1>2 DEF Canceling
  <2>2. PICK e : e = Canceling(d, i)
    OBVIOUS
  <2>3. e.pc = "cancelrow" /\ e.pos = l /\ e.prior = d.prior
    BY <2>1, <2>2 DEF Driver
  <2>4. l \in Pos /\ l # i
    BY <1>1, <1>2, Order
  <2>5. Opened(rw, l)
    BY <1>2, <2>4 DEF Opened
  <2> QED
    BY <2>2, <2>3, <2>5 DEF PathOK, OnStep, Working, Calling, OnChild
<1>3. CASE ~(l # 0 /\ plan[i].kind # "end" /\ row[l].st = "running")
  <2>1. Canceling(d, i) = [d EXCEPT !.pc = "settle", !.res = "canceled"]
    BY <1>1, <1>3 DEF Canceling, Settling
  <2>2. Canceling(d, i).pc = "settle" /\ Canceling(d, i).prior = d.prior
    BY <2>1 DEF Driver
  <2> QED
    BY <2>2 DEF PathOK, OnStep, Working, Calling, OnChild
<1> QED
  BY <1>2, <1>3

-----------------------------------------------------------------------------
(* The writes to the rows.                                                 *)

\* What row m says is the same in rw and rx.
LEMMA SameRow ==
    ASSUME NEW rw, NEW rx, NEW m, rx[m] = rw[m]
    PROVE  /\ Touched(rx, m) <=> Touched(rw, m)
           /\ Opened(rx, m) <=> Opened(rw, m)
           /\ EndsRun(rx, m) <=> EndsRun(rw, m)
           /\ EndsLoop(rx, m) <=> EndsLoop(rw, m)
           /\ EndsItem(rx, m) <=> EndsItem(rw, m)
           /\ Skips(rx, m) <=> Skips(rw, m)
  BY DEF Touched, Opened, EndsRun, EndsLoop, EndsItem, Skips

\* A claim opens a row behind which there is none.
LEMMA ClaimedRows ==
    ASSUME TypeOK, NEW rw, NEW rx, NEW late, RowsOK(rw, late),
           NEW i \in DOMAIN plan, plan[i].kind # "end",
           \A m \in Pos : i <= m => ~Touched(rw, m),
           AppliesIn(rw, i), Framed(rw, i), Clear(rw, i), Shut(rw, i), Gap(rw, i),
           rx[i].st = "running", rx[i].out = 0, \A m \in Pos : m # i => rx[m] = rw[m]
    PROVE  RowsOK(rx, late)
<1>1. /\ i \in Pos /\ i \in Nat /\ Pos \subseteq Nat /\ DOMAIN plan \subseteq Pos
      /\ \A m \in Pos : m < i => rx[m] = rw[m]
  BY Order
<1>2. Placed(rw) /\ Gapless(rw) /\ Frontier(rw) /\ Halted(rw) /\ Skipped(rw) /\ (~late => Bodies(rw))
  BY DEF RowsOK
<1>3. \A m \in Pos : Touched(rx, m) <=> m = i \/ (Touched(rw, m) /\ m < i)
  <2> TAKE m \in Pos
  <2>1. CASE m = i
    BY <2>1 DEF Touched
  <2>2. CASE m # i
    BY <1>1, <2>2, SameRow
  <2> QED
    BY <2>1, <2>2
<1>4. \A m \in Pos : m # i => /\ Opened(rx, m) <=> Opened(rw, m)
                              /\ EndsRun(rx, m) <=> EndsRun(rw, m)
                              /\ EndsLoop(rx, m) <=> EndsLoop(rw, m)
                              /\ EndsItem(rx, m) <=> EndsItem(rw, m)
                              /\ Skips(rx, m) <=> Skips(rw, m)
  BY SameRow
<1>5. \A m \in Pos : Opened(rx, m) => m = i \/ (Opened(rw, m) /\ m < i)
  <2> TAKE m \in Pos
  <2>1. CASE m # i
    BY <1>1, <1>4, <2>1, Blank
  <2> QED
    BY <2>1
<1>6. ~EndsRun(rx, i) /\ ~EndsLoop(rx, i) /\ ~EndsItem(rx, i) /\ ~Skips(rx, i)
  BY DEF EndsRun, EndsLoop, EndsItem, Skips
<1>7. \A k \in DOMAIN plan : k <= i =>
        /\ AppliesIn(rx, k) <=> AppliesIn(rw, k)
        /\ Passed(rx, k) <=> Passed(rw, k)
  <2> TAKE k \in DOMAIN plan
  <2> HAVE k <= i
  <2>1. k \in Nat /\ \A m \in Pos : m < k => rx[m] = rw[m]
    BY <1>1
  <2> QED
    BY <2>1, Before
<1>8. LoopOf(i) # 0 => LoopOf(i) \in Pos /\ LoopOf(i) < i /\ IsLoop(LoopOf(i)) /\ rw[LoopOf(i)].st = "running"
  BY Order DEF Framed
<1>9. Placed(rx)
  <2> SUFFICES ASSUME NEW m \in Pos
               PROVE  /\ Touched(rx, m) =>
                           /\ m \in DOMAIN plan /\ plan[m].kind # "end" /\ AppliesIn(rx, m)
                           /\ LoopOf(m) # 0 => Touched(rx, LoopOf(m))
                      /\ ~Touched(rx, m) => rx[m].out = 0
                      /\ IsLoop(m) => rx[m].st # "waiting" /\ rx[m].out = 0
    BY DEF Placed
  <2>1. CASE m = i
    BY <1>1, <1>3, <1>7, <1>8, <2>1 DEF Touched
  <2>2. CASE m # i
    <3>1. rx[m] = rw[m]
      BY <2>2
    <3>2. ASSUME Touched(rx, m)
          PROVE  /\ m \in DOMAIN plan /\ plan[m].kind # "end" /\ AppliesIn(rx, m)
                 /\ LoopOf(m) # 0 => Touched(rx, LoopOf(m))
      <4>1. Touched(rw, m) /\ m < i
        BY <1>3, <2>2, <3>2
      <4>2. /\ m \in DOMAIN plan /\ plan[m].kind # "end" /\ AppliesIn(rw, m)
            /\ LoopOf(m) # 0 => Touched(rw, LoopOf(m))
        BY <1>2, <4>1 DEF Placed
      <4>3. LoopOf(m) # 0 => LoopOf(m) \in Pos /\ LoopOf(m) < i
        BY <1>1, <4>1, Order
      <4> QED
        BY <1>1, <1>3, <1>7, <4>1, <4>2, <4>3
    <3>3. ~Touched(rx, m) => rx[m].out = 0
      BY <1>2, <3>1, SameRow DEF Placed
    <3>4. IsLoop(m) => rx[m].st # "waiting" /\ rx[m].out = 0
      BY <1>2, <3>1 DEF Placed
    <3> QED
      BY <3>2, <3>3, <3>4
  <2> QED
    BY <2>1, <2>2
<1>10. Gapless(rx)
  <2> SUFFICES ASSUME NEW j \in Pos, Touched(rx, j), NEW b \in DOMAIN plan, b < j, ~Touched(rx, b)
               PROVE  Passed(rx, b)
    BY DEF Gapless, Gap
  <2>1. b \in Pos /\ b \in Nat /\ j <= i /\ b < i /\ ~Touched(rw, b)
    BY <1>1, <1>3
  <2>2. Passed(rw, b)
    <3>1. CASE j = i
      BY <2>1, <3>1 DEF Gap
    <3>2. CASE j # i
      BY <1>2, <1>3, <2>1, <3>2 DEF Gapless, Gap
    <3> QED
      BY <3>1, <3>2
  <2> QED
    BY <1>1, <1>7, <2>1, <2>2
<1>11. Frontier(rx)
  <2> SUFFICES ASSUME NEW a \in Pos, NEW b \in Pos, a < b, Opened(rx, a), Touched(rx, b)
               PROVE  IsLoop(a) /\ LoopOf(b) = a
    BY DEF Frontier
  <2>1. a < i /\ Opened(rw, a)
    BY <1>1, <1>3, <1>5
  <2>2. CASE b = i
    BY <1>1, <1>8, <2>1, <2>2, Order DEF Shut
  <2>3. CASE b # i
    BY <1>2, <1>3, <2>1, <2>3 DEF Frontier
  <2> QED
    BY <2>2, <2>3
<1>12. ~late => Bodies(rx)
  <2> SUFFICES ASSUME ~late, NEW j \in Pos, Opened(rx, j), LoopOf(j) # 0
               PROVE  rx[LoopOf(j)].st # "succeeded"
    BY DEF Bodies
  <2>1. LoopOf(j) \in Pos /\ LoopOf(j) < j /\ j <= i
    BY <1>1, <1>5, Order
  <2>2. rx[LoopOf(j)] = rw[LoopOf(j)]
    BY <1>1, <2>1
  <2>3. CASE j = i
    BY <1>8, <2>2, <2>3
  <2>4. CASE j # i
    BY <1>2, <1>5, <2>2, <2>4 DEF Bodies
  <2> QED
    BY <2>3, <2>4
<1>13. Halted(rx)
  <2> SUFFICES ASSUME NEW a \in Pos, NEW b \in Pos, a < b, Touched(rx, b)
               PROVE  /\ EndsRun(rx, a) => LoopOf(b) = a \/ (Skips(rx, a) /\ rx[b].st = "skipped")
                      /\ LoopOf(a) # 0 /\ LoopOf(b) = LoopOf(a) =>
                           ~EndsLoop(rx, a) /\ (EndsItem(rx, a) => ~SameItem(a, b))
    BY DEF Halted
  <2>1. a < i /\ a # i /\ b <= i
    BY <1>1, <1>3
  <2>2. CASE b = i
    BY <1>4, <2>1, <2>2 DEF Clear
  <2>3. CASE b # i
    <3>1. Touched(rw, b) /\ rx[b] = rw[b]
      BY <1>3, <2>3
    <3>2. /\ EndsRun(rw, a) => LoopOf(b) = a \/ (Skips(rw, a) /\ rw[b].st = "skipped")
          /\ LoopOf(a) # 0 /\ LoopOf(b) = LoopOf(a) =>
               ~EndsLoop(rw, a) /\ (EndsItem(rw, a) => ~SameItem(a, b))
      BY <1>2, <3>1 DEF Halted
    <3> QED
      BY <1>4, <2>1, <3>1, <3>2
  <2> QED
    BY <2>2, <2>3
<1>14. Skipped(rx)
  <2> SUFFICES ASSUME NEW j \in Pos, rx[j].st = "skipped" PROVE FilteredOut(rx, j)
    BY DEF Skipped
  <2>1. FilteredOut(rw, j)
    BY <1>2 DEF Skipped
  <2>2. PICK f \in Pos : f < j /\ IsTop(f) /\ Skips(rw, f)
    BY <2>1 DEF FilteredOut
  <2>3. f # i
    BY <1>1, <2>2 DEF Skips, Touched
  <2> QED
    BY <1>4, <2>2, <2>3 DEF FilteredOut
<1> QED
  BY <1>9, <1>10, <1>11, <1>12, <1>13, <1>14 DEF RowsOK

\* Behind a filter that was recorded false nothing is open.
LEMMA NothingOpen ==
    ASSUME TypeOK, NEW rw, Frontier(rw), Halted(rw), NEW k, FilteredOut(rw, k), NEW m \in Pos
    PROVE  ~Opened(rw, m)
<1>1. PICK f \in Pos : IsTop(f) /\ Skips(rw, f)
  BY DEF FilteredOut
<1>2. /\ Touched(rw, f) /\ ~Opened(rw, f) /\ EndsRun(rw, f) /\ LoopOf(f) = 0 /\ ~IsLoop(f)
      /\ f \in Nat /\ m \in Nat /\ m # 0
  BY <1>1, Order DEF Touched, Opened, EndsRun, Skips, IsTop, LoopOf, IsLoop
<1>3. CASE m < f
  BY <1>2, <1>3 DEF Frontier
<1>4. CASE m > f
  <2> SUFFICES ASSUME Opened(rw, m) PROVE FALSE
    OBVIOUS
  <2>1. Touched(rw, m) /\ rw[m].st # "skipped"
    BY DEF Opened, Touched
  <2>2. LoopOf(m) = f
    BY <1>2, <1>4, <2>1 DEF Halted
  <2> QED
    BY <1>1, <1>2, <2>2, Order DEF Skips
<1> QED
  BY <1>2, <1>3, <1>4

\* A skip adds a row that ends nothing, behind all open ones.
LEMMA SkippedRows ==
    ASSUME TypeOK, NEW rw, NEW rx, NEW late, RowsOK(rw, late),
           NEW i \in DOMAIN plan, plan[i].loop = 0, plan[i].lane = 0, ~Touched(rw, i), FilteredOut(rw, i),
           rx[i].st = "skipped", rx[i].out = rw[i].out, \A m \in Pos : m # i => rx[m] = rw[m]
    PROVE  RowsOK(rx, late)
<1>1. /\ i \in Pos /\ i \in Nat /\ Pos \subseteq Nat /\ DOMAIN plan \subseteq Pos /\ LoopOf(i) = 0 /\ 0 \notin Pos
      /\ plan[i].kind # "end"
  BY Order, PlanFacts DEF LoopOf, WellNested
<1>2. Placed(rw) /\ Gapless(rw) /\ Frontier(rw) /\ Halted(rw) /\ Skipped(rw)
  BY DEF RowsOK
<1>3. \A m \in Pos : ~Opened(rw, m)
  BY <1>2, NothingOpen
<1>4. \A m \in Pos : /\ Opened(rx, m) <=> Opened(rw, m)
                     /\ EndsRun(rx, m) <=> EndsRun(rw, m)
                     /\ EndsItem(rx, m) <=> EndsItem(rw, m)
                     /\ EndsLoop(rx, m) <=> EndsLoop(rw, m)
                     /\ Skips(rx, m) <=> Skips(rw, m)
                     /\ Touched(rx, m) <=> m = i \/ Touched(rw, m)
  <2> TAKE m \in Pos
  <2>1. CASE m = i
    <3>1. /\ ~Opened(rx, i) /\ ~EndsRun(rx, i) /\ ~EndsItem(rx, i) /\ ~EndsLoop(rx, i) /\ ~Skips(rx, i)
          /\ Touched(rx, i)
      BY DEF Opened, EndsRun, EndsItem, EndsLoop, Skips, Touched
    <3>2. ~Skips(rw, i)
      BY DEF Skips, Touched
    <3> QED
      BY <2>1, <3>1, <3>2, Blank
  <2>2. CASE m # i
    BY <2>2, SameRow
  <2> QED
    BY <2>1, <2>2
<1>5. \A m \in Pos : rx[m].out = rw[m].out /\ (rx[m].st = "running" <=> rw[m].st = "running")
                     /\ (rw[m].inp = rx[m].inp \/ ~IsLoop(m) \/ m = i)
  BY DEF Touched
<1>6. \A k \in DOMAIN plan : Passed(rw, k) => Passed(rx, k)
  <2> SUFFICES ASSUME NEW k \in DOMAIN plan, AppliesIn(rx, k), Framed(rx, k), Clear(rx, k)
               PROVE  AppliesIn(rw, k) /\ Framed(rw, k) /\ Clear(rw, k)
    BY DEF Passed
  <2>1. plan[k].loop # 0 => plan[k].loop \in Pos /\ plan[k].loop = LoopOf(k)
    BY Order DEF LoopOf
  <2>2. plan[k].lane # 0 => plan[k].lane \in Pos
    BY Order
  <2>3. Framed(rw, k) /\ Clear(rw, k)
    BY <1>4, <1>5, <2>1, Order DEF Framed, Clear
  <2>4. plan[k].loop # 0 => plan[k].loop # i
    BY <2>1 DEF Framed
  <2> QED
    BY <1>5, <2>1, <2>2, <2>3, <2>4 DEF AppliesIn
<1>7. Placed(rx)
  <2> SUFFICES ASSUME NEW m \in Pos
               PROVE  /\ Touched(rx, m) =>
                           /\ m \in DOMAIN plan /\ plan[m].kind # "end" /\ AppliesIn(rx, m)
                           /\ LoopOf(m) # 0 => Touched(rx, LoopOf(m))
                      /\ ~Touched(rx, m) => rx[m].out = 0
                      /\ IsLoop(m) => rx[m].st # "waiting" /\ rx[m].out = 0
    BY DEF Placed
  <2>1. CASE m = i
    <3>1. AppliesIn(rx, i)
      BY DEF AppliesIn
    <3> QED
      BY <1>1, <1>2, <1>4, <2>1, <3>1 DEF Placed
  <2>2. CASE m # i
    <3>1. ASSUME Touched(rw, m) PROVE AppliesIn(rx, m)
      <4>1. m \in DOMAIN plan /\ AppliesIn(rw, m) /\ (LoopOf(m) # 0 => Touched(rw, LoopOf(m)))
        BY <1>2, <3>1 DEF Placed
      <4>2. plan[m].loop # 0 => plan[m].loop \in Pos /\ plan[m].loop # i /\ rx[plan[m].loop] = rw[plan[m].loop]
        BY <4>1, Order DEF LoopOf
      <4>3. plan[m].lane # 0 => plan[m].lane \in Pos
        BY <4>1, Order
      <4> QED
        BY <1>5, <4>1, <4>2, <4>3 DEF AppliesIn
    <3>2. /\ Touched(rw, m) => /\ m \in DOMAIN plan /\ plan[m].kind # "end"
                               /\ LoopOf(m) # 0 => Touched(rw, LoopOf(m))
          /\ ~Touched(rw, m) => rw[m].out = 0
          /\ IsLoop(m) => rw[m].st # "waiting" /\ rw[m].out = 0
      BY <1>2 DEF Placed
    <3> QED
      BY <1>4, <2>2, <3>1, <3>2, Order
  <2> QED
    BY <2>1, <2>2
<1>8. Gapless(rx)
  <2> SUFFICES ASSUME NEW j \in Pos, Touched(rx, j), NEW b \in DOMAIN plan, b < j, ~Touched(rx, b)
               PROVE  Passed(rx, b)
    BY DEF Gapless, Gap
  <2>1. b \in Pos /\ ~Touched(rw, b) /\ b \in Nat
    BY <1>1, <1>4
  <2>2. CASE j # i
    BY <1>2, <1>4, <1>6, <2>1, <2>2 DEF Gapless, Gap
  <2>3. CASE j = i
    <3>1. PICK f \in Pos : IsTop(f) /\ Skips(rw, f)
      BY DEF FilteredOut
    <3>2. Touched(rw, f) /\ EndsRun(rx, f) /\ f \in Nat /\ plan[f].kind = "filter" /\ b # f
      BY <1>1, <1>4, <2>1, <3>1 DEF Touched, EndsRun, Skips
    <3>3. CASE b < f
      BY <1>2, <1>6, <2>1, <3>2, <3>3 DEF Gapless, Gap
    <3>4. CASE f < b
      <4>1. f # LoopOf(b)
        BY <1>1, <3>2, Order
      <4>2. ~Clear(rx, b)
        BY <3>2, <3>4, <4>1 DEF Clear
      <4> QED
        BY <4>2 DEF Passed
    <3>5. b < f \/ f < b
      BY <2>1, <3>2
    <3> QED
      BY <3>3, <3>4, <3>5
  <2> QED
    BY <2>2, <2>3
<1>9. Frontier(rx) /\ Bodies(rx)
  BY <1>3, <1>4 DEF Frontier, Bodies
<1>10. Halted(rx)
  <2> SUFFICES ASSUME NEW a \in Pos, NEW b \in Pos, a < b, Touched(rx, b)
               PROVE  /\ EndsRun(rx, a) => LoopOf(b) = a \/ (Skips(rx, a) /\ rx[b].st = "skipped")
                      /\ LoopOf(a) # 0 /\ LoopOf(b) = LoopOf(a) =>
                           ~EndsLoop(rx, a) /\ (EndsItem(rx, a) => ~SameItem(a, b))
    BY DEF Halted
  <2>1. CASE b = i
    <3>1. ASSUME EndsRun(rw, a) PROVE Skips(rw, a)
      <4>1. PICK f \in Pos : IsTop(f) /\ Skips(rw, f)
        BY DEF FilteredOut
      <4>2. /\ Touched(rw, f) /\ EndsRun(rw, f) /\ f \in Nat /\ plan[f].kind = "filter"
            /\ LoopOf(f) = 0 /\ rw[f].st # "skipped" /\ a \in Nat /\ a # 0
        BY <1>1, <4>1 DEF Touched, EndsRun, Skips, IsTop, LoopOf
      <4>3. CASE a < f
        BY <1>2, <3>1, <4>2, <4>3 DEF Halted
      <4>4. CASE f < a
        <5>1. Touched(rw, a)
          BY <3>1, Blank
        <5>2. LoopOf(a) = f \/ rw[a].st = "skipped"
          BY <1>2, <4>2, <4>4, <5>1 DEF Halted
        <5>3. LoopOf(a) # f
          BY <1>1, <4>2, Order
        <5> QED
          BY <3>1, <5>2, <5>3 DEF EndsRun
      <4> QED
        BY <4>1, <4>2, <4>3, <4>4
    <3> QED
      BY <1>1, <1>4, <2>1, <3>1
  <2>2. CASE b # i
    <3>1. Touched(rw, b) /\ rx[b] = rw[b]
      BY <1>4, <2>2
    <3>2. /\ EndsRun(rw, a) => LoopOf(b) = a \/ (Skips(rw, a) /\ rw[b].st = "skipped")
          /\ LoopOf(a) # 0 /\ LoopOf(b) = LoopOf(a) =>
               ~EndsLoop(rw, a) /\ (EndsItem(rw, a) => ~SameItem(a, b))
      BY <1>2, <3>1 DEF Halted
    <3> QED
      BY <1>4, <3>1, <3>2
  <2> QED
    BY <2>1, <2>2
<1>11. Skipped(rx)
  BY <1>2, <1>4 DEF Skipped, FilteredOut
<1> QED
  BY <1>7, <1>8, <1>9, <1>10, <1>11 DEF RowsOK

\* An open row ends: what was passed over stays passed over.
LEMMA ClosedRows ==
    ASSUME TypeOK, NEW rw, NEW rx, NEW late, RowsOK(rw, late),
           NEW i \in Pos, Opened(rw, i), rx[i].st \in Terminal, rx[i].inp = rw[i].inp,
           IsLoop(i) => rx[i].out = rw[i].out, \A m \in Pos : m # i => rx[m] = rw[m],
           ~late /\ IsLoop(i) /\ rx[i].st = "succeeded" =>
               \A m \in Pos : LoopOf(m) = i => ~Opened(rw, m)
    PROVE  RowsOK(rx, late)
<1>1. /\ i \in Nat /\ Pos \subseteq Nat /\ DOMAIN plan \subseteq Pos /\ 0 \notin Pos
  BY Order
<1>2. Placed(rw) /\ Gapless(rw) /\ Frontier(rw) /\ Halted(rw) /\ Skipped(rw) /\ (~late => Bodies(rw))
  BY DEF RowsOK
<1>3. /\ ~Opened(rx, i) /\ Touched(rx, i) /\ Touched(rw, i) /\ ~EndsRun(rw, i) /\ ~EndsItem(rw, i)
      /\ ~EndsLoop(rw, i) /\ ~Skips(rw, i) /\ rw[i].st # "skipped" /\ rx[i].st \notin {"running", "waiting"}
  BY DEF Opened, Touched, Terminal, EndsRun, EndsItem, EndsLoop, Skips
<1>4. \A m \in Pos : m # i => /\ Opened(rx, m) <=> Opened(rw, m)
                              /\ EndsRun(rx, m) <=> EndsRun(rw, m)
                              /\ EndsItem(rx, m) <=> EndsItem(rw, m)
                              /\ EndsLoop(rx, m) <=> EndsLoop(rw, m)
                              /\ Skips(rx, m) <=> Skips(rw, m)
                              /\ Touched(rx, m) <=> Touched(rw, m)
  BY SameRow
<1>5. \A m \in Pos : /\ Touched(rx, m) <=> Touched(rw, m)
                     /\ Opened(rx, m) => Opened(rw, m)
                     /\ EndsRun(rw, m) => EndsRun(rx, m)
                     /\ EndsItem(rw, m) => EndsItem(rx, m)
                     /\ EndsLoop(rw, m) => EndsLoop(rx, m)
                     /\ Skips(rw, m) => Skips(rx, m)
  BY <1>3, <1>4
<1>6. \A m \in Pos : i < m /\ Touched(rw, m) => IsLoop(i) /\ LoopOf(m) = i
  BY <1>2 DEF Frontier
<1>7. \A k \in DOMAIN plan : k <= i \/ IsLoop(i) => (AppliesIn(rx, k) <=> AppliesIn(rw, k))
  <2> TAKE k \in DOMAIN plan
  <2> HAVE k <= i \/ IsLoop(i)
  <2>1. plan[k].loop # 0 => plan[k].loop \in Pos
    BY Order DEF LoopOf
  <2>2. plan[k].lane # 0 => plan[k].lane \in Pos /\ plan[k].lane < k
    BY Order
  <2>3. \A m \in Pos : rx[m].inp = rw[m].inp
    OBVIOUS
  <2>4. plan[k].lane # 0 => rx[plan[k].lane].out = rw[plan[k].lane].out
    <3>1. plan[k].lane = i => IsLoop(i)
      <4>1. k \in Nat
        BY Order
      <4>2. plan[k].lane = i => i < k
        BY <1>1, <2>2
      <4> QED
        BY <1>1, <4>1, <4>2
    <3> QED
      BY <2>2, <3>1
  <2> QED
    BY <2>1, <2>3, <2>4 DEF AppliesIn
<1>8. \A j \in Pos : Touched(rw, j) => j <= i \/ IsLoop(i)
  BY <1>1, <1>6
<1>9. Placed(rx)
  <2> SUFFICES ASSUME NEW m \in Pos
               PROVE  /\ Touched(rx, m) =>
                           /\ m \in DOMAIN plan /\ plan[m].kind # "end" /\ AppliesIn(rx, m)
                           /\ LoopOf(m) # 0 => Touched(rx, LoopOf(m))
                      /\ ~Touched(rx, m) => rx[m].out = 0
                      /\ IsLoop(m) => rx[m].st # "waiting" /\ rx[m].out = 0
    BY DEF Placed
  <2>1. /\ Touched(rw, m) =>
             /\ m \in DOMAIN plan /\ plan[m].kind # "end" /\ AppliesIn(rw, m)
             /\ LoopOf(m) # 0 => Touched(rw, LoopOf(m))
        /\ ~Touched(rw, m) => rw[m].out = 0
        /\ IsLoop(m) => rw[m].st # "waiting" /\ rw[m].out = 0
    BY <1>2 DEF Placed
  <2>2. IsLoop(m) => rx[m].st # "waiting" /\ rx[m].out = 0
    BY <1>3, <2>1
  <2>3. ~Touched(rx, m) => rx[m].out = 0
    BY <1>3, <1>5, <2>1
  <2> QED
    BY <1>5, <1>7, <1>8, <2>1, <2>2, <2>3, Order
<1>10. Gapless(rx)
  <2> SUFFICES ASSUME NEW j \in Pos, Touched(rx, j), NEW b \in DOMAIN plan, b < j, ~Touched(rx, b)
               PROVE  Passed(rx, b)
    BY DEF Gapless, Gap
  <2>1. b \in Pos /\ ~Touched(rw, b) /\ Touched(rw, j) /\ b \in Nat /\ j \in Nat
    BY <1>1, <1>5
  <2>2. Passed(rw, b)
    BY <1>2, <2>1 DEF Gapless, Gap
  <2>3. AppliesIn(rx, b) => AppliesIn(rw, b)
    BY <1>1, <1>7, <1>8, <2>1
  <2>4. Framed(rx, b) => Framed(rw, b)
    BY <1>3, <1>4, Order DEF Framed
  <2>5. Clear(rx, b) => Clear(rw, b)
    BY <1>5 DEF Clear
  <2> QED
    BY <2>2, <2>3, <2>4, <2>5 DEF Passed
<1>11. Frontier(rx)
  BY <1>2, <1>5 DEF Frontier
<1>12. ~late => Bodies(rx)
  <2> SUFFICES ASSUME ~late, NEW j \in Pos, Opened(rx, j), LoopOf(j) # 0
               PROVE  rx[LoopOf(j)].st # "succeeded"
    BY DEF Bodies
  <2>1. LoopOf(j) \in Pos /\ IsLoop(LoopOf(j)) /\ Opened(rw, j) /\ rw[LoopOf(j)].st # "succeeded"
    BY <1>2, <1>5, Order DEF Bodies
  <2> QED
    BY <2>1
<1>13. Halted(rx)
  <2> SUFFICES ASSUME NEW a \in Pos, NEW b \in Pos, a < b, Touched(rx, b)
               PROVE  /\ EndsRun(rx, a) => LoopOf(b) = a \/ (Skips(rx, a) /\ rx[b].st = "skipped")
                      /\ LoopOf(a) # 0 /\ LoopOf(b) = LoopOf(a) =>
                           ~EndsLoop(rx, a) /\ (EndsItem(rx, a) => ~SameItem(a, b))
    BY DEF Halted
  <2>1. Touched(rw, b)
    BY <1>5
  <2>2. CASE a = i
    <3>1. IsLoop(i) /\ LoopOf(b) = i /\ LoopOf(i) = 0
      BY <1>6, <2>1, <2>2, LoopShape
    <3> QED
      BY <2>2, <3>1
  <2>3. CASE a # i
    <3>1. /\ EndsRun(rw, a) => LoopOf(b) = a \/ (Skips(rw, a) /\ rw[b].st = "skipped")
          /\ LoopOf(a) # 0 /\ LoopOf(b) = LoopOf(a) =>
               ~EndsLoop(rw, a) /\ (EndsItem(rw, a) => ~SameItem(a, b))
      BY <1>2, <2>1 DEF Halted
    <3>2. rw[b].st = "skipped" => rx[b].st = "skipped"
      BY <1>3
    <3> QED
      BY <1>4, <2>3, <3>1, <3>2
  <2> QED
    BY <2>2, <2>3
<1>14. Skipped(rx)
  <2> SUFFICES ASSUME NEW j \in Pos, rx[j].st = "skipped" PROVE FilteredOut(rx, j)
    BY DEF Skipped
  <2>1. rw[j].st = "skipped"
    BY DEF Terminal
  <2> QED
    BY <1>2, <1>5, <2>1 DEF Skipped, FilteredOut
<1> QED
  BY <1>9, <1>10, <1>11, <1>12, <1>13, <1>14 DEF RowsOK

\* An open row stays open.
LEMMA KeptRows ==
    ASSUME TypeOK, NEW rw, NEW rx, NEW late, RowsOK(rw, late),
           NEW i \in Pos, Opened(rw, i), Opened(rx, i), rx[i].inp = rw[i].inp, rx[i].out = rw[i].out,
           IsLoop(i) => rx[i].st = rw[i].st, \A m \in Pos : m # i => rx[m] = rw[m]
    PROVE  RowsOK(rx, late)
<1>1. Placed(rw) /\ Gapless(rw) /\ Frontier(rw) /\ Halted(rw) /\ Skipped(rw) /\ (~late => Bodies(rw))
  BY DEF RowsOK
<1>2. \A m \in Pos : /\ Touched(rx, m) <=> Touched(rw, m)
                     /\ Opened(rx, m) <=> Opened(rw, m)
                     /\ EndsRun(rx, m) <=> EndsRun(rw, m)
                     /\ EndsItem(rx, m) <=> EndsItem(rw, m)
                     /\ EndsLoop(rx, m) <=> EndsLoop(rw, m)
                     /\ Skips(rx, m) <=> Skips(rw, m)
                     /\ (rx[m].st = "skipped" <=> rw[m].st = "skipped")
  <2> TAKE m \in Pos
  <2>1. CASE m = i
    BY <2>1, OpenEnds DEF Skips, Opened
  <2>2. CASE m # i
    BY <2>2, SameRow
  <2> QED
    BY <2>1, <2>2
<1>3. \A m \in Pos : rx[m].inp = rw[m].inp /\ rx[m].out = rw[m].out /\ (IsLoop(m) => rx[m].st = rw[m].st)
  OBVIOUS
<1>4. \A k \in DOMAIN plan : AppliesIn(rx, k) <=> AppliesIn(rw, k)
  <2> TAKE k \in DOMAIN plan
  <2>1. plan[k].loop # 0 => plan[k].loop \in Pos
    BY Order DEF LoopOf
  <2>2. plan[k].lane # 0 => plan[k].lane \in Pos
    BY Order
  <2> QED
    BY <1>3, <2>1, <2>2 DEF AppliesIn
<1>5. \A k \in DOMAIN plan : Passed(rx, k) <=> Passed(rw, k)
  <2> TAKE k \in DOMAIN plan
  <2>1. Framed(rx, k) <=> Framed(rw, k)
    BY <1>3, Order DEF Framed
  <2>2. Clear(rx, k) <=> Clear(rw, k)
    BY <1>2 DEF Clear
  <2> QED
    BY <1>4, <2>1, <2>2 DEF Passed
<1>6. Placed(rx)
  BY <1>1, <1>2, <1>3, <1>4, Order DEF Placed
<1>7. Gapless(rx)
  BY <1>1, <1>2, <1>5, Order DEF Gapless, Gap
<1>8. Frontier(rx) /\ Skipped(rx)
  BY <1>1, <1>2 DEF Frontier, Skipped, FilteredOut
<1>9. ~late => Bodies(rx)
  BY <1>1, <1>2, <1>3, Order DEF Bodies
<1>10. Halted(rx)
  BY <1>1, <1>2 DEF Halted
<1> QED
  BY <1>6, <1>7, <1>8, <1>9, <1>10 DEF RowsOK

-----------------------------------------------------------------------------
(* How the invariant is kept: the driver stays, walks or writes.           *)

\* The plan does not change: the invariant is about the new rows and drivers.
LEMMA SamePath ==
    ASSUME plan' = plan, RowsOK(row', run'.late), \A p \in Proc : PathOK(drv'[p], row', run'.late),
           ~run'.begun => \A i \in Pos : ~Touched(row', i),
           \A p \in Proc : drv'[p].pc \in Begun => run'.begun
    PROVE  LInv'
<1>1. RowsOK(row, run.late)'
  BY DEF RowsOK, Placed, Gapless, Gap, Passed, Frontier, Bodies, Halted, Skipped, FilteredOut,
         Framed, Clear, EndsRun, EndsLoop, EndsItem, SameItem, Skips, AppliesIn, IsTop, IsLoop,
         LoopOf, Opened, Touched, Pos
<1>2. ASSUME NEW p \in Proc PROVE PathOK(drv[p], row, run.late)'
  BY DEF PathOK, AtStep, AtRow, AtEvent, OnTrack, Shut, Gap, Passed, FilteredOut,
         Framed, Clear, EndsRun, EndsLoop, EndsItem, SameItem, Skips, AppliesIn, IsTop, IsLoop,
         LoopOf, Opened, Touched, Pos
<1> QED
  BY <1>1, <1>2 DEF LInv, Touched, Begun, OnStep, Working, Calling, OnChild

\* Driver e is d at the same place, on its way out, or not on the path.
Alike(d, e) ==
    /\ e.prior = d.prior \/ e.prior = {}
    /\ \/ e.pc \notin Begun
       \/ e.pc = d.pc /\ e.pos = d.pos /\ e.exec = d.exec /\ e.res = d.res /\ e.prior = d.prior
       \/ d.pc \in OnStep /\ e.pos = d.pos /\ e.pc \in (OnStep \ {"eval", "fin"}) \cup {"cancelrow"}
            /\ (e.pc \in Trying => d.pc \in Trying)
       \/ d.pc \in OnStep /\ e.pos = d.pos /\ e.pc = "fin"
            /\ (e.res = "failed" \/ (e.res = "succeeded" /\ ~IsLoop(e.pos)))

\* A driver alike another is where the other one was on its path.
LEMMA AlikePath ==
    ASSUME NEW d, NEW e, NEW rw, NEW late, NEW late2, PathOK(d, rw, late), Alike(d, e), late => late2
    PROVE  PathOK(e, rw, late2)
<1>1. (\A k \in e.prior : Touched(rw, k)) /\ \A k \in d.prior : Touched(rw, k)
  BY DEF PathOK, Alike
<1>2. \A k : OnTrack(rw, late, k) => OnTrack(rw, late2, k)
  BY DEF OnTrack
<1>3. CASE e.pc \notin Begun
  BY <1>1, <1>3 DEF PathOK, Begun
<1>4. CASE e.pc = d.pc /\ e.pos = d.pos /\ e.exec = d.exec /\ e.res = d.res /\ e.prior = d.prior
  <2>1. AtStep(d, rw, late) => AtStep(e, rw, late2)
    BY <1>2, <1>4 DEF AtStep
  <2>2. AtRow(d, rw, late) => AtRow(e, rw, late2)
    BY <1>2, <1>4 DEF AtRow
  <2>3. AtEvent(d, rw, late) => AtEvent(e, rw, late2)
    BY <1>2, <1>4 DEF AtEvent
  <2> QED
    BY <1>1, <1>4, <2>1, <2>2, <2>3 DEF PathOK
<1>5. CASE d.pc \in OnStep /\ e.pos = d.pos /\ e.pc \in (OnStep \ {"eval", "fin"}) \cup {"cancelrow"}
             /\ (e.pc \in Trying => d.pc \in Trying)
  <2>1. AtRow(d, rw, late)
    BY <1>5 DEF PathOK
  <2>2. e.pc \in OnStep => AtRow(e, rw, late2)
    BY <1>2, <1>5, <2>1 DEF AtRow
  <2>3. e.pc = "cancelrow" => Opened(rw, e.pos)
    BY <1>5, <2>1 DEF AtRow
  <2>4. e.pc \notin {"step", "emit", "skip", "skipped"}
    BY <1>5 DEF OnStep, Working, Calling, OnChild
  <2> QED
    BY <1>1, <2>2, <2>3, <2>4 DEF PathOK
<1>6. CASE d.pc \in OnStep /\ e.pos = d.pos /\ e.pc = "fin"
             /\ (e.res = "failed" \/ (e.res = "succeeded" /\ ~IsLoop(e.pos)))
  <2>1. AtRow(d, rw, late)
    BY <1>6 DEF PathOK
  <2>2. AtRow(e, rw, late2)
    BY <1>2, <1>6, <2>1 DEF AtRow, Trying, Calling, OnChild
  <2> QED
    BY <1>1, <1>6, <2>2 DEF PathOK
<1> QED
  BY <1>3, <1>4, <1>5, <1>6 DEF Alike

\* It has begun no sooner than the other.
LEMMA AlikeBegun ==
    ASSUME NEW d, NEW e, Alike(d, e), e.pc \in Begun
    PROVE  d.pc \in Begun
  BY DEF Alike, Begun

\* No row is written and every driver stays.
LEMMA StayPath ==
    ASSUME LInv, plan' = plan, row' = row, run.late => run'.late, run'.begun = run.begun,
           \A p \in Proc : Alike(drv[p], drv'[p])
    PROVE  LInv'
<1>1. RowsOK(row', run'.late)
  BY DEF LInv, RowsOK
<1>2. \A p \in Proc : PathOK(drv'[p], row', run'.late)
  BY AlikePath DEF LInv
<1>3. \A p \in Proc : drv'[p].pc \in Begun => run'.begun
  BY AlikeBegun DEF LInv
<1> QED
  BY <1>1, <1>2, <1>3, SamePath DEF LInv

\* What a driver that is not at work keeps.
LEMMA Others ==
    ASSUME IInv, LInv, NEW p \in Proc, drv[p].pc # "none", NEW q \in Proc, q # p
    PROVE  drv[q].pc = "none" /\ \A k \in drv[q].prior : Touched(row, k)
  BY DEF IInv, Owner, LInv, PathOK

\* Driver p walks on, or writes a row.
LEMMA WritePath ==
    ASSUME IInv, LInv, NEW p \in Proc, drv[p].pc # "none", NEW e, drv' = [drv EXCEPT ![p] = e],
           plan' = plan, run'.begun, RowsOK(row', run'.late), PathOK(e, row', run'.late),
           \A m \in Pos : Touched(row, m) => Touched(row', m)
    PROVE  LInv'
<1>1. DOMAIN drv = Proc /\ drv \in [Proc -> Driver]
  BY DEF IInv, TypeOK
<1>2. ASSUME NEW q \in Proc PROVE PathOK(drv'[q], row', run'.late)
  <2>1. CASE q = p
    BY <1>1, <2>1
  <2>2. CASE q # p
    <3>1. drv'[q] = drv[q] /\ drv[q].prior \subseteq Pos
      BY <1>1, <2>2 DEF Driver
    <3>2. drv[q].pc = "none" /\ \A k \in drv[q].prior : Touched(row', k)
      BY <2>2, <3>1, Others
    <3> QED
      BY <3>1, <3>2 DEF PathOK, OnStep, Working, Calling, OnChild
  <2> QED
    BY <2>1, <2>2
<1> QED
  BY <1>2, SamePath

\* ... on the rows as they are.
LEMMA WalkPath ==
    ASSUME IInv, LInv, NEW p \in Proc, drv[p].pc # "none", NEW e, drv' = [drv EXCEPT ![p] = e],
           plan' = plan, row' = row, run'.begun, run'.late = run.late, PathOK(e, row, run.late)
    PROVE  LInv'
  BY WritePath DEF LInv

\* A driver stays.
LEMMA DriverStays ==
    ASSUME IInv, LInv, NEW p \in Proc, NEW e, drv' = [drv EXCEPT ![p] = e], Alike(drv[p], e),
           plan' = plan, row' = row, run'.begun = run.begun, run'.late = run.late
    PROVE  LInv'
<1>1. \A q \in Proc : Alike(drv[q], drv'[q])
  <2> TAKE q \in Proc
  <2>1. CASE q = p
    BY <2>1 DEF IInv, TypeOK
  <2>2. CASE q # p
    BY <2>2 DEF IInv, TypeOK, Alike
  <2> QED
    BY <2>1, <2>2
<1> QED
  BY <1>1, StayPath

-----------------------------------------------------------------------------
(* Actions that write no row and leave every driver where it is.           *)

\* The run's marks leave its clock and its start alone.
LEMMA RunMarks ==
    ASSUME NEW r \in RunRow, NEW st
    PROVE  /\ markDelivery(r, st).late = r.late /\ markDelivery(r, st).begun = r.begun
           /\ r = run => markRun(st).late = r.late /\ markRun(st).begun = r.begun
  BY DEF markDelivery, markRun, RunRow

\* A driver that leaves the path, and one whose attempt failed.
LEMMA AlikeAt ==
    ASSUME NEW d \in Driver, NEW pc,
           \/ pc \notin Begun
           \/ d.pc \in OnStep /\ pc \in (OnStep \ {"eval", "fin"}) \cup {"cancelrow"}
                /\ (pc \in Trying => d.pc \in Trying)
    PROVE  Alike(d, At(d, pc))
  BY DEF Alike, At, Driver

\* An attempt that failed, to be retried or not.
LEMMA AlikeFailed ==
    ASSUME NEW d \in Driver, d.pc \in Trying, NEW b
    PROVE  Alike(d, Failed(d, b))
<1>1. Failed(d, b) = At(d, "retry") \/ Failed(d, b) = At(d, "failing")
  BY DEF Failed
<1> QED
  BY <1>1, AlikeAt DEF OnStep, Working, Calling, Trying, OnChild

\* A claimed step whose row is to be closed as failed.
LEMMA AlikeClosing ==
    ASSUME NEW d \in Driver, d.pc \in OnStep
    PROVE  Alike(d, Closing(d, "failed"))
  BY DEF Alike, Closing, Driver

\* A driver that settles its run.
LEMMA AlikeSettling ==
    ASSUME NEW d \in Driver, NEW st
    PROVE  Alike(d, Settling(d, st))
  BY DEF Alike, Settling, Driver, Begun, OnStep, Working, Calling, OnChild

\* A driver that left, or one that boots.
LEMMA AlikeNone ==
    ASSUME NEW d, NEW e, e.pc \in {"none", "boot"}, e.prior = {}
    PROVE  Alike(d, e)
  BY DEF Alike, Begun, OnStep, Working, Calling, OnChild

\* A flag of the driver is set.
LEMMA AlikeFlag ==
    ASSUME NEW d \in Driver
    PROVE  Alike(d, d) /\ Alike(d, [d EXCEPT !.cancel = TRUE]) /\ Alike(d, [d EXCEPT !.intr = TRUE])
  BY DEF Alike, Driver

\* The start of a driver.
LEMMA LaunchPath ==
    ASSUME IInv, LInv, NEW p \in Proc, Start(p) \/ Resume(p)
    PROVE  LInv'
<1> DEFINE e == [NoDriver EXCEPT !.pc = "boot", !.epoch = hist.epochs + 1]
<1>1. drv' = [drv EXCEPT ![p] = e] /\ plan' = plan /\ row' = row
  BY DEF Start, Resume, Launch, Move, tables
<1>2. run'.late = run.late /\ run'.begun = run.begun
  <2>1. run \in RunRow
    BY DEF IInv, TypeOK
  <2> QED
    BY <2>1 DEF Start, Resume, tables, RunRow
<1>3. e.pc = "boot" /\ e.prior = {}
  BY DEF NoDriver
<1> HIDE DEF e
<1>4. Alike(drv[p], e)
  BY <1>3, AlikeNone
<1> QED
  BY <1>1, <1>2, <1>4, DriverStays

\* The end of one, before or after it did any work.
LEMMA LeavePath ==
    ASSUME IInv, LInv, NEW p \in Proc,
           \/ Boot(p) \/ Settle(p) \/ DriverError(p) \/ Deliver(p) \/ Post(p) \/ Mark(p) \/ Release(p)
    PROVE  LInv'
<1> DEFINE d == drv[p]
<1>1. d \in Driver /\ run \in RunRow
  BY DEF IInv, TypeOK
<1>2. plan' = plan /\ row' = row
  BY DEF Boot, Settle, DriverError, Deliver, Post, Mark, Release, tables, around
<1>3. run'.late = run.late /\ run'.begun = run.begun
  BY <1>1, RunMarks DEF Boot, Settle, DriverError, Deliver, Post, Mark, Release, tables
<1>4. \A pc \in {"begin", "exit", "deliver", "post", "mark"} : Alike(d, At(d, pc))
  BY <1>1, AlikeAt DEF Begun, OnStep, Working, Calling, OnChild
<1>5. Alike(d, Settling(d, "failed")) /\ Alike(d, NoDriver)
  BY <1>1, AlikeSettling, AlikeNone DEF NoDriver
<1>6. \E e : drv' = [drv EXCEPT ![p] = e] /\ Alike(d, e)
  <2>1. CASE Boot(p) \/ Settle(p) \/ Deliver(p) \/ Post(p) \/ Mark(p)
    <3>1. \E pc \in {"begin", "exit", "deliver", "post", "mark"} : drv' = [drv EXCEPT ![p] = At(d, pc)]
      BY <2>1 DEF Boot, Settle, Deliver, Post, Mark, Goto, Move
    <3> QED
      BY <1>4, <3>1
  <2>2. CASE DriverError(p)
    <3>1. drv' = [drv EXCEPT ![p] = At(d, "exit")] \/ drv' = [drv EXCEPT ![p] = Settling(d, "failed")]
      BY <2>2 DEF DriverError, Goto, Move
    <3> QED
      BY <1>4, <1>5, <3>1
  <2>3. CASE Release(p)
    BY <1>5, <2>3 DEF Release, Move
  <2> QED
    BY <2>1, <2>2, <2>3
<1> QED
  BY <1>2, <1>3, <1>6, DriverStays

\* Actions beside the drivers.
LEMMA AsidePath ==
    ASSUME IInv, LInv, UNCHANGED <<plan, row, drv>>, run'.begun = run.begun, run.late => run'.late
    PROVE  LInv'
<1>1. \A p \in Proc : Alike(drv[p], drv'[p])
  BY AlikeFlag DEF IInv, TypeOK
<1> QED
  BY <1>1, StayPath

\* Steps of the surroundings that touch no driver and no row.
LEMMA BesidePath ==
    ASSUME IInv, LInv,
           \/ \E p \in Proc : ResumeFails(p) \/ RecoverDelivery(p) \/ Restart(p)
           \/ \E h \in sweep : StopChildren(h)
           \/ \E i \in Pos : ChildMoves(i)
           \/ Deadline \/ OtherRunWrites
    PROVE  LInv'
<1>1. run \in RunRow
  BY DEF IInv, TypeOK
<1>2. CASE \E p \in Proc : ResumeFails(p)
  <2>1. run' = markDelivery(markRun("failed"), "failed") /\ run.st \in Active /\ UNCHANGED <<plan, row, drv>>
    BY <1>2 DEF ResumeFails, Orphan, around
  <2>2. markRun("failed") \in RunRow
    BY <1>1, <2>1, MarkRunOK DEF Active, Terminal
  <2>3. run'.begun = run.begun /\ run'.late = run.late
    BY <1>1, <2>1, <2>2, RunMarks
  <2> QED
    BY <2>1, <2>3, AsidePath
<1>3. CASE \/ \E p \in Proc : RecoverDelivery(p) \/ Restart(p)
           \/ \E h \in sweep : StopChildren(h)
           \/ \E i \in Pos : ChildMoves(i)
           \/ OtherRunWrites
  <2>1. UNCHANGED <<plan, row, drv>>
    BY <1>3 DEF RecoverDelivery, Restart, StopChildren, ChildMoves, OtherRunWrites, tables
  <2>2. run'.begun = run.begun /\ run'.late = run.late
    BY <1>1, <1>3, RunMarks DEF RecoverDelivery, Restart, StopChildren, ChildMoves, OtherRunWrites, tables
  <2> QED
    BY <2>1, <2>2, AsidePath
<1>4. CASE Deadline
  <2>1. UNCHANGED <<plan, row, drv>> /\ run' = [run EXCEPT !.late = TRUE]
    BY <1>4 DEF Deadline
  <2>2. run'.begun = run.begun /\ run'.late
    BY <1>1, <2>1 DEF RunRow
  <2> QED
    BY <2>1, <2>2, AsidePath
<1> QED
  BY <1>2, <1>3, <1>4

\* A Stop and a shutdown mark the driver; a process that is gone has none.
LEMMA FlagPath ==
    ASSUME IInv, LInv, NEW p \in Proc, Stop(p) \/ Shutdown(p) \/ Crash(p) \/ Closed(p)
    PROVE  LInv'
<1> DEFINE d == drv[p]
<1>1. d \in Driver /\ run \in RunRow /\ drv \in [Proc -> Driver]
  BY DEF IInv, TypeOK
<1>2. plan' = plan /\ row' = row
  BY DEF Stop, Shutdown, Crash, Closed, Gone, tables
<1>3. run'.late = run.late /\ run'.begun = run.begun
  BY <1>1, RunMarks DEF Stop, Shutdown, Crash, Closed, Gone, tables
<1>4. Alike(d, d) /\ Alike(d, [d EXCEPT !.cancel = TRUE]) /\ Alike(d, [d EXCEPT !.intr = TRUE])
  BY <1>1, AlikeFlag
<1>5. Alike(d, NoDriver)
  BY AlikeNone DEF NoDriver
<1>6. drv = [drv EXCEPT ![p] = d]
  BY <1>1
<1>7. \E e : drv' = [drv EXCEPT ![p] = e] /\ Alike(d, e)
  <2>1. CASE Stop(p)
    <3>1. drv' = [drv EXCEPT ![p] = [d EXCEPT !.cancel = TRUE]] \/ drv' = drv
      BY <2>1 DEF Stop, Move
    <3> QED
      BY <1>4, <1>6, <3>1
  <2>2. CASE Shutdown(p)
    <3>1. drv' = [drv EXCEPT ![p] = [d EXCEPT !.intr = TRUE]] \/ drv' = [drv EXCEPT ![p] = d]
      BY <2>2 DEF Shutdown, Drain
    <3> QED
      BY <1>4, <3>1
  <2>3. CASE Crash(p) \/ Closed(p)
    BY <1>5, <2>3 DEF Crash, Closed, Gone
  <2> QED
    BY <2>1, <2>2, <2>3
<1> QED
  BY <1>2, <1>3, <1>7, DriverStays

\* Attempts and calls that do not succeed, and what a driver hears of a child.
LEMMA TryPath ==
    ASSUME IInv, LInv, NEW p \in Proc,
           Attempt(p) \/ EmitFailure(p) \/ Abandon(p) \/ StateWrite(p)
    PROVE  LInv'
<1> DEFINE d == drv[p]
<1>1. d \in Driver /\ plan' = plan /\ row' = row /\ run' = run
  BY DEF IInv, TypeOK, Attempt, EmitFailure, Abandon, StateWrite, tables, around
<1>2. \A pc \in Calling \cup {"exit", "dispatching", "watch", "failing", "failed", "cancelrow"} :
         d.pc \in OnStep /\ (pc \in Trying => d.pc \in Trying) => Alike(d, At(d, pc))
  BY <1>1, AlikeAt DEF Begun, OnStep, Working, Calling, OnChild, Trying
<1>3. d.pc \in OnStep => Alike(d, Closing(d, "failed"))
  BY <1>1, AlikeClosing
<1>4. \E e : drv' = [drv EXCEPT ![p] = e] /\ Alike(d, e)
  <2>1. CASE Attempt(p)
    <3>1. d.pc \in OnStep /\ d.pc \in Trying
      BY <2>1 DEF Attempt, Is, OnStep, Working, Calling, Trying
    <3>2. \/ \E pc \in {"exit", "cancelrow", "calling", "watch", "dispatching"} : drv' = [drv EXCEPT ![p] = At(d, pc)]
          \/ drv' = [drv EXCEPT ![p] = Closing(d, "failed")]
      BY <2>1 DEF Attempt, Goto, Move
    <3> QED
      BY <1>2, <1>3, <3>1, <3>2 DEF Calling
  <2>2. CASE EmitFailure(p)
    <3>1. d.pc \in OnStep /\ drv' = [drv EXCEPT ![p] = At(d, "failed")]
      BY <2>2 DEF EmitFailure, Is, Goto, Move, OnStep
    <3> QED
      BY <1>2, <3>1 DEF Trying, Calling, OnChild
  <2>3. CASE Abandon(p)
    <3>1. d.pc \in OnStep /\ d.pc \in Trying
      BY <2>3 DEF Abandon, OnStep, Working, OnChild, Trying
    <3>2. \E pc \in {"exit", "cancelrow", "failing"} : drv' = [drv EXCEPT ![p] = At(d, pc)]
      BY <2>3 DEF Abandon, Move
    <3> QED
      BY <1>2, <3>1, <3>2
  <2>4. CASE StateWrite(p)
    <3>1. d.pc \in OnStep /\ plan[d.pos].kind = "state"
      BY <2>4 DEF StateWrite, Is, OnStep, Working
    <3>2. \/ drv' = [drv EXCEPT ![p] = [Closing(d, "succeeded") EXCEPT !.sc = row[d.pos].inp]]
          \/ drv' = [drv EXCEPT ![p] = Closing(d, "failed")]
      BY <2>4 DEF StateWrite, Move
    <3>3. Alike(d, [Closing(d, "succeeded") EXCEPT !.sc = row[d.pos].inp])
      BY <1>1, <3>1 DEF Alike, Closing, Driver, IsLoop
    <3> QED
      BY <1>3, <3>1, <3>2, <3>3
  <2> QED
    BY <2>1, <2>2, <2>3, <2>4
<1> QED
  BY <1>1, <1>4, DriverStays

\* What a dispatch tells its driver.
LEMMA DispatchPath ==
    ASSUME IInv, LInv, NEW j \in jobs, Link(j) \/ Send(j) \/ Fence(j)
    PROVE  LInv'
<1> DEFINE d == drv[j.proc]
<1>1. plan' = plan /\ row' = row /\ run' = run /\ j.proc \in Proc
  BY DEF IInv, TypeOK, Job, Link, Send, Fence
<1>2. d \in Driver /\ (~j.ab => d.pc \in Trying)
  BY <1>1 DEF IInv, TypeOK, JobsOK, Trying, OnChild
<1>3. d.pc \in Trying => /\ \A b : Alike(d, Failed(d, b))
                         /\ Alike(d, [d EXCEPT !.pc = "park", !.child = "linked"])
  <2>1. d.pc \in Trying => \A b : Alike(d, Failed(d, b))
    BY <1>2, AlikeFailed
  <2>2. d.pc \in Trying => Alike(d, [d EXCEPT !.pc = "park", !.child = "linked"])
    BY <1>2 DEF Alike, Driver, OnStep, Working, OnChild, Calling, Trying
  <2> QED
    BY <2>1, <2>2
<1>4. \/ drv' = drv
      \/ ~j.ab /\ \E b : drv' = [drv EXCEPT ![j.proc] = Failed(d, b)]
      \/ ~j.ab /\ drv' = [drv EXCEPT ![j.proc] = [d EXCEPT !.pc = "park", !.child = "linked"]]
  <2>1. CASE Link(j)
    BY <2>1 DEF Link, Tell, Move
  <2>2. CASE Send(j)
    BY <2>2 DEF Send, Tell, Move
  <2>3. CASE Fence(j)
    BY <2>3 DEF Fence, Tell, Move
  <2> QED
    BY <2>1, <2>2, <2>3
<1>5. CASE drv' = drv
  BY <1>1, <1>5, AsidePath
<1>6. CASE ~j.ab /\ \E e : drv' = [drv EXCEPT ![j.proc] = e] /\ Alike(d, e)
  BY <1>1, <1>6, DriverStays
<1> QED
  BY <1>2, <1>3, <1>4, <1>5, <1>6

-----------------------------------------------------------------------------
(* Actions that move a driver over the rows as they are.                   *)

\* What a driver on its path knows.
LEMMA PathFacts ==
    ASSUME IInv, LInv, NEW p \in Proc
    PROVE  /\ TypeOK /\ drv[p] \in Driver /\ RowsOK(row, run.late) /\ PathOK(drv[p], row, run.late)
           /\ SameData(row) /\ \A k \in drv[p].prior : Touched(row, k)
           /\ drv[p].pc \in Begun => run.begun
           /\ drv[p].pc \in Working \cup Closes => drv[p].pos \in DOMAIN plan /\ plan[drv[p].pos].kind # "end"
  BY DEF IInv, TypeOK, LInv, PathOK, SameData, DriverOK, Steppable

\* The snapshot: the replay begins before the first step.
LEMMA BeginPath ==
    ASSUME IInv, LInv, NEW p \in Proc, Begin(p)
    PROVE  LInv'
<1> DEFINE d == drv[p]  o == Onward(d, 1)
<1>1. PICK ex, pr, sh :
         /\ drv' = [drv EXCEPT ![p] = [o EXCEPT !.sc = wf, !.exec = ex, !.prior = pr, !.shown = sh]]
         /\ pr = IF run.begun THEN {i \in Pos : row[i].st # "none"} ELSE {}
  BY DEF Begin, Move
<1> DEFINE e == [o EXCEPT !.sc = wf, !.exec = ex, !.prior = pr, !.shown = sh]
           c == [d EXCEPT !.exec = ex, !.prior = pr]
<1>2. /\ d \in Driver /\ TypeOK /\ RowsOK(row, run.late) /\ SameData(row) /\ run \in RunRow
      /\ drv \in [Proc -> Driver] /\ Placed(row) /\ d.pc = "begin"
  BY PathFacts DEF RowsOK, IInv, TypeOK, Begin, Is
<1>3. UNCHANGED <<plan, row>> /\ run'.begun /\ run'.late = run.late
  BY <1>2 DEF Begin, around, RunRow
<1>4. e \in Driver
  <2>1. drv' \in [Proc -> Driver]
    BY BeginIInv DEF IInv, TypeOK
  <2>2. drv'[p] = e
    BY <1>1, <1>2
  <2> HIDE DEF e
  <2> QED
    BY <2>1, <2>2
<1>5. o \in Driver
  BY <1>2, OnwardOK DEF CarriesOn, Carries
<1>6. o.pc = "step" /\ o.pos = Seek(1) /\ o.res = d.res
  BY <1>2, OnwardFields
<1> HIDE DEF o
<1>7. e.pc = "step" /\ e.pos = Seek(1) /\ e.res = d.res /\ e.exec = ex /\ e.prior = pr
  BY <1>5, <1>6 DEF Driver
<1>8. ex \in Nat /\ pr \subseteq Pos
  <2> HIDE DEF e
  <2> QED
    BY <1>4, <1>7 DEF Driver
<1>9. c \in Driver /\ c.exec = ex /\ c.prior = pr /\ c.res = d.res
  BY <1>2, <1>8 DEF Driver
<1>10. \A m \in Pos : Touched(row, m) <=> m \in pr
  BY <1>1 DEF LInv, Touched
<1> HIDE DEF e, c
<1>11. Inside(row, 1, 0) /\ Settled(row, 1, 0) /\ Gap(row, 1)
  <2>1. \A m \in Pos : m \in Nat /\ ~(m < 1)
    BY RunAssumption DEF Pos
  <2>2. 1 \in 1 .. Len + 1 /\ DOMAIN plan \subseteq Pos
    BY <1>2, Order
  <2> QED
    BY <2>1, <2>2 DEF Inside, Settled, Gap
<1>12. PathOK(Onward(c, 1), row, run.late)
  BY <1>2, <1>8, <1>9, <1>10, <1>11, Arrive
<1>13. Alike(Onward(c, 1), e)
  BY <1>7, <1>9, OnwardFields DEF Alike
<1>14. PathOK(e, row, run.late)
  BY <1>12, <1>13, AlikePath
<1> QED
  BY <1>1, <1>2, <1>3, <1>14, WalkPath DEF e

\* At a step that was not claimed before, nothing from there on was.
LEMMA Fresh ==
    ASSUME TypeOK, NEW d, NEW rw, RowsOK(rw, FALSE), AtStep(d, rw, FALSE),
           d.pos \in DOMAIN plan, ~Touched(rw, d.pos)
    PROVE  \A m \in Pos : d.pos <= m => ~Touched(rw, m)
<1>1. AppliesIn(rw, d.pos) /\ Framed(rw, d.pos) /\ Clear(rw, d.pos) /\ Gapless(rw)
  BY DEF AtStep, OnTrack, RowsOK
<1>2. ~Passed(rw, d.pos)
  BY <1>1 DEF Passed
<1> SUFFICES ASSUME NEW m \in Pos, d.pos <= m, Touched(rw, m) PROVE FALSE
  OBVIOUS
<1>3. d.pos \in Nat /\ m \in Nat
  BY Order
<1>4. d.pos < m
  BY <1>3
<1> QED
  BY <1>1, <1>2, <1>4 DEF Gapless, Gap

\* A driver in a loop's body is on its path at the loop, which is open.
LEMMA LoopTrack ==
    ASSUME TypeOK, NEW rw, NEW late, NEW i, OnTrack(rw, late, i), LoopOf(i) # 0
    PROVE  OnTrack(rw, late, LoopOf(i)) /\ Opened(rw, LoopOf(i))
<1>1. PICK l : l = LoopOf(i)
  OBVIOUS
<1>2. l \in Pos /\ l < i /\ LoopOf(l) = 0 /\ i \in Nat /\ l \in Nat /\ Pos \subseteq Nat
  BY <1>1, Order
<1>3. Opened(rw, l)
  BY <1>1 DEF OnTrack, Framed, Opened
<1>4. ASSUME Clear(rw, i), Shut(rw, i) PROVE Clear(rw, l) /\ Shut(rw, l)
  <2>1. \A b \in Pos : b < l => b < i /\ b # l
    BY <1>2
  <2> QED
    BY <1>1, <1>2, <1>4, <2>1 DEF Clear, Shut
<1> QED
  BY <1>1, <1>2, <1>3, <1>4 DEF OnTrack, Framed

\* A step boundary.
LEMMA BoundaryPath ==
    ASSUME IInv, LInv, NEW p \in Proc, Boundary(p)
    PROVE  LInv'
<1> DEFINE d == drv[p]  i == d.pos  late == run.late
<1>1. /\ TypeOK /\ d \in Driver /\ RowsOK(row, late) /\ AtStep(d, row, late) /\ run.begun /\ d.pc = "step"
      /\ SameData(row) /\ \A k \in d.prior : Touched(row, k)
  BY PathFacts DEF PathOK, Boundary, Is, Begun
<1>2. UNCHANGED <<run, row, plan>>
  BY DEF Boundary, around
<1>3. i \in 1 .. MaxLen + 1 /\ Len \in Nat /\ MaxLen \in Nat /\ DOMAIN plan = 1 .. Len /\ Pos \subseteq Nat
  BY <1>1, Order DEF Driver
<1>4. ASSUME NEW e, drv' = [drv EXCEPT ![p] = e], PathOK(e, row, late) PROVE LInv'
  BY <1>1, <1>2, <1>4, WalkPath
<1>5. ASSUME NEW e, drv' = [drv EXCEPT ![p] = e], Alike(d, e) PROVE LInv'
  BY <1>2, <1>5, DriverStays
<1>6. CASE i > Len /\ Move(p, Settling(d, "succeeded"))
  BY <1>1, <1>5, <1>6, AlikeSettling DEF Move
<1>7. CASE i <= Len /\ plan[i].kind # "end"
  <2>1. i \in DOMAIN plan
    BY <1>3, <1>7
  <2>2. CASE Goto(p, "exit")
    BY <1>1, <1>5, <2>2, AlikeAt DEF Goto, Move, Begun, OnStep, Working, Calling, OnChild
  <2>3. CASE Move(p, Canceling(d, i))
    BY <1>1, <1>4, <2>1, <2>3, CancelingPath DEF Move
  <2>4. CASE (late \/ Spent(d)) /\ Move(p, Failing(d, i))
    <3>1. OnTrack(row, late, i) /\ \A m \in Pos : i <= m /\ Touched(row, m) => m \in d.prior
      BY <1>1, <1>3 DEF AtStep
    <3>2. ASSUME NEW m \in Pos, i < m, Touched(row, m) PROVE m \in d.prior
      <4>1. m \in Nat /\ i \in Nat
        BY <1>3
      <4>2. i <= m
        BY <3>2, <4>1
      <4> QED
        BY <3>1, <3>2, <4>2
    <3>3. ASSUME ~late PROVE d.exec >= MaxExecuted /\ \A m \in Pos : i <= m => ~Touched(row, m)
      <4>1. d.exec >= MaxExecuted /\ i \notin d.prior
        BY <2>4, <3>3 DEF Spent
      <4>2. ~Touched(row, i)
        BY <1>3, <2>1, <3>1, <4>1, <1>1, Order
      <4>3. RowsOK(row, FALSE) /\ AtStep(d, row, FALSE)
        BY <1>1, <3>3 DEF RowsOK, AtStep, OnTrack
      <4> QED
        BY <1>1, <2>1, <4>1, <4>2, <4>3, Fresh
    <3>4. PathOK(Failing(d, i), row, late)
      BY <1>1, <1>7, <2>1, <3>1, <3>2, <3>3, FailingPath
    <3> QED
      BY <1>4, <2>4, <3>4 DEF Move
  <2> QED
    BY <1>7, <2>2, <2>3, <2>4, <1>3 DEF Boundary, Is
<1>8. CASE i <= Len /\ plan[i].kind = "end"
  <2> DEFINE l == plan[i].loop
             e == [d EXCEPT !.pos = l, !.pc = "fin", !.res = "succeeded"]
  <2>1. i \in DOMAIN plan /\ l # 0 /\ l = LoopOf(i) /\ drv' = [drv EXCEPT ![p] = e]
    BY <1>1, <1>3, <1>8, PlanFacts DEF WellNested, LoopOf, Boundary, Move
  <2>2. e.pos = l /\ e.pc = "fin" /\ e.res = "succeeded" /\ e.prior = d.prior
    BY <1>1 DEF Driver
  <2> HIDE DEF e
  <2>3. OnTrack(row, late, l) /\ Opened(row, l)
    BY <1>1, <2>1, LoopTrack DEF AtStep
  <2>4. l \in Pos /\ IsLoop(l) /\ i = EndOf(l) /\ i \in Pos
    <3>1. l \in Pos /\ IsLoop(l) /\ i \in Pos /\ l < i /\ i <= EndOf(l)
      BY <1>1, <2>1, Order
    <3>2. EndOf(l) \in 1 .. Len /\ ~(i < EndOf(l))
      BY <1>1, <1>8, <3>1, LoopShape
    <3>3. EndOf(l) \in Nat /\ i \in Nat
      BY <1>3, <3>2
    <3> QED
      BY <3>1, <3>2, <3>3
  <2>5. ASSUME ~late, NEW k \in Pos, LoopOf(k) = l PROVE ~Opened(row, k)
    <3>1. k <= i /\ k \in Nat /\ k # l
      BY <1>1, <1>3, <2>1, <2>4, <2>5, LoopShape, Order
    <3>2. CASE k = i
      <4>1. ~Touched(row, i)
        BY <1>1, <1>8, <2>4 DEF RowsOK, Placed
      <4> QED
        BY <3>2, <4>1, Blank
    <3>3. CASE k < i
      BY <1>1, <2>1, <2>5, <3>1, <3>3 DEF AtStep, OnTrack, Shut
    <3> QED
      BY <1>3, <3>1, <3>2, <3>3
  <2>6. AtRow(e, row, late)
    BY <2>2, <2>3, <2>5 DEF AtRow, Trying, Calling, OnChild
  <2>7. PathOK(e, row, late)
    BY <1>1, <2>2, <2>6 DEF PathOK, OnStep, Working, Calling, OnChild
  <2> QED
    BY <1>4, <2>1, <2>7
<1> QED
  BY <1>3, <1>6, <1>7, <1>8 DEF Boundary

\* An adopted row stands for its step's execution.
LEMMA AdoptPath ==
    ASSUME IInv, LInv, NEW p \in Proc, Adopt(p)
    PROVE  LInv'
<1> DEFINE d == drv[p]  i == d.pos  late == run.late
           sc == IF row[i].st = "succeeded" THEN Fed(d.sc, i) ELSE d.sc
           b == [d EXCEPT !.res = row[i].st, !.shown = d.shown \cup {i}, !.sc = sc]
           e == Passing(b, i)
<1>1. Stepping(p) /\ Adopted(i) /\ UNCHANGED <<run, row, plan>> /\ drv' = [drv EXCEPT ![p] = e]
  BY DEF Adopt, Move, around
<1>2. /\ TypeOK /\ d.pc = "step" /\ d \in Driver /\ i \in DOMAIN plan /\ plan[i].kind # "end" /\ i \in Pos
      /\ row \in [Pos -> StepRow] /\ ~late
  BY <1>1, SteppingFacts DEF Steppable, Stepping
<1>3. RowsOK(row, late) /\ AtStep(d, row, late) /\ run.begun /\ \A k \in d.prior : Touched(row, k)
  BY <1>2, PathFacts DEF PathOK, Begun
<1>4. OnTrack(row, late, i) /\ \A m \in Pos : i < m /\ Touched(row, m) => m \in d.prior
  <2>1. i \in Nat /\ Pos \subseteq Nat
    BY <1>2, Order
  <2> QED
    BY <1>3, <2>1 DEF AtStep
<1>5. sc \in Value
  BY <1>2 DEF Fed, Driver, StepRow
<1> HIDE DEF sc
<1>6. b \in Driver /\ b.res = row[i].st /\ b.prior = d.prior
  BY <1>1, <1>2, <1>5 DEF Driver, Adopted
<1> HIDE DEF b
<1>7. row[i].st \in {"succeeded", "failed", "canceled"}
  <2>1. ASSUME row[i].st = "skipped" PROVE FALSE
    <3>1. PICK f \in Pos : f < i /\ IsTop(f) /\ Skips(row, f)
      BY <1>2, <1>3, <2>1 DEF RowsOK, Skipped, FilteredOut
    <3>2. EndsRun(row, f)
      BY <3>1 DEF EndsRun
    <3>3. f # LoopOf(i)
      BY <1>2, <3>1, Order DEF Skips
    <3> QED
      BY <1>2, <1>4, <3>1, <3>2, <3>3 DEF OnTrack, Clear
  <2> QED
    BY <1>1, <2>1 DEF Adopted, Terminal
<1>8. PathOK(e, row, late)
  <2>1. CASE row[i].st = "canceled"
    <3>1. e = Canceling(b, i)
      BY <1>6, <2>1 DEF Passing
    <3> QED
      BY <1>2, <1>3, <1>6, <3>1, CancelingPath
  <2>2. CASE row[i].st \in {"succeeded", "failed"}
    BY <1>2, <1>3, <1>4, <1>6, <2>2, PassingPath
  <2> QED
    BY <1>7, <2>1, <2>2
<1> QED
  BY <1>1, <1>2, <1>3, <1>8, WalkPath

\* The event of a step that ended, and on.
LEMMA EmitPath ==
    ASSUME IInv, LInv, NEW p \in Proc, Emit(p)
    PROVE  LInv'
<1> DEFINE d == drv[p]  i == d.pos  late == run.late
           sc == IF d.res = "succeeded" THEN Fed(d.sc, i) ELSE d.sc
           b == [d EXCEPT !.sc = sc]
           e == Passing(b, i)
<1>1. d.pc = "emit" /\ UNCHANGED <<run, row, plan>> /\ drv' = [drv EXCEPT ![p] = e]
  BY DEF Emit, Is, Move, around
<1>2. /\ TypeOK /\ d \in Driver /\ i \in DOMAIN plan /\ plan[i].kind # "end" /\ row \in [Pos -> StepRow]
      /\ i \in Pos
  BY <1>1, PathFacts, Order DEF Closes, TypeOK
<1>3. RowsOK(row, late) /\ AtEvent(d, row, late) /\ run.begun /\ \A k \in d.prior : Touched(row, k)
  BY <1>1, PathFacts DEF PathOK, Begun
<1>4. sc \in Value
  BY <1>2 DEF Fed, Driver, StepRow
<1> HIDE DEF sc
<1>5. b \in Driver /\ b.res = d.res /\ b.prior = d.prior
  BY <1>2, <1>4 DEF Driver
<1> HIDE DEF b
<1>6. PathOK(e, row, late)
  <2>1. /\ OnTrack(row, late, i) /\ row[i].st = b.res /\ b.res \in {"succeeded", "failed"}
        /\ \A m \in Pos : i < m /\ Touched(row, m) => IsLoop(i) /\ LoopOf(m) = i
    <3>1. i \in Nat /\ Pos \subseteq Nat
      BY <1>2, Order
    <3> QED
      BY <1>3, <1>5, <3>1 DEF AtEvent
  <2> QED
    BY <1>2, <1>3, <1>5, <2>1, PassingPath
<1> QED
  BY <1>1, <1>3, <1>6, WalkPath

\* The items of a loop.
LEMMA LoopEnterPath ==
    ASSUME IInv, LInv, NEW p \in Proc, LoopEnter(p)
    PROVE  LInv'
<1> DEFINE d == drv[p]  i == d.pos  late == run.late
<1>1. /\ d.pc = "eval" /\ d.pc \in OnStep /\ UNCHANGED <<run, row, plan>> /\ plan[i].kind = "loop"
      /\ d.pc \in Begun
  BY DEF LoopEnter, Is, around, OnStep, Working, Begun
<1>2. /\ TypeOK /\ d \in Driver /\ RowsOK(row, late) /\ AtRow(d, row, late) /\ run.begun /\ SameData(row)
      /\ i \in DOMAIN plan /\ \A k \in d.prior : Touched(row, k)
  BY <1>1, PathFacts DEF PathOK, Working
<1>3. CASE Move(p, Closing(d, "failed"))
  BY <1>1, <1>2, <1>3, AlikeClosing, DriverStays DEF Move
<1>4. CASE Move(p, Onward(d, i + 1))
  <2>1. /\ i \in Pos /\ i \in Nat /\ IsLoop(i) /\ LoopOf(i) = 0 /\ Pos \subseteq Nat /\ 0 \notin Pos
        /\ DOMAIN plan \subseteq Pos /\ i < EndOf(i) /\ EndOf(i) \in Nat
        /\ \A m \in Pos : LoopOf(m) = i => i < m
    <3>0. IsLoop(i)
      BY <1>1, <1>2 DEF IsLoop
    <3>1. i \in Pos /\ Pos \subseteq Nat /\ 0 \notin Pos /\ DOMAIN plan \subseteq Pos /\ Len \in Nat
      BY <1>2, Order
    <3>2. LoopOf(i) = 0 /\ EndOf(i) \in 1 .. Len /\ i < EndOf(i) /\ \A m \in Pos : LoopOf(m) = i => i < m
      BY <1>2, <3>0, <3>1, LoopShape
    <3>3. i \in Nat
      BY <3>1, Zenon
    <3>4. EndOf(i) \in Nat
      <4>1. \A n \in Nat : 1 .. n \subseteq Nat
        OBVIOUS
      <4> QED
        BY <3>1, <3>2, <4>1, Zenon
    <3> QED
      BY <3>0, <3>1, <3>2, <3>3, <3>4, Zenon
  <2>2. OnTrack(row, late, i) /\ Opened(row, i) /\ \A k \in Pos : k > i /\ Touched(row, k) => k \in d.prior
    BY <1>1, <1>2 DEF AtRow
  <2>3. Placed(row) /\ Gapless(row) /\ row[i].st = "running" /\ Touched(row, i)
    BY <1>2, <2>1, <2>2 DEF RowsOK, Placed, Opened, Touched
  <2>4. Inside(row, i + 1, i)
    BY <2>1, <2>3 DEF Inside
  <2>5. \A b \in Pos : b < i + 1 /\ b # i => b < i
    BY <2>1
  <2>6. ASSUME ~late PROVE Settled(row, i + 1, i)
    <3>1. \A b \in Pos : b < i => ~EndsRun(row, b) /\ ~Opened(row, b)
      BY <2>1, <2>2, <2>6 DEF OnTrack, Clear, Shut
    <3>2. ASSUME NEW b \in Pos, LoopOf(b) = i PROVE ~(b < i + 1)
      <4>1. b \in Nat /\ i \in Nat /\ i < b
        BY <2>1, <3>2
      <4> QED
        BY <4>1
    <3> QED
      BY <2>5, <3>1, <3>2 DEF Settled
  <2>7. Gap(row, i + 1)
    BY <2>1, <2>3, <2>5 DEF Gapless, Gap
  <2>8. \A m \in Pos : i + 1 <= m /\ Touched(row, m) => m \in d.prior
    BY <2>1, <2>2
  <2>9. PathOK(Onward(d, i + 1), row, late)
    BY <1>2, <2>3, <2>4, <2>6, <2>7, <2>8, Arrive
  <2> QED
    BY <1>1, <1>2, <1>4, <2>9, WalkPath DEF Move
<1> QED
  BY <1>3, <1>4 DEF LoopEnter

\* What is behind a false filter stays behind it.
LEMMA FilteredOn ==
    ASSUME TypeOK, NEW rw, NEW i \in 1 .. MaxLen + 1, FilteredOut(rw, i)
    PROVE  FilteredOut(rw, NextTop(i))
<1>1. PICK f \in Pos : f < i /\ IsTop(f) /\ Skips(rw, f)
  BY DEF FilteredOut
<1>2. f \in 1 .. Len /\ Len \in Nat /\ MaxLen \in Nat
  BY <1>1, Order DEF IsTop
<1>3. NextTop(i) \in 1 .. Len + 1 /\ (i <= Len => i < NextTop(i)) /\ (i > Len => NextTop(i) = Len + 1)
  BY NextTopShape
<1>4. f < NextTop(i)
  BY <1>1, <1>2, <1>3
<1> QED
  BY <1>1, <1>4 DEF FilteredOut

\* The steps behind a false filter are marked one after the other.
LEMMA SkipStepPath ==
    ASSUME IInv, LInv, NEW p \in Proc, SkipStep(p) \/ SkipEmit(p)
    PROVE  LInv'
<1> DEFINE d == drv[p]  i == d.pos  late == run.late
<1>1. d.pc \in {"skip", "skipped"} /\ d.pc \in Begun /\ UNCHANGED <<run, plan>>
  BY DEF SkipStep, SkipEmit, Is, around, Begun
<1>2. /\ TypeOK /\ d \in Driver /\ RowsOK(row, late) /\ run.begun /\ FilteredOut(row, i)
      /\ (i \in DOMAIN plan => plan[i].loop = 0 /\ plan[i].lane = 0)
      /\ i \in 1 .. MaxLen + 1 /\ row \in [Pos -> StepRow] /\ \A k \in d.prior : Touched(row, k)
  BY <1>1, PathFacts DEF PathOK, Driver, TypeOK
<1>3. Len \in Nat /\ MaxLen \in Nat /\ DOMAIN plan = 1 .. Len /\ DOMAIN plan \subseteq Pos
  BY <1>2, Order
<1>4. ASSUME NEW e, drv' = [drv EXCEPT ![p] = e], row' = row,
             e.pc = "skip", e.pos = NextTop(i), e.prior = d.prior
      PROVE  LInv'
  <2>1. FilteredOut(row, NextTop(i))
    BY <1>2, FilteredOn
  <2>2. NextTop(i) \in DOMAIN plan => plan[NextTop(i)].loop = 0 /\ plan[NextTop(i)].lane = 0
    BY <1>2, NextTopShape
  <2>3. PathOK(e, row, late)
    BY <1>2, <1>4, <2>1, <2>2 DEF PathOK, OnStep, Working, Calling, OnChild
  <2> QED
    BY <1>1, <1>2, <1>4, <2>3, WalkPath
<1>5. CASE SkipEmit(p)
  <2> DEFINE e == [d EXCEPT !.pc = "skip", !.pos = NextTop(i)]
  <2>1. drv' = [drv EXCEPT ![p] = e] /\ row' = row
    BY <1>5 DEF SkipEmit, Move
  <2>2. e.pc = "skip" /\ e.pos = NextTop(i) /\ e.prior = d.prior
    BY <1>2 DEF Driver
  <2> QED
    BY <1>4, <2>1, <2>2
<1>6. CASE i > Len /\ Move(p, Settling(d, "succeeded")) /\ row' = row
  BY <1>1, <1>2, <1>6, AlikeSettling, DriverStays DEF Move
<1>7. CASE Move(p, [d EXCEPT !.pos = NextTop(i), !.shown = @ \cup {i}]) /\ row' = row /\ d.pc = "skip"
  <2> DEFINE e == [d EXCEPT !.pos = NextTop(i), !.shown = d.shown \cup {i}]
  <2>1. drv' = [drv EXCEPT ![p] = e]
    BY <1>7 DEF Move
  <2>2. e.pc = "skip" /\ e.pos = NextTop(i) /\ e.prior = d.prior
    BY <1>2, <1>7 DEF Driver
  <2> QED
    BY <1>4, <1>7, <2>1, <2>2
<1>8. CASE i <= Len /\ row[i].st = "none" /\ row' = [row EXCEPT ![i].st = "skipped"] /\ Goto(p, "skipped")
  <2>1. i \in DOMAIN plan /\ i \in Pos
    BY <1>2, <1>3, <1>8
  <2>2. /\ row'[i].st = "skipped" /\ row'[i].out = row[i].out /\ ~Touched(row, i)
        /\ \A m \in Pos : m # i => row'[m] = row[m]
    BY <1>2, <1>8, <2>1 DEF StepRow, Touched
  <2>3. RowsOK(row', late)
    BY <1>2, <2>1, <2>2, SkippedRows
  <2>4. \A m \in Pos : Touched(row, m) => Touched(row', m)
    BY <2>2 DEF Touched
  <2>5. FilteredOut(row', i)
    <3>1. PICK f \in Pos : f < i /\ IsTop(f) /\ Skips(row, f)
      BY <1>2 DEF FilteredOut
    <3>2. f # i
      BY <2>2, <3>1 DEF Skips, Touched
    <3> QED
      BY <2>2, <3>1, <3>2, SameRow DEF FilteredOut
  <2> DEFINE e == At(d, "skipped")
  <2>6. drv' = [drv EXCEPT ![p] = e] /\ e.pc = "skipped" /\ e.pos = i /\ e.prior = d.prior
    BY <1>2, <1>8 DEF Goto, Move, At, Driver
  <2> HIDE DEF e
  <2>7. d.prior \subseteq Pos
    BY <1>2 DEF Driver
  <2>8. PathOK(e, row', late)
    BY <1>2, <2>4, <2>5, <2>6, <2>7 DEF PathOK, OnStep, Working, Calling, OnChild
  <2> QED
    BY <1>1, <1>2, <2>3, <2>4, <2>6, <2>8, WritePath
<1> QED
  BY <1>5, <1>6, <1>7, <1>8 DEF SkipStep, Is

-----------------------------------------------------------------------------
(* Actions that write a row.                                               *)

\* A row that is open and stays so: its driver has it in hand.
LEMMA KeptPath ==
    ASSUME IInv, LInv, NEW p \in Proc, drv[p].pc # "none", NEW e, drv' = [drv EXCEPT ![p] = e],
           plan' = plan, run'.begun, run'.late = run.late,
           NEW i \in Pos, Opened(row, i), OnTrack(row, run.late, i), Opened(row', i),
           row'[i].inp = row[i].inp, row'[i].out = row[i].out, IsLoop(i) => row'[i].st = row[i].st,
           \A m \in Pos : m # i => row'[m] = row[m],
           e.pos = i, e.prior = drv[p].prior, e.pc \in OnStep \ {"fin"}, e.pc \in Trying => ~IsLoop(i),
           e.pc = "eval" => \A k \in Pos : k > i /\ Touched(row, k) => k \in e.prior
    PROVE  LInv'
<1>1. TypeOK /\ drv[p] \in Driver /\ RowsOK(row, run.late) /\ \A k \in drv[p].prior : Touched(row, k)
  BY PathFacts
<1>2. RowsOK(row', run.late)
  BY <1>1, KeptRows
<1>3. \A m \in Pos : Touched(row', m) <=> Touched(row, m)
  BY OpenEnds DEF Touched
<1>4. i \in Nat /\ \A m \in Pos : m < i => m # i
  BY <1>1, Order
<1>5. OnTrack(row', run.late, i)
  BY <1>1, <1>4, Before DEF OnTrack
<1>6. AtRow(e, row', run.late)
  BY <1>3, <1>5 DEF AtRow
<1>7. e.prior \subseteq Pos
  BY <1>1 DEF Driver
<1>8. PathOK(e, row', run.late)
  BY <1>1, <1>3, <1>6, <1>7 DEF PathOK, OnStep, Working, Calling, OnChild
<1> QED
  BY <1>2, <1>3, <1>8, WritePath

\* A row that ends, its event still to come.
LEMMA EndedPath ==
    ASSUME IInv, LInv, NEW p \in Proc, drv[p].pc \in OnStep, NEW e, drv' = [drv EXCEPT ![p] = e],
           UNCHANGED <<run, plan>>, NEW i \in Pos, i = drv[p].pos,
           row'[i].inp = row[i].inp, IsLoop(i) => row'[i].out = row[i].out,
           \A m \in Pos : m # i => row'[m] = row[m],
           e.pos = i, e.pc = "emit", e.prior = drv[p].prior, e.res \in {"succeeded", "failed"},
           row'[i].st = e.res,
           IsLoop(i) => drv[p].pc = "fin" /\ e.res = drv[p].res
    PROVE  LInv'
<1> DEFINE d == drv[p]  late == run.late
<1>1. /\ TypeOK /\ d \in Driver /\ RowsOK(row, late) /\ AtRow(d, row, late) /\ run.begun
      /\ \A k \in d.prior : Touched(row, k)
  BY PathFacts DEF PathOK, Begun
<1>2. Opened(row, i) /\ OnTrack(row, late, i)
      /\ (~late /\ IsLoop(i) /\ e.res = "succeeded" => \A m \in Pos : LoopOf(m) = i => ~Opened(row, m))
  BY <1>1 DEF AtRow
<1>3. RowsOK(row', late)
  BY <1>1, <1>2, ClosedRows DEF Terminal
<1>4. \A m \in Pos : Touched(row', m) <=> Touched(row, m)
  BY <1>2, OpenEnds DEF Touched
<1>5. i \in Nat /\ \A m \in Pos : m < i => m # i
  BY <1>1, Order
<1>6. OnTrack(row', late, i)
  BY <1>1, <1>2, <1>5, Before DEF OnTrack
<1>7. \A k \in Pos : k > i /\ Touched(row', k) => IsLoop(i) /\ LoopOf(k) = i
  BY <1>1, <1>2, <1>4, <1>5, Order DEF RowsOK, Frontier
<1>8. AtEvent(e, row', late)
  BY <1>6, <1>7 DEF AtEvent
<1>9. e.prior \subseteq Pos
  BY <1>1 DEF Driver
<1>10. PathOK(e, row', late)
  BY <1>1, <1>4, <1>8, <1>9 DEF PathOK, OnStep, Working, Calling, OnChild
<1>11. d.pc # "none"
  BY DEF OnStep, Working, Calling, OnChild
<1> QED
  BY <1>1, <1>3, <1>4, <1>10, <1>11, WritePath

\* A step that is claimed is the first one behind all rows.
LEMMA ClaimPath ==
    ASSUME IInv, LInv, NEW p \in Proc, Claim(p)
    PROVE  /\ LInv'
           /\ \A m \in Pos : drv[p].pos <= m => ~Touched(row, m)
           /\ Shut(row, drv[p].pos) /\ Framed(row, drv[p].pos)
<1> DEFINE d == drv[p]  i == d.pos  late == run.late
           e == [d EXCEPT !.pc = Entry(i), !.att = 1, !.exec = d.exec + 1, !.child = "none"]
           r == [st |-> "running", att |-> 1, inp |-> d.sc, out |-> 0]
<1>1. /\ Stepping(p) /\ row[i].st = "none" /\ UNCHANGED <<run, plan>>
      /\ row' = [row EXCEPT ![i] = r] /\ drv' = [drv EXCEPT ![p] = e]
  BY DEF Claim, Move, around
<1>2. /\ TypeOK /\ d.pc = "step" /\ d \in Driver /\ i \in DOMAIN plan /\ plan[i].kind # "end" /\ i \in Pos
      /\ row \in [Pos -> StepRow] /\ ~late /\ ~Spent(d)
  BY <1>1, SteppingFacts DEF Steppable, Stepping
<1>3. RowsOK(row, late) /\ AtStep(d, row, late) /\ run.begun /\ \A k \in d.prior : Touched(row, k)
  BY <1>2, PathFacts DEF PathOK, Begun
<1>4. ~Touched(row, i)
  BY <1>1 DEF Touched
<1>5. \A m \in Pos : i <= m => ~Touched(row, m)
  <2>1. RowsOK(row, FALSE) /\ AtStep(d, row, FALSE)
    BY <1>2, <1>3 DEF RowsOK, AtStep, OnTrack
  <2> QED
    BY <1>2, <1>4, <2>1, Fresh
<1>6. AppliesIn(row, i) /\ Framed(row, i) /\ Clear(row, i) /\ Shut(row, i)
  BY <1>2, <1>3 DEF AtStep, OnTrack
<1>7. Gap(row, i)
  <2>1. i \notin d.prior
    BY <1>3, <1>4
  <2>2. d.exec < MaxExecuted
    <3>1. d.exec \in Nat /\ MaxExecuted \in Nat
      BY <1>2, RunAssumption DEF Driver
    <3> QED
      BY <1>2, <2>1, <3>1 DEF Spent
  <2> QED
    BY <1>2, <1>3, <2>2 DEF AtStep
<1>8. row'[i].st = "running" /\ row'[i].out = 0 /\ \A m \in Pos : m # i => row'[m] = row[m]
  BY <1>1, <1>2
<1>9. RowsOK(row', late)
  BY <1>2, <1>3, <1>5, <1>6, <1>7, <1>8, ClaimedRows
<1>10. i \in Nat /\ Pos \subseteq Nat /\ \A m \in Pos : m < i => m # i
  BY <1>2, Order
<1>11. OnTrack(row', late, i) /\ Opened(row', i)
  BY <1>2, <1>6, <1>8, <1>10, Before DEF OnTrack, Opened
<1>12. e.pc = Entry(i) /\ e.pos = i /\ e.prior = d.prior
  BY <1>2 DEF Driver
<1>13. e.pc \in {"attempt", "eval"} /\ (e.pc = "attempt" => ~IsLoop(i))
  BY <1>12 DEF Entry, IsLoop
<1> HIDE DEF e
<1>14. \A m \in Pos : Touched(row, m) => Touched(row', m) /\ m # i
  BY <1>4, <1>8 DEF Touched
<1>15. \A k \in Pos : k > i => ~Touched(row', k)
  BY <1>5, <1>8, <1>10 DEF Touched
<1>16. AtRow(e, row', late)
  BY <1>11, <1>12, <1>13, <1>15 DEF AtRow, Trying, Calling, OnChild
<1>17. e.prior \subseteq Pos
  BY <1>2, <1>12 DEF Driver
<1>18. PathOK(e, row', late)
  BY <1>3, <1>12, <1>13, <1>14, <1>16, <1>17 DEF PathOK, OnStep, Working, Calling, OnChild
<1>19. LInv'
  BY <1>1, <1>2, <1>3, <1>9, <1>14, <1>18, WritePath
<1> QED
  BY <1>5, <1>6, <1>19

\* An interrupted row is taken up again, or closed as failed.
LEMMA ReclaimPath ==
    ASSUME IInv, LInv, NEW p \in Proc, Reclaim(p)
    PROVE  LInv'
<1> DEFINE d == drv[p]  i == d.pos  late == run.late
<1>1. Stepping(p) /\ row[i].st # "none" /\ ~Adopted(i) /\ UNCHANGED <<run, plan>>
  BY DEF Reclaim, around
<1>2. /\ TypeOK /\ d.pc = "step" /\ d \in Driver /\ i \in DOMAIN plan /\ i \in Pos
      /\ row \in [Pos -> StepRow]
  BY <1>1, SteppingFacts
<1>3. RowsOK(row, late) /\ AtStep(d, row, late) /\ run.begun /\ \A k \in d.prior : Touched(row, k)
  BY <1>2, PathFacts DEF PathOK, Begun
<1>4. Opened(row, i) /\ OnTrack(row, late, i)
  BY <1>1, <1>2, <1>3 DEF Opened, Adopted, StepRow, AtStep
<1>5. \A k \in Pos : k > i /\ Touched(row, k) => k \in d.prior
  <2>1. i \in Nat /\ Pos \subseteq Nat
    BY <1>2, Order
  <2>2. \A k \in Pos : k >= i /\ Touched(row, k) => k \in d.prior
    BY <1>3 DEF AtStep
  <2>3. \A k \in Pos : k > i => k >= i
    BY <2>1
  <2> QED
    BY <2>2, <2>3
<1>6. CASE Forbidden(i)
  <2> DEFINE e == [d EXCEPT !.pc = "fin", !.res = "failed"]
  <2>1. drv' = [drv EXCEPT ![p] = e] /\ row' = row
    BY <1>6 DEF Reclaim, Move
  <2>2. e.pc = "fin" /\ e.pos = i /\ e.res = "failed" /\ e.prior = d.prior
    BY <1>2 DEF Driver
  <2> HIDE DEF e
  <2>3. AtRow(e, row, late)
    BY <1>4, <2>2 DEF AtRow, Trying, Calling, OnChild
  <2>4. PathOK(e, row, late)
    BY <1>3, <2>2, <2>3 DEF PathOK, OnStep, Working, Calling, OnChild
  <2> QED
    BY <1>1, <1>2, <1>3, <2>1, <2>4, WalkPath
<1>7. CASE ~Forbidden(i)
  <2> DEFINE att == IF row[i].st = "waiting" THEN row[i].att ELSE row[i].att + 1
             child == IF kid[i].st = "none" THEN "none" ELSE "linked"
             e == [d EXCEPT !.pc = Entry(i), !.att = att, !.exec = d.exec + 1, !.child = child]
             r == [row[i] EXCEPT !.st = "running", !.att = att, !.inp = row[i].inp]
  <2>1. drv' = [drv EXCEPT ![p] = e] /\ row' = [row EXCEPT ![i] = r]
    BY <1>7 DEF Reclaim, Move, Input
  <2> HIDE DEF att, child
  <2>2. r.st = "running" /\ r.inp = row[i].inp /\ r.out = row[i].out
    BY <1>2 DEF StepRow
  <2>3. e.pc = Entry(i) /\ e.pos = i /\ e.prior = d.prior
    BY <1>2 DEF Driver
  <2>4. Entry(i) \in {"attempt", "eval"} /\ (Entry(i) = "attempt" => ~IsLoop(i))
    BY DEF Entry, IsLoop
  <2> HIDE DEF e, r
  <2>5. row'[i] = r /\ \A m \in Pos : m # i => row'[m] = row[m]
    BY <1>2, <2>1
  <2>6. IsLoop(i) => row[i].st = "running"
    BY <1>2, <1>3, <1>4 DEF RowsOK, Placed, Opened
  <2>7. e.pc \in OnStep \ {"fin"} /\ (e.pc \in Trying => ~IsLoop(i))
    BY <2>3, <2>4 DEF OnStep, Working, Calling, OnChild, Trying
  <2>8. /\ Opened(row', i) /\ row'[i].inp = row[i].inp /\ row'[i].out = row[i].out
        /\ IsLoop(i) => row'[i].st = row[i].st
    BY <2>2, <2>5, <2>6 DEF Opened
  <2>9. drv' = [drv EXCEPT ![p] = e] /\ \A m \in Pos : m # i => row'[m] = row[m]
    BY <2>1, <2>5
  <2>10. d.pc # "none" /\ i \in Pos /\ plan' = plan /\ run'.begun /\ run'.late = late
    BY <1>1, <1>2, <1>3
  <2>11. e.pos = i /\ e.prior = d.prior /\ \A k \in Pos : k > i /\ Touched(row, k) => k \in e.prior
    BY <1>5, <2>3
  <2> QED
    BY <1>4, <2>7, <2>8, <2>9, <2>10, <2>11, KeptPath
<1> QED
  BY <1>6, <1>7

\* A condition's value.
LEMMA DecidePath ==
    ASSUME IInv, LInv, NEW p \in Proc, Filter(p) \/ Branch(p)
    PROVE  LInv'
<1> DEFINE d == drv[p]  i == d.pos
<1>0. Decide(p)
  BY DEF Filter, Branch
<1>1. /\ d.pc = "eval" /\ d.pc \in OnStep /\ UNCHANGED <<run, plan>> /\ ~IsLoop(i)
  BY DEF Filter, Branch, Is, Decide, around, OnStep, Working, IsLoop
<1>2. TypeOK /\ d \in Driver /\ i \in Pos /\ row \in [Pos -> StepRow]
  BY <1>1, PathFacts, Order DEF Working, TypeOK
<1>3. CASE Move(p, Closing(d, "failed")) /\ UNCHANGED row
  BY <1>1, <1>2, <1>3, AlikeClosing, DriverStays DEF Move
<1>4. ASSUME NEW v \in {0, 1}, row' = [row EXCEPT ![i].st = "succeeded", ![i].out = v],
             Move(p, [d EXCEPT !.pc = "emit", !.res = "succeeded"])
      PROVE  LInv'
  <2> DEFINE e == [d EXCEPT !.pc = "emit", !.res = "succeeded"]
  <2>1. e.pc = "emit" /\ e.pos = i /\ e.res = "succeeded" /\ e.prior = d.prior
        /\ drv' = [drv EXCEPT ![p] = e]
    BY <1>2, <1>4 DEF Driver, Move
  <2> HIDE DEF e
  <2>2. row'[i].st = "succeeded" /\ row'[i].inp = row[i].inp /\ \A k \in Pos : k # i => row'[k] = row[k]
    BY <1>2, <1>4 DEF StepRow
  <2> QED
    BY <1>1, <1>2, <2>1, <2>2, EndedPath
<1> QED
  BY <1>0, <1>3, <1>4 DEF Decide

\* The outcome of a control step, of a loop or of a step that was refused.
LEMMA FinishPath ==
    ASSUME IInv, LInv, NEW p \in Proc, Finish(p)
    PROVE  LInv'
<1> DEFINE d == drv[p]  i == d.pos  e == At(d, "emit")
<1>1. /\ d.pc = "fin" /\ d.pc \in OnStep /\ UNCHANGED <<run, plan>>
      /\ row' = [row EXCEPT ![i].st = d.res] /\ drv' = [drv EXCEPT ![p] = e]
  BY DEF Finish, Is, Goto, Move, around, OnStep
<1>2. /\ TypeOK /\ d \in Driver /\ i \in Pos /\ row \in [Pos -> StepRow] /\ AtRow(d, row, run.late)
  BY <1>1, PathFacts, Order DEF Closes, TypeOK, PathOK
<1>3. d.res \in {"succeeded", "failed"}
  BY <1>1, <1>2 DEF AtRow
<1>4. e.pc = "emit" /\ e.pos = i /\ e.res = d.res /\ e.prior = d.prior
  BY <1>2 DEF Driver, At
<1> HIDE DEF e
<1>5. row'[i].st = d.res /\ row'[i].inp = row[i].inp /\ row'[i].out = row[i].out
      /\ \A k \in Pos : k # i => row'[k] = row[k]
  BY <1>1, <1>2 DEF StepRow
<1>6. d.pc = "fin" /\ d.pc \in OnStep /\ UNCHANGED <<run, plan>> /\ drv' = [drv EXCEPT ![p] = e] /\ i \in Pos
  BY <1>1, <1>2
<1> QED
  BY <1>3, <1>4, <1>5, <1>6, EndedPath

\* A call that returns.
LEMMA ReturnPath ==
    ASSUME IInv, LInv, NEW p \in Proc, Return(p)
    PROVE  LInv'
<1> DEFINE d == drv[p]  i == d.pos
<1>1. /\ d.pc = "calling" /\ d.pc \in OnStep /\ d.pc \in Trying /\ UNCHANGED <<run, plan>>
  BY DEF Return, Is, around, OnStep, Working, Calling, Trying
<1>2. /\ TypeOK /\ d \in Driver /\ i \in Pos /\ row \in [Pos -> StepRow] /\ ~IsLoop(i)
  BY <1>1, PathFacts, Order DEF Working, Calling, TypeOK, PathOK, AtRow
<1>3. ASSUME NEW e, drv' = [drv EXCEPT ![p] = e], Alike(d, e), row' = row PROVE LInv'
  BY <1>1, <1>3, DriverStays
<1>4. CASE \E pc \in {"exit", "cancelrow"} : Goto(p, pc) /\ UNCHANGED row
  <2>1. PICK pc \in {"exit", "cancelrow"} : drv' = [drv EXCEPT ![p] = At(d, pc)] /\ row' = row
    BY <1>4 DEF Goto, Move
  <2>2. Alike(d, At(d, pc))
    BY <1>1, <1>2, AlikeAt DEF Begun, OnStep, Working, Calling, OnChild, Trying
  <2> QED
    BY <1>3, <2>1, <2>2
<1>5. ASSUME NEW b, Move(p, Closing(d, "failed")) \/ Move(p, Failed(d, b)), UNCHANGED row
      PROVE  LInv'
  <2>1. Alike(d, Closing(d, "failed")) /\ Alike(d, Failed(d, b))
    BY <1>1, <1>2, AlikeClosing, AlikeFailed
  <2> QED
    BY <1>3, <1>5, <2>1 DEF Move
<1>6. ASSUME NEW v \in Value, row' = [row EXCEPT ![i].st = "succeeded", ![i].out = v],
             Move(p, [d EXCEPT !.pc = "emit", !.res = "succeeded"])
      PROVE  LInv'
  <2> DEFINE e == [d EXCEPT !.pc = "emit", !.res = "succeeded"]
  <2>1. e.pc = "emit" /\ e.pos = i /\ e.res = "succeeded" /\ e.prior = d.prior
        /\ drv' = [drv EXCEPT ![p] = e]
    BY <1>2, <1>6 DEF Driver, Move
  <2> HIDE DEF e
  <2>2. row'[i].st = "succeeded" /\ row'[i].inp = row[i].inp /\ \A k \in Pos : k # i => row'[k] = row[k]
    BY <1>2, <1>6 DEF StepRow
  <2> QED
    BY <1>1, <1>2, <2>1, <2>2, EndedPath
<1> QED
  BY <1>4, <1>5, <1>6 DEF Return

\* What the child of an agent step decides.
LEMMA WatchPath ==
    ASSUME IInv, LInv, NEW p \in Proc, Watch(p)
    PROVE  LInv'
<1> DEFINE d == drv[p]  i == d.pos
<1>1. /\ d.pc = "watch" /\ d.pc \in OnStep /\ d.pc \in Trying /\ UNCHANGED <<run, plan>>
  BY DEF Watch, Is, OnStep, Working, OnChild, Trying
<1>2. /\ TypeOK /\ d \in Driver /\ i \in Pos /\ row \in [Pos -> StepRow] /\ ~IsLoop(i)
  BY <1>1, PathFacts, Order DEF Working, OnChild, TypeOK, PathOK, AtRow
<1>3. ASSUME NEW e, drv' = [drv EXCEPT ![p] = e], Alike(d, e), row' = row PROVE LInv'
  BY <1>1, <1>3, DriverStays
<1>4. CASE Move(p, At(d, "park")) /\ row' = row
  BY <1>1, <1>2, <1>3, <1>4, AlikeAt DEF Move, OnStep, Working, OnChild, Trying
<1>5. CASE Move(p, Failed(d, FALSE)) /\ row' = row
  BY <1>1, <1>2, <1>3, <1>5, AlikeFailed DEF Move
<1>6. CASE Move(p, [d EXCEPT !.pc = "dispatching", !.child = "stillborn"]) /\ row' = row
  <2>1. Alike(d, [d EXCEPT !.pc = "dispatching", !.child = "stillborn"])
    BY <1>1, <1>2 DEF Alike, Driver, OnStep, Working, OnChild, Trying
  <2> QED
    BY <1>3, <1>6, <2>1 DEF Move
<1>7. ASSUME NEW v \in Value, row' = [row EXCEPT ![i].st = "succeeded", ![i].out = v],
             Move(p, [d EXCEPT !.pc = "emit", !.res = "succeeded"])
      PROVE  LInv'
  <2> DEFINE e == [d EXCEPT !.pc = "emit", !.res = "succeeded"]
  <2>1. e.pc = "emit" /\ e.pos = i /\ e.res = "succeeded" /\ e.prior = d.prior
        /\ drv' = [drv EXCEPT ![p] = e]
    BY <1>2, <1>7 DEF Driver, Move
  <2> HIDE DEF e
  <2>2. row'[i].st = "succeeded" /\ row'[i].inp = row[i].inp /\ \A k \in Pos : k # i => row'[k] = row[k]
    BY <1>2, <1>7 DEF StepRow
  <2> QED
    BY <1>1, <1>2, <2>1, <2>2, EndedPath
<1> QED
  BY <1>4, <1>5, <1>6, <1>7 DEF Watch, Goto

\* The row of a step that was canceled.
LEMMA CloseCanceledPath ==
    ASSUME IInv, LInv, NEW p \in Proc, CloseCanceled(p)
    PROVE  LInv'
<1> DEFINE d == drv[p]  i == d.pos  late == run.late
<1>0. CASE Goto(p, "exit") /\ UNCHANGED row
  <2>1. drv' = [drv EXCEPT ![p] = At(d, "exit")] /\ UNCHANGED <<run, plan>>
    BY <1>0 DEF CloseCanceled, Goto, Move, around
  <2>2. Alike(d, At(d, "exit"))
    BY AlikeAt DEF IInv, TypeOK, Begun, OnStep, Working, Calling, OnChild
  <2> QED
    BY <1>0, <2>1, <2>2, DriverStays
<1> SUFFICES ASSUME ~(Goto(p, "exit") /\ UNCHANGED row)
             PROVE  LInv'
  BY <1>0
<1>1. /\ d.pc = "cancelrow" /\ UNCHANGED <<run, plan>>
      /\ row' = [row EXCEPT ![i].st = "canceled"] /\ drv' = [drv EXCEPT ![p] = Canceling(d, i)]
  BY DEF CloseCanceled, Is, Move, around
<1>2. /\ TypeOK /\ d \in Driver /\ i \in DOMAIN plan /\ i \in Pos /\ row \in [Pos -> StepRow]
      /\ RowsOK(row, late) /\ Opened(row, i) /\ run.begun /\ \A k \in d.prior : Touched(row, k)
  BY <1>1, PathFacts, Order DEF Closes, TypeOK, PathOK, Begun
<1>3. row'[i].st = "canceled" /\ row'[i].inp = row[i].inp /\ row'[i].out = row[i].out
      /\ \A k \in Pos : k # i => row'[k] = row[k]
  BY <1>1, <1>2 DEF StepRow
<1>4. RowsOK(row', late)
  BY <1>2, <1>3, ClosedRows DEF Terminal
<1>5. \A m \in Pos : Touched(row, m) => Touched(row', m)
  BY <1>3 DEF Touched
<1>6. d.prior \subseteq Pos
  BY <1>2 DEF Driver
<1>7. PathOK(Canceling(d, i), row', late)
  BY <1>2, <1>3, <1>5, <1>6, CancelingPath
<1>8. d.pc # "none" /\ plan' = plan /\ run'.begun /\ run'.late = late /\ drv' = [drv EXCEPT ![p] = Canceling(d, i)]
  BY <1>1, <1>2
<1> QED
  BY <1>4, <1>5, <1>7, <1>8, WritePath

\* The row of a leaf that failed.
LEMMA RecordFailurePath ==
    ASSUME IInv, LInv, NEW p \in Proc, RecordFailure(p)
    PROVE  LInv'
<1> DEFINE d == drv[p]  i == d.pos  late == run.late
<1>1. /\ d.pc = "failed" /\ d.pc \in OnStep /\ UNCHANGED <<run, plan>>
      /\ row' = [row EXCEPT ![i].st = "failed"] /\ drv' = [drv EXCEPT ![p] = Failing(d, i)]
  BY DEF RecordFailure, Is, Move, around, OnStep
<1>2. /\ TypeOK /\ d \in Driver /\ i \in DOMAIN plan /\ plan[i].kind # "end" /\ i \in Pos
      /\ row \in [Pos -> StepRow] /\ RowsOK(row, late) /\ AtRow(d, row, late) /\ run.begun
      /\ \A k \in d.prior : Touched(row, k)
  BY <1>1, PathFacts, Order DEF Closes, TypeOK, PathOK, Begun
<1>3. row'[i].st = "failed" /\ row'[i].inp = row[i].inp /\ row'[i].out = row[i].out
      /\ \A k \in Pos : k # i => row'[k] = row[k]
  BY <1>1, <1>2 DEF StepRow
<1>4. Opened(row, i) /\ OnTrack(row, late, i)
  BY <1>2 DEF AtRow
<1>5. RowsOK(row', late)
  BY <1>2, <1>3, <1>4, ClosedRows DEF Terminal
<1>6. \A m \in Pos : Touched(row, m) <=> Touched(row', m)
  BY <1>3, <1>4, OpenEnds DEF Touched
<1>7. i \in Nat /\ \A m \in Pos : m < i => m # i
  BY <1>2, Order
<1>8. OnTrack(row', late, i)
  BY <1>2, <1>3, <1>4, <1>7, Before DEF OnTrack
<1>9. \A m \in Pos : i < m /\ LoopOf(i) # 0 /\ Touched(row', m) => m \in d.prior
  <2>1. IsLoop(i) => LoopOf(i) = 0
    BY <1>2, LoopShape
  <2> QED
    BY <1>2, <1>4, <1>6, <2>1 DEF RowsOK, Frontier
<1>10. SameData(row') /\ (\A k \in d.prior : Touched(row', k))
  BY <1>2, <1>3, <1>6 DEF SameData, Driver
<1>11. PathOK(Failing(d, i), row', late)
  BY <1>2, <1>3, <1>5, <1>8, <1>9, <1>10, FailingPath
<1>12. d.pc # "none" /\ plan' = plan /\ run'.begun /\ run'.late = late /\ drv' = [drv EXCEPT ![p] = Failing(d, i)]
  BY <1>1, <1>2
<1> QED
  BY <1>5, <1>6, <1>11, <1>12, WritePath

\* Another attempt, and the wait for a child.
LEMMA WaitPath ==
    ASSUME IInv, LInv, NEW p \in Proc, Retry(p) \/ Park(p) \/ Unpark(p)
    PROVE  LInv'
<1> DEFINE d == drv[p]  i == d.pos  late == run.late
<1>1. d.pc \in Trying /\ d.pc \in OnStep /\ d.pc \in Working /\ d.pc # "none" /\ plan' = plan
  BY DEF Retry, Park, Unpark, Is, around, OnStep, Working, Calling, OnChild, Trying
<1>2. /\ TypeOK /\ d \in Driver /\ i \in Pos /\ row \in [Pos -> StepRow] /\ AtRow(d, row, late) /\ run.begun
      /\ run \in RunRow
  BY <1>1, PathFacts, Order DEF IInv, TypeOK, PathOK, Begun
<1>3. Opened(row, i) /\ OnTrack(row, late, i) /\ ~IsLoop(i)
  BY <1>1, <1>2 DEF AtRow
<1>4. run'.late = late /\ run'.begun
  BY <1>2, RunMarks DEF Retry, Park, Unpark
<1>5. ASSUME NEW e, drv' = [drv EXCEPT ![p] = e], e.pos = i, e.prior = d.prior, e.pc \in Trying,
             row'[i].st \in {"running", "waiting"}, row'[i].inp = row[i].inp, row'[i].out = row[i].out,
             \A m \in Pos : m # i => row'[m] = row[m]
      PROVE  LInv'
  <2>1. e.pc \in OnStep \ {"fin"} /\ e.pc # "eval" /\ Opened(row', i)
    BY <1>5 DEF OnStep, Trying, Working, Calling, OnChild, Opened
  <2> QED
    BY <1>1, <1>2, <1>3, <1>4, <1>5, <2>1, KeptPath
<1>6. CASE Retry(p)
  <2> DEFINE e == [d EXCEPT !.pc = "attempt", !.att = d.att + 1]
  <2>1. drv' = [drv EXCEPT ![p] = e] /\ row' = [row EXCEPT ![i].st = "running", ![i].att = d.att + 1]
    BY <1>6 DEF Retry, Move
  <2>2. e.pos = i /\ e.prior = d.prior /\ e.pc \in Trying
    BY <1>2 DEF Driver, Trying, Calling
  <2> HIDE DEF e
  <2>3. row'[i].st = "running" /\ row'[i].inp = row[i].inp /\ row'[i].out = row[i].out
        /\ \A m \in Pos : m # i => row'[m] = row[m]
    BY <1>2, <2>1 DEF StepRow
  <2> QED
    BY <1>5, <2>1, <2>2, <2>3
<1>7. ASSUME NEW pc \in Trying, NEW st \in {"running", "waiting"}, Goto(p, pc),
             row' = [row EXCEPT ![i].st = st]
      PROVE  LInv'
  <2> DEFINE e == At(d, pc)
  <2>1. drv' = [drv EXCEPT ![p] = e]
    BY <1>7 DEF Goto, Move
  <2>2. e.pos = i /\ e.prior = d.prior /\ e.pc \in Trying
    BY <1>2 DEF Driver, At
  <2> HIDE DEF e
  <2>3. row'[i].st = st /\ row'[i].inp = row[i].inp /\ row'[i].out = row[i].out
        /\ \A m \in Pos : m # i => row'[m] = row[m]
    BY <1>2, <1>7 DEF StepRow
  <2> QED
    BY <1>5, <2>1, <2>2, <2>3
<1>8. CASE Park(p)
  BY <1>7, <1>8 DEF Park, Trying, OnChild
<1>9. CASE Unpark(p) /\ (d.intr \/ d.cancel)
  <2>1. row' = row /\ \E pc \in {"exit", "cancelrow"} : drv' = [drv EXCEPT ![p] = At(d, pc)]
    BY <1>9 DEF Unpark, Goto, Move
  <2>2. \A pc \in {"exit", "cancelrow"} : Alike(d, At(d, pc))
    BY <1>1, <1>2, AlikeAt DEF Begun, OnStep, Working, Calling, OnChild, Trying
  <2>3. run'.begun = run.begun
    BY <1>2, RunMarks, <1>9 DEF Unpark
  <2> QED
    BY <1>1, <1>4, <2>1, <2>2, <2>3, DriverStays
<1>10. CASE Unpark(p) /\ ~(d.intr \/ d.cancel)
  BY <1>7, <1>10 DEF Unpark, Trying, Calling
<1> QED
  BY <1>6, <1>8, <1>9, <1>10

-----------------------------------------------------------------------------
(* The invariant holds.                                                    *)

\* Nothing is claimed at first.
LEMMA InitLInv == Init => LInv
<1> SUFFICES ASSUME Init PROVE LInv
  OBVIOUS
<1>1. \A i \in Pos : ~Touched(row, i) /\ row[i].st = "none" /\ row[i].out = 0
  BY DEF Init, NoRow, Touched
<1>2. \A i \in Pos : ~Opened(row, i) /\ ~Ended(row, i)
  BY <1>1 DEF Opened, Ended, Terminal
<1>3. Placed(row) /\ Gapless(row) /\ Frontier(row) /\ Halted(row) /\ Skipped(row) /\ Bodies(row)
  BY <1>1, <1>2 DEF Placed, Gapless, Frontier, Halted, Skipped, Bodies
<1>4. \A p \in Proc : drv[p].pc = "none" /\ drv[p].prior = {}
  BY DEF Init, NoDriver
<1>5. \A p \in Proc : PathOK(drv[p], row, run.late)
  BY <1>4 DEF PathOK, OnStep, Working, Calling, OnChild
<1>6. \A p \in Proc : drv[p].pc \notin Begun
  BY <1>4 DEF Begun, OnStep, Working, Calling, OnChild
<1> QED
  BY <1>1, <1>3, <1>5, <1>6 DEF LInv, RowsOK

\* A step of a driver keeps the replay on its path.
LEMMA StepsPath ==
    ASSUME IInv, LInv, NEW p \in Proc, Steps(p)
    PROVE  LInv'
<1>1. CASE Boot(p) \/ Begin(p) \/ Boundary(p) \/ Claim(p) \/ Adopt(p) \/ Reclaim(p)
  BY <1>1, LeavePath, BeginPath, BoundaryPath, ClaimPath, AdoptPath, ReclaimPath
<1>2. CASE Filter(p) \/ Branch(p) \/ StateWrite(p) \/ LoopEnter(p) \/ Finish(p) \/ Emit(p) \/ CloseCanceled(p)
  BY <1>2, DecidePath, TryPath, LoopEnterPath, FinishPath, EmitPath, CloseCanceledPath
<1>3. CASE SkipStep(p) \/ SkipEmit(p) \/ Attempt(p) \/ Return(p) \/ Retry(p)
  BY <1>3, SkipStepPath, TryPath, ReturnPath, WaitPath
<1>4. CASE EmitFailure(p) \/ RecordFailure(p) \/ Abandon(p) \/ Watch(p) \/ Park(p) \/ Unpark(p)
  BY <1>4, TryPath, RecordFailurePath, WatchPath, WaitPath
<1>5. CASE Settles(p)
  BY <1>5, LeavePath DEF Settles
<1> QED
  BY <1>1, <1>2, <1>3, <1>4, <1>5 DEF Steps

\* So does every step of the system.
LEMMA NextLInv ==
    ASSUME IInv, LInv, [Next]_vars
    PROVE  LInv'
<1>1. ASSUME NEW p \in Proc, Start(p) \/ Resume(p) \/ ResumeFails(p) \/ Steps(p)
      PROVE  LInv'
  BY <1>1, LaunchPath, BesidePath, StepsPath
<1>2. ASSUME NEW p \in Proc, \/ RecoverDelivery(p) \/ DriverError(p) \/ Stop(p) \/ Shutdown(p)
                             \/ Crash(p) \/ Closed(p) \/ Restart(p)
      PROVE  LInv'
  BY <1>2, BesidePath, LeavePath, FlagPath
<1>3. ASSUME NEW j \in jobs, Link(j) \/ Send(j) \/ Fence(j)
      PROVE  LInv'
  BY <1>3, DispatchPath
<1>4. CASE (\E h \in sweep : StopChildren(h)) \/ (\E i \in Pos : ChildMoves(i)) \/ Deadline \/ OtherRunWrites
  BY <1>4, BesidePath
<1>5. CASE UNCHANGED vars
  <2>1. UNCHANGED <<plan, row, drv>> /\ run'.begun = run.begun /\ run'.late = run.late
    BY <1>5 DEF vars
  <2> QED
    BY <2>1, AsidePath
<1> QED
  BY <1>1, <1>2, <1>3, <1>4, <1>5 DEF Next, Dispatches

\* Whoever replays the ledger, after whichever crash, comes to the step that
\* was under way before any step that was never claimed (runSequence's boundary,
\* adoptTerminal, claim): the rows keep their order, and a driver at work is
\* where they say.
THEOREM ReplayHolds == Spec => []LInv
<1>1. Init => LInv
  BY InitLInv
<1>2. IInv /\ LInv /\ [Next]_vars => LInv'
  BY NextLInv
<1> QED
  BY <1>1, <1>2, InvariantHolds, PTL DEF Spec

-----------------------------------------------------------------------------
(* The refinement.                                                         *)

\* What a step of the system may do to the rows.
Opens(i) == ~Touched(row, i) /\ row'[i].st = "running" /\ \A m \in Pos : Opened(row, m) => IsLoop(m)
Ends(i) == Opened(row, i) /\ row'[i].st \in Terminal
Passes(i) == ~Touched(row, i) /\ row'[i].st = "skipped" /\ \A m \in Pos : ~Opened(row, m)
Keeps(i) == Opened(row, i) /\ Opened(row', i)
RowStep ==
    \/ row' = row
    \/ \E i \in Pos : /\ \A m \in Pos : m # i => row'[m] = row[m]
                      /\ Opens(i) \/ Ends(i) \/ Passes(i) \/ Keeps(i)

\* The row under a driver at work is open.
LEMMA RowInHand ==
    ASSUME IInv, LInv, NEW p \in Proc, drv[p].pc \in OnStep \cup {"cancelrow"}
    PROVE  drv[p].pos \in Pos /\ Opened(row, drv[p].pos) /\ row \in [Pos -> StepRow]
           /\ (drv[p].pc = "fin" => drv[p].res \in Terminal)
<1>1. drv[p].pos \in Pos /\ row \in [Pos -> StepRow]
  BY PathFacts, Order DEF IInv, TypeOK, OnStep, Closes
<1>2. PathOK(drv[p], row, run.late)
  BY PathFacts
<1> QED
  BY <1>1, <1>2 DEF PathOK, AtRow, Terminal

\* A driver opens, ends or keeps one row.
LEMMA DriverRows ==
    ASSUME IInv, LInv, NEW p \in Proc, Steps(p)
    PROVE  RowStep
<1> DEFINE d == drv[p]  i == d.pos
<1>1. CASE Claim(p)
  <2>1. /\ row[i].st = "none" /\ i \in Pos /\ row \in [Pos -> StepRow] /\ TypeOK
        /\ row' = [row EXCEPT ![i] = [st |-> "running", att |-> 1, inp |-> d.sc, out |-> 0]]
    BY <1>1, SteppingFacts DEF Claim
  <2>2. /\ ~Touched(row, i) /\ row'[i].st = "running" /\ \A m \in Pos : m # i => row'[m] = row[m]
    BY <2>1 DEF Touched
  <2>3. ASSUME NEW m \in Pos, Opened(row, m) PROVE IsLoop(m)
    <3>1. Touched(row, m)
      BY <2>3, OpenEnds
    <3>2. ~(i <= m) /\ Shut(row, i)
      BY <1>1, <3>1, ClaimPath
    <3>3. m < i /\ m # 0
      BY <2>1, <3>2, Order
    <3>4. m = LoopOf(i)
      BY <2>3, <3>2, <3>3 DEF Shut
    <3> QED
      BY <2>1, <3>3, <3>4, Order
  <2> QED
    BY <2>1, <2>2, <2>3 DEF RowStep, Opens
<1>2. CASE Reclaim(p)
  <2>1. /\ i \in Pos /\ row \in [Pos -> StepRow] /\ row[i].st # "none" /\ ~Adopted(i)
        /\ \/ row' = row
           \/ \E att : row' = [row EXCEPT ![i].st = "running", ![i].att = att, ![i].inp = Input(d, i)]
    BY <1>2, SteppingFacts DEF Reclaim
  <2>2. Opened(row, i)
    BY <2>1 DEF Opened, Adopted, StepRow
  <2>3. CASE row' = row
    BY <2>3 DEF RowStep
  <2>4. ASSUME NEW r, r.st = "running", row' = [row EXCEPT ![i] = r]
        PROVE  RowStep
    <3>1. row'[i].st = "running" /\ \A m \in Pos : m # i => row'[m] = row[m]
      BY <2>1, <2>4
    <3> QED
      BY <2>1, <2>2, <3>1 DEF RowStep, Keeps, Opened
  <2>5. ASSUME NEW att, row' = [row EXCEPT ![i].st = "running", ![i].att = att, ![i].inp = Input(d, i)]
        PROVE  RowStep
    <3> DEFINE inp == Input(d, i)
               r == [row[i] EXCEPT !.st = "running", !.att = att, !.inp = inp]
    <3> HIDE DEF inp
    <3>1. row' = [row EXCEPT ![i].st = "running", ![i].att = att, ![i].inp = inp]
      BY <2>5 DEF inp
    <3>2. row' = [row EXCEPT ![i] = r]
      BY <3>1, <2>1
    <3>3. row[i] \in StepRow
      BY <2>1
    <3>4. r.st = "running"
      BY <3>3 DEF StepRow
    <3> QED
      BY <2>4, <3>2, <3>4
  <2> QED
    BY <2>1, <2>3, <2>5
<1>3. CASE Filter(p) \/ Branch(p) \/ Return(p) \/ Watch(p)
  <2>1. d.pc \in OnStep
    BY <1>3 DEF Filter, Branch, Return, Watch, Is, OnStep, Working, Calling, OnChild
  <2>2. i \in Pos /\ Opened(row, i) /\ row \in [Pos -> StepRow]
    BY <2>1, RowInHand
  <2>3. row' = row \/ \E v : row' = [row EXCEPT ![i].st = "succeeded", ![i].out = v]
    BY <1>3 DEF Filter, Branch, Decide, Return, Watch
  <2>4. row' = row \/ (row'[i].st = "succeeded" /\ \A m \in Pos : m # i => row'[m] = row[m])
    BY <2>2, <2>3 DEF StepRow
  <2> QED
    BY <2>2, <2>4 DEF RowStep, Ends, Terminal
<1>4. CASE Finish(p) \/ CloseCanceled(p) \/ RecordFailure(p)
  <2>1. d.pc \in OnStep \cup {"cancelrow"} /\ (Finish(p) => d.pc = "fin")
    BY <1>4 DEF Finish, CloseCanceled, RecordFailure, Is, OnStep
  <2>2. i \in Pos /\ Opened(row, i) /\ row \in [Pos -> StepRow] /\ (Finish(p) => d.res \in Terminal)
    BY <2>1, RowInHand
  <2>3. row' = row \/ \E st \in Terminal : row' = [row EXCEPT ![i].st = st]
    BY <1>4, <2>2 DEF Finish, CloseCanceled, RecordFailure, Terminal
  <2>4. row' = row \/ (row'[i].st \in Terminal /\ \A m \in Pos : m # i => row'[m] = row[m])
    BY <2>2, <2>3 DEF StepRow
  <2> QED
    BY <2>2, <2>4 DEF RowStep, Ends
<1>5. CASE Retry(p) \/ Park(p) \/ Unpark(p)
  <2>1. d.pc \in OnStep
    BY <1>5 DEF Retry, Park, Unpark, Is, OnStep, Working, Calling, OnChild
  <2>2. i \in Pos /\ Opened(row, i) /\ row \in [Pos -> StepRow]
    BY <2>1, RowInHand
  <2>3. \/ row' = row
        \/ \E st \in {"running", "waiting"} : row' = [row EXCEPT ![i].st = st]
        \/ \E att : row' = [row EXCEPT ![i].st = "running", ![i].att = att]
    BY <1>5 DEF Retry, Park, Unpark
  <2>4. row' = row \/ (Opened(row', i) /\ \A m \in Pos : m # i => row'[m] = row[m])
    BY <2>2, <2>3 DEF StepRow, Opened
  <2> QED
    BY <2>2, <2>4 DEF RowStep, Keeps
<1>6. CASE SkipStep(p)
  <2>1. /\ TypeOK /\ RowsOK(row, run.late) /\ FilteredOut(row, i) /\ row \in [Pos -> StepRow] /\ d \in Driver
    BY <1>6, PathFacts DEF SkipStep, Is, PathOK, TypeOK
  <2>2. CASE row' = row
    BY <2>2 DEF RowStep
  <2>3. CASE i <= Len /\ row[i].st = "none" /\ row' = [row EXCEPT ![i].st = "skipped"]
    <3>1. i \in Pos
      <4>1. Len \in Nat /\ Len <= MaxLen /\ MaxLen \in Nat /\ i \in 1 .. MaxLen + 1
        BY <2>1, Order DEF Driver
      <4> QED
        BY <2>3, <4>1 DEF Pos
    <3>2. \A m \in Pos : ~Opened(row, m)
      BY <2>1, NothingOpen DEF RowsOK
    <3>3. row'[i].st = "skipped" /\ ~Touched(row, i) /\ \A m \in Pos : m # i => row'[m] = row[m]
      BY <2>1, <2>3, <3>1 DEF StepRow, Touched
    <3> QED
      BY <3>1, <3>2, <3>3 DEF RowStep, Passes
  <2> QED
    BY <1>6, <2>2, <2>3 DEF SkipStep
<1>7. CASE \/ Boot(p) \/ Begin(p) \/ Boundary(p) \/ Adopt(p) \/ StateWrite(p) \/ LoopEnter(p) \/ Emit(p)
           \/ SkipEmit(p) \/ Attempt(p) \/ EmitFailure(p) \/ Abandon(p) \/ Settles(p)
  BY <1>7 DEF RowStep, Boot, Begin, Boundary, Adopt, StateWrite, LoopEnter, Emit, SkipEmit, Attempt,
              EmitFailure, Abandon, Settles, Settle, Deliver, Post, Mark, Release, tables
<1> QED
  BY <1>1, <1>2, <1>3, <1>4, <1>5, <1>6, <1>7 DEF Steps

\* Only drivers write rows.
LEMMA NextRows ==
    ASSUME IInv, LInv, [Next]_vars
    PROVE  RowStep /\ plan' = plan
<1>1. ASSUME NEW p \in Proc, Steps(p) PROVE RowStep /\ plan' = plan
  <2>1. RowStep
    BY <1>1, DriverRows
  <2>2. CASE Settles(p) \/ Abandon(p) \/ Attempt(p) \/ Watch(p)
    BY <2>1, <2>2 DEF Settles, Settle, Deliver, Post, Mark, Release, Abandon, Attempt, Watch, around, tables
  <2>3. CASE \/ Boot(p) \/ Begin(p) \/ Boundary(p) \/ Claim(p) \/ Adopt(p) \/ Reclaim(p)
             \/ Filter(p) \/ Branch(p) \/ StateWrite(p) \/ LoopEnter(p) \/ Finish(p) \/ Emit(p)
    BY <2>1, <2>3 DEF Boot, Begin, Boundary, Claim, Adopt, Reclaim, Filter, Branch, Decide, StateWrite,
                      LoopEnter, Finish, Emit, around
  <2>4. CASE \/ CloseCanceled(p) \/ SkipStep(p) \/ SkipEmit(p) \/ Return(p) \/ Retry(p)
             \/ EmitFailure(p) \/ RecordFailure(p) \/ Park(p) \/ Unpark(p)
    BY <2>1, <2>4 DEF CloseCanceled, SkipStep, SkipEmit, Return, Retry, EmitFailure, RecordFailure,
                      Park, Unpark, around
  <2> QED
    BY <1>1, <2>2, <2>3, <2>4 DEF Steps
<1>2. ASSUME NEW p \in Proc, \/ Start(p) \/ Resume(p) \/ ResumeFails(p) \/ RecoverDelivery(p) \/ DriverError(p)
                             \/ Stop(p) \/ Shutdown(p) \/ Crash(p) \/ Closed(p) \/ Restart(p)
      PROVE  row' = row /\ plan' = plan
  BY <1>2 DEF Start, Resume, ResumeFails, RecoverDelivery, DriverError, Stop, Shutdown, Crash, Closed, Gone,
              Restart, tables, around
<1>3. ASSUME NEW j \in jobs, Link(j) \/ Send(j) \/ Fence(j)
      PROVE  row' = row /\ plan' = plan
  BY <1>3 DEF Link, Send, Fence
<1>4. CASE (\E h \in sweep : StopChildren(h)) \/ (\E i \in Pos : ChildMoves(i)) \/ Deadline \/ OtherRunWrites
  BY <1>4 DEF StopChildren, ChildMoves, Deadline, OtherRunWrites, RowStep
<1>5. CASE UNCHANGED vars
  BY <1>5 DEF vars, RowStep
<1> QED
  BY <1>1, <1>2, <1>3, <1>4, <1>5 DEF Next, Dispatches, RowStep

\* What the ledger shows of a row.
Shows(st) ==
    CASE st = "none" -> "blank"
      [] st \in {"running", "waiting"} -> "open"
      [] OTHER -> st

\* A cell of the abstract ledger is its row seen through Shows.
LEMMA CellShows ==
    /\ cell = [i \in Pos |-> Shows(row[i].st)]
    /\ cell' = [i \in Pos |-> Shows(row'[i].st)]
<1>1. cell = [i \in Pos |-> Shows(row[i].st)]
  BY DEF cell, Shows
<1>2. cell' = [i \in Pos |-> Shows(row'[i].st)]
  BY DEF cell, Shows
<1> QED
  BY <1>1, <1>2

\* The cells that are open are those whose row a driver has in hand.
LEMMA OpenCells ==
    ASSUME TypeOK
    PROVE  \A i \in Pos : cell[i] = "open" <=> Opened(row, i)
<1>1. \A i \in Pos : row[i].st \in {"none", "running", "waiting", "skipped"} \cup Terminal
  BY DEF TypeOK, StepRow
<1>2. \A i \in Pos : Shows(row[i].st) = "open" <=> Opened(row, i)
  BY <1>1 DEF Shows, Opened, Terminal
<1> QED
  BY <1>2, CellShows

\* One row written is one cell written.
LEMMA CellWritten ==
    ASSUME NEW i \in Pos, \A m \in Pos : m # i => row'[m] = row[m]
    PROVE  cell' = [cell EXCEPT ![i] = Shows(row'[i].st)] /\ cell[i] = Shows(row[i].st)
<1>1. cell = [m \in Pos |-> Shows(row[m].st)] /\ cell' = [m \in Pos |-> Shows(row'[m].st)]
  BY CellShows
<1>2. \A m \in Pos : m # i => Shows(row'[m].st) = Shows(row[m].st)
  OBVIOUS
<1> QED
  BY <1>1, <1>2

\* Every step of the system opens, closes or skips one step of the ledger, or
\* leaves the ledger as it is.
LEMMA NextRefines ==
    ASSUME IInv, LInv, [Next]_vars
    PROVE  [Ledger!Next]_<<cell, frame>>
<1>0. TypeOK
  BY DEF IInv
<1>1. RowStep /\ plan' = plan
  BY NextRows
<1>2. frame' = frame
  BY <1>1 DEF frame
<1>3. CASE row' = row
  <2>1. cell' = cell
    BY <1>3, CellShows
  <2> QED
    BY <1>2, <2>1
<1>4. ASSUME NEW i \in Pos, \A m \in Pos : m # i => row'[m] = row[m],
             Opens(i) \/ Ends(i) \/ Passes(i) \/ Keeps(i)
      PROVE  [Ledger!Next]_<<cell, frame>>
  <2>1. cell' = [cell EXCEPT ![i] = Shows(row'[i].st)] /\ cell[i] = Shows(row[i].st)
    BY <1>4, CellWritten
  <2>2. CASE Opens(i)
    <3>1. cell[i] = "blank" /\ cell' = [cell EXCEPT ![i] = "open"]
      BY <2>1, <2>2 DEF Opens, Touched, Shows
    <3>2. Ledger!OpenLeaf = {}
      BY <2>2, <1>0, OpenCells DEF Opens, Ledger!OpenLeaf, frame, IsLoop
    <3> QED
      BY <1>2, <3>1, <3>2 DEF Ledger!Next, Ledger!Open
  <2>3. CASE Ends(i)
    <3>1. cell[i] = "open" /\ row'[i].st \in Ledger!Outcome \ {"skipped"} /\ Shows(row'[i].st) = row'[i].st
      BY <2>1, <2>3 DEF Ends, Opened, Shows, Terminal, Ledger!Outcome
    <3> QED
      BY <1>2, <2>1, <3>1 DEF Ledger!Next, Ledger!Close
  <2>4. CASE Passes(i)
    <3>1. cell[i] = "blank" /\ cell' = [cell EXCEPT ![i] = "skipped"]
      BY <2>1, <2>4 DEF Passes, Touched, Shows
    <3>2. Ledger!OpenLeaf = {}
      BY <2>4, <1>0, OpenCells DEF Passes, Ledger!OpenLeaf
    <3> QED
      BY <1>2, <3>1, <3>2 DEF Ledger!Next, Ledger!Skip
  <2>5. CASE Keeps(i)
    <3>1. Shows(row'[i].st) = cell[i]
      BY <2>1, <2>5 DEF Keeps, Opened, Shows
    <3>2. cell' = cell
      BY <2>1, <3>1, CellShows
    <3> QED
      BY <1>2, <3>2
  <2> QED
    BY <1>4, <2>2, <2>3, <2>4, <2>5
<1> QED
  BY <1>1, <1>3, <1>4 DEF RowStep

\* The run_steps table is an append-only ledger, whatever crashes and whoever
\* resumes: one leaf step is open at a time, an outcome is never rewritten
\* (claim, finish, adoptTerminal).
THEOREM Refines == Spec => ImplementsLedger
<1>1. Init => Ledger!Init
  <2> SUFFICES ASSUME Init PROVE Ledger!Init
    OBVIOUS
  <2>1. \A i \in Pos : row[i].st = "none"
    BY DEF Init, NoRow
  <2>2. cell = [i \in Pos |-> "blank"]
    BY <2>1, CellShows DEF Shows
  <2>3. frame \subseteq Pos
    BY InitIInv, PlanFacts DEF IInv, frame
  <2> QED
    BY <2>2, <2>3 DEF Ledger!Init
<1>2. IInv /\ LInv /\ [Next]_vars => [Ledger!Next]_<<cell, frame>>
  BY NextRefines
<1> QED
  BY <1>1, <1>2, InvariantHolds, ReplayHolds, PTL DEF Spec, ImplementsLedger, Ledger!Spec

-----------------------------------------------------------------------------
(* The timeline: the terminal events sn beside the rows rw.                *)

Told(rw, sn, i) == rw[i].st \in {"succeeded", "failed", "skipped"} => sn[i] > 0
ToldTo(rw, sn, k) == \A i \in Pos : i < k => Told(rw, sn, i)
Complete(rw, sn) == \A i \in Pos : ~Opened(rw, i) /\ Told(rw, sn, i)

\* Skipped rows lie outside loops and lanes; a loop that succeeded in time
\* has told its body.
Outside(i) == i \in DOMAIN plan /\ plan[i].loop = 0 /\ plan[i].lane = 0
Tells(rw, sn, late) ==
    /\ \A i \in Pos : rw[i].st = "skipped" => Outside(i)
    /\ ~late => \A i \in Pos : LoopOf(i) # 0 /\ rw[LoopOf(i)].st = "succeeded" => Told(rw, sn, i)

\* What driver d found shown when it began, or has told since.
Aware(d, rw, sn) ==
    \A i \in Pos : i \in d.shown /\ i \in d.prior => sn[i] > 0 \/ rw[i].st = "canceled"

\* Driver d on rows rw and events sn of a run that is late or not.
Along == OnStep \cup {"step", "emit", "skip", "skipped"}
TimeOK(d, rw, sn, late) ==
    /\ d.pc # "none" => Aware(d, rw, sn)
    /\ \A i \in Pos : d.pc = "failed" /\ i = d.pos => sn[i] > 0
    /\ d.pc = "skip" => \A k \in Pos : k >= d.pos /\ Touched(rw, k) => k \in d.prior
    /\ d.pc = "skipped" => /\ d.pos \in DOMAIN plan /\ rw[d.pos].st = "skipped"
                           /\ \A k \in Pos : k > d.pos /\ Touched(rw, k) => k \in d.prior
    /\ ~late =>
         /\ d.pc \in Along => ToldTo(rw, sn, d.pos)
         /\ d.pc = "fin" /\ IsLoop(d.pos) /\ d.res = "succeeded" =>
              \A k \in Pos : LoopOf(k) = d.pos => Told(rw, sn, k)
         /\ d.pc = "settle" /\ d.res = "succeeded" => Complete(rw, sn)

\* No driver is on its path once the run has succeeded.
Driving == Begun \cup {"begin"}
TInv ==
    /\ Tells(row, seen, run.late)
    /\ \A p \in Proc : TimeOK(drv[p], row, seen, run.late)
    /\ run.st = "succeeded" => \A p \in Proc : drv[p].pc \notin Driving
    /\ run.st = "succeeded" /\ ~run.late => Complete(row, seen)

-----------------------------------------------------------------------------
(* What the events know of the places a driver goes to.                    *)

\* Events are not taken back.
Later(sn, sm) == \A i \in Pos : sn[i] > 0 => sm[i] > 0

\* A driver that walks on to j has every step before it told, if j had.
LEMMA OnwardTime ==
    ASSUME TypeOK, NEW rw, NEW sn, NEW late, Placed(rw), SameData(rw), NEW d \in Driver,
           NEW j \in 1 .. Len + 1, Aware(d, rw, sn), ~late => ToldTo(rw, sn, j)
    PROVE  TimeOK(Onward(d, j), rw, sn, late)
<1>1. PICK e : e = Onward(d, j)
  OBVIOUS
<1>2. e.pc = "step" /\ e.pos = Seek(j) /\ e.prior = d.prior /\ e.shown = d.shown
  BY <1>1 DEF Onward, Driver
<1>3. Aware(e, rw, sn)
  BY <1>2 DEF Aware
<1>4. ASSUME ~late PROVE ToldTo(rw, sn, Seek(j))
  <2> SUFFICES ASSUME NEW i \in Pos, i < Seek(j) PROVE Told(rw, sn, i)
    BY DEF ToldTo
  <2>1. CASE i < j
    BY <1>4, <2>1 DEF ToldTo
  <2>2. CASE j <= i
    <3>1. ~Touched(rw, i)
      BY <2>2, Sought
    <3> QED
      BY <3>1 DEF Touched, Told
  <2>3. i \in Nat /\ j \in Nat
    BY Order
  <2> QED
    BY <2>1, <2>2, <2>3
<1> QED
  BY <1>1, <1>2, <1>3, <1>4 DEF TimeOK, OnStep, Working, Calling, OnChild

\* A driver that leaves the path.
LEMMA SettlingTime ==
    ASSUME NEW rw, NEW sn, NEW late, NEW d \in Driver, Aware(d, rw, sn), NEW st, st # "succeeded"
    PROVE  TimeOK(Settling(d, st), rw, sn, late)
<1>1. PICK e : e = Settling(d, st)
  OBVIOUS
<1>2. e.pc = "settle" /\ e.res = st /\ e.prior = d.prior /\ e.shown = d.shown
  BY <1>1 DEF Settling, Driver
<1> QED
  BY <1>1, <1>2 DEF TimeOK, Aware, Along, OnStep, Working, Calling, OnChild

\* Step i ends its item: the driver goes to the next one.
LEMMA NextItemTime ==
    ASSUME TypeOK, NEW rw, NEW sn, NEW late, Placed(rw), SameData(rw), NEW d \in Driver,
           Aware(d, rw, sn), NEW i \in DOMAIN plan, plan[i].kind # "end", plan[i].loop # 0,
           ~late => /\ ToldTo(rw, sn, i) /\ Told(rw, sn, i)
                    /\ \A m \in Pos : i < m /\ LoopOf(m) = LoopOf(i) /\ SameItem(i, m) => ~Touched(rw, m)
    PROVE  TimeOK(Onward(d, NextItem(i)), rw, sn, late)
<1>1. NextItem(i) \in 1 .. Len /\ \A k \in Pos : i < k /\ k < NextItem(i) =>
         k \in DOMAIN plan /\ LoopOf(k) = LoopOf(i) /\ SameItem(i, k)
  BY NextItemShape
<1>2. Len \in Nat /\ Pos \subseteq Nat /\ i \in Pos
  BY Order
<1>3. ASSUME ~late PROVE ToldTo(rw, sn, NextItem(i))
  <2> SUFFICES ASSUME NEW k \in Pos, k < NextItem(i) PROVE Told(rw, sn, k)
    BY DEF ToldTo
  <2>1. CASE k < i
    BY <1>3, <2>1 DEF ToldTo
  <2>2. CASE i < k
    <3>1. ~Touched(rw, k)
      BY <1>1, <1>3, <2>2
    <3> QED
      BY <3>1 DEF Touched, Told
  <2>3. k \in Nat /\ i \in Nat
    BY <1>2
  <2> QED
    BY <1>3, <2>1, <2>2, <2>3
<1>4. NextItem(i) \in 1 .. Len + 1
  BY <1>1, <1>2
<1> QED
  BY <1>3, <1>4, OnwardTime

\* A failed step ends its item, its loop or the run.
LEMMA FailingTime ==
    ASSUME TypeOK, NEW rw, NEW sn, NEW late, Placed(rw), SameData(rw), NEW d \in Driver,
           Aware(d, rw, sn), NEW i \in DOMAIN plan, plan[i].kind # "end",
           ~late => /\ ToldTo(rw, sn, i) /\ Told(rw, sn, i)
                    /\ LoopOf(i) # 0 =>
                         \A m \in Pos : i < m /\ LoopOf(m) = LoopOf(i) /\ SameItem(i, m) => ~Touched(rw, m)
    PROVE  TimeOK(Failing(d, i), rw, sn, late)
<1>1. PICK l : l = plan[i].loop /\ l = LoopOf(i)
  BY DEF LoopOf
<1>2. CASE l = 0
  BY <1>1, <1>2, SettlingTime DEF Failing
<1>3. CASE l # 0 /\ plan[l].halt
  <2>1. Failing(d, i) = [d EXCEPT !.pos = l, !.pc = "fin", !.res = "failed"]
    BY <1>1, <1>3 DEF Failing
  <2>2. PICK e : e = Failing(d, i)
    OBVIOUS
  <2>3. e.pc = "fin" /\ e.pos = l /\ e.res = "failed" /\ e.prior = d.prior /\ e.shown = d.shown
    BY <2>1, <2>2 DEF Driver
  <2>4. l \in Nat /\ l < i /\ i \in Nat /\ Pos \subseteq Nat
    BY <1>1, <1>3, Order
  <2>5. ~late => ToldTo(rw, sn, l)
    BY <2>4 DEF ToldTo
  <2>6. Aware(e, rw, sn)
    BY <2>3 DEF Aware
  <2> QED
    BY <2>2, <2>3, <2>5, <2>6 DEF TimeOK
<1>4. CASE l # 0 /\ ~plan[l].halt
  <2>1. Failing(d, i) = Onward(d, NextItem(i))
    BY <1>1, <1>4 DEF Failing
  <2> QED
    BY <1>1, <1>4, <2>1, NextItemTime
<1> QED
  BY <1>2, <1>3, <1>4

\* A cancellation leaves the path.
LEMMA CancelingTime ==
    ASSUME NEW rw, NEW sn, NEW late, NEW d \in Driver, Aware(d, rw, sn), NEW i
    PROVE  TimeOK(Canceling(d, i), rw, sn, late)
<1>1. CASE Canceling(d, i) = Settling(d, "canceled")
  BY <1>1, SettlingTime
<1>2. CASE Canceling(d, i) = [d EXCEPT !.pc = "cancelrow", !.pos = plan[i].loop]
  <2>1. PICK e : e = Canceling(d, i)
    OBVIOUS
  <2>2. e.pc = "cancelrow" /\ e.prior = d.prior /\ e.shown = d.shown
    BY <1>2, <2>1 DEF Driver
  <2> QED
    BY <2>1, <2>2 DEF TimeOK, Aware, Along, OnStep, Working, Calling, OnChild
<1> QED
  BY <1>1, <1>2 DEF Canceling

\* What is behind a false filter has rows of its own only outside loops and lanes.
LEMMA BehindFilter ==
    ASSUME TypeOK, NEW rw, NEW sn, NEW late, Tells(rw, sn, late), Halted(rw),
           NEW k \in Pos, FilteredOut(rw, k), ~Outside(k)
    PROVE  ~Touched(rw, k)
<1> SUFFICES ASSUME Touched(rw, k) PROVE FALSE
  OBVIOUS
<1>1. PICK f \in Pos : f < k /\ IsTop(f) /\ Skips(rw, f)
  BY DEF FilteredOut
<1>2. LoopOf(k) = f \/ rw[k].st = "skipped"
  BY <1>1 DEF EndsRun, Halted
<1>3. LoopOf(k) # f
  BY <1>1, Order DEF Skips
<1> QED
  BY <1>2, <1>3 DEF Tells

\* NextTop jumps over loops' bodies and lanes only.
LEMMA JumpedOver ==
    ASSUME TypeOK, NEW i \in 1 .. MaxLen + 1, NEW k \in Pos, i < k, k < NextTop(i)
    PROVE  ~Outside(k)
<1>1. /\ Len \in Nat /\ MaxLen \in Nat /\ DOMAIN plan = 1 .. Len /\ Pos \subseteq Nat
      /\ NextTop(i) \in 1 .. Len + 1
  BY Order, NextTopIn
<1> DEFINE S == {m \in i + 1 .. Len : plan[m].loop = 0 /\ plan[m].lane = 0} \cup {Len + 1}
<1>2. S \in SUBSET Nat /\ S # {}
  BY <1>1
<1>3. Outside(k) => k \in S
  BY <1>1 DEF Outside
<1> HIDE DEF S
<1>4. \A m \in S : Min(S) <= m
  BY <1>2, LeastIn
<1>5. NextTop(i) = Min(S)
  BY DEF NextTop, S
<1> QED
  BY <1>1, <1>3, <1>4, <1>5

\* What is behind a step that ended its item.
LEMMA ItemOver ==
    ASSUME NEW rw, Halted(rw), NEW i \in Pos, EndsItem(rw, i), LoopOf(i) # 0
    PROVE  \A m \in Pos : i < m /\ LoopOf(m) = LoopOf(i) /\ SameItem(i, m) => ~Touched(rw, m)
  BY DEF Halted

\* A false filter ends its item, or everything up to the steps it skips.
LEMMA FencingTime ==
    ASSUME TypeOK, NEW sn, NEW late, RowsOK(row, late), Tells(row, sn, late), NEW d \in Driver,
           Aware(d, row, sn), NEW i \in DOMAIN plan, Skips(row, i),
           ~late => ToldTo(row, sn, i) /\ Told(row, sn, i),
           \A m \in Pos : i < m /\ Touched(row, m) => m \in d.prior
    PROVE  TimeOK(Fencing(d, i), row, sn, late)
<1>1. /\ plan[i].kind = "filter" /\ i \in Pos /\ Pos \subseteq Nat /\ Placed(row) /\ Halted(row)
      /\ SameData(row) /\ LoopOf(i) = plan[i].loop
  BY Order DEF Skips, RowsOK, SameData, LoopOf
<1>2. CASE plan[i].loop # 0
  <2>1. Fencing(d, i) = Onward(d, NextItem(i)) /\ EndsItem(row, i)
    BY <1>2 DEF Fencing, EndsItem
  <2>2. \A m \in Pos : i < m /\ LoopOf(m) = LoopOf(i) /\ SameItem(i, m) => ~Touched(row, m)
    BY <1>1, <1>2, <2>1, ItemOver
  <2> QED
    BY <1>1, <1>2, <2>1, <2>2, NextItemTime
<1>3. CASE plan[i].loop = 0
  <2>1. Fencing(d, i) = [d EXCEPT !.pc = "skip", !.pos = NextTop(i)]
    BY <1>3 DEF Fencing
  <2>2. PICK e : e = Fencing(d, i)
    OBVIOUS
  <2>3. e.pc = "skip" /\ e.pos = NextTop(i) /\ e.prior = d.prior /\ e.shown = d.shown
    BY <2>1, <2>2 DEF Driver
  <2>4. i \in 1 .. MaxLen + 1 /\ i <= Len /\ i \in Nat /\ NextTop(i) \in Nat /\ Len \in Nat
    BY Order, NextTopIn
  <2>5. i < NextTop(i)
    BY <2>4, NextTopShape
  <2>7. ASSUME ~late PROVE ToldTo(row, sn, NextTop(i))
    <3> SUFFICES ASSUME NEW k \in Pos, k < NextTop(i) PROVE Told(row, sn, k)
      BY DEF ToldTo
    <3>1. CASE k < i
      BY <2>7, <3>1 DEF ToldTo
    <3>2. CASE i < k
      <4>1. FilteredOut(row, k)
        BY <1>1, <1>3, <3>2 DEF FilteredOut, IsTop
      <4>2. ~Outside(k)
        BY <2>4, <3>2, JumpedOver
      <4>3. ~Touched(row, k)
        BY <1>1, <4>1, <4>2, BehindFilter
      <4> QED
        BY <4>3 DEF Touched, Told
    <3> QED
      BY <1>1, <2>4, <2>7, <3>1, <3>2
  <2>8. \A k \in Pos : k >= e.pos /\ Touched(row, k) => k \in e.prior
    BY <1>1, <2>3, <2>4, <2>5
  <2>9. Aware(e, row, sn)
    BY <2>3 DEF Aware
  <2> QED
    BY <2>2, <2>3, <2>7, <2>8, <2>9 DEF TimeOK
<1> QED
  BY <1>2, <1>3

\* What a step whose row ended means for its sequence.
LEMMA PassingTime ==
    ASSUME TypeOK, NEW sn, NEW late, RowsOK(row, late), Tells(row, sn, late), NEW d \in Driver,
           Aware(d, row, sn), NEW i \in DOMAIN plan, plan[i].kind # "end",
           ~late => ToldTo(row, sn, i) /\ Told(row, sn, i),
           row[i].st = d.res, d.res \in {"succeeded", "failed", "canceled"},
           \A m \in Pos : i < m /\ Touched(row, m) => m \in d.prior \/ (IsLoop(i) /\ LoopOf(m) = i)
    PROVE  TimeOK(Passing(d, i), row, sn, late)
<1>1. /\ SameData(row) /\ (IsLoop(i) <=> plan[i].kind = "loop") /\ (Dropped(i) <=> Skips(row, i))
      /\ Placed(row) /\ Halted(row) /\ i \in Pos /\ i \in Nat /\ Len \in Nat /\ DOMAIN plan = 1 .. Len
      /\ Pos \subseteq Nat
  BY Order DEF SameData, IsLoop, Dropped, Skips, RowsOK
<1>2. CASE d.res = "failed"
  <2>1. Passing(d, i) = Failing(d, i) /\ EndsItem(row, i)
    BY <1>2 DEF Passing, EndsItem
  <2>2. LoopOf(i) # 0 =>
          \A m \in Pos : i < m /\ LoopOf(m) = LoopOf(i) /\ SameItem(i, m) => ~Touched(row, m)
    BY <1>1, <2>1, ItemOver
  <2> QED
    BY <1>1, <2>1, <2>2, FailingTime
<1>3. CASE d.res = "canceled"
  BY <1>3, CancelingTime DEF Passing
<1>4. CASE d.res = "succeeded" /\ Dropped(i)
  <2>1. Passing(d, i) = Fencing(d, i)
    BY <1>4 DEF Passing
  <2>2. \A m \in Pos : i < m /\ Touched(row, m) => m \in d.prior
    BY <1>1, <1>4 DEF Skips
  <2> QED
    BY <1>1, <1>4, <2>1, <2>2, FencingTime
<1>5. CASE d.res = "succeeded" /\ ~Dropped(i) /\ plan[i].kind = "loop"
  <2>1. Passing(d, i) = Onward(d, EndOf(i) + 1)
    BY <1>5 DEF Passing
  <2>2. /\ EndOf(i) \in 1 .. Len /\ i < EndOf(i)
        /\ \A k \in Pos : LoopOf(k) = i <=> i < k /\ k <= EndOf(i)
    BY <1>1, <1>5, LoopShape
  <2>3. ASSUME ~late PROVE ToldTo(row, sn, EndOf(i) + 1)
    <3> SUFFICES ASSUME NEW k \in Pos, k < EndOf(i) + 1 PROVE Told(row, sn, k)
      BY DEF ToldTo
    <3>1. CASE k < i
      BY <2>3, <3>1 DEF ToldTo
    <3>2. CASE i < k
      <4>1. k <= EndOf(i)
        BY <1>1, <2>2
      <4>2. LoopOf(k) = i /\ i # 0
        BY <1>1, <2>2, <3>2, <4>1
      <4> QED
        BY <1>5, <2>3, <4>2 DEF Tells
    <3> QED
      BY <1>1, <2>3, <3>1, <3>2
  <2>4. EndOf(i) + 1 \in 1 .. Len + 1
    BY <1>1, <2>2
  <2> QED
    BY <1>1, <2>1, <2>3, <2>4, OnwardTime
<1>6. CASE d.res = "succeeded" /\ ~Dropped(i) /\ plan[i].kind # "loop"
  <2>1. Passing(d, i) = Onward(d, i + 1) /\ i + 1 \in 1 .. Len + 1
    BY <1>1, <1>6 DEF Passing
  <2>2. ASSUME ~late PROVE ToldTo(row, sn, i + 1)
    <3> SUFFICES ASSUME NEW k \in Pos, k < i + 1 PROVE Told(row, sn, k)
      BY DEF ToldTo
    <3>1. k < i \/ k = i
      BY <1>1
    <3> QED
      BY <2>2, <3>1 DEF ToldTo
  <2> QED
    BY <1>1, <2>1, <2>2, OnwardTime
<1> QED
  BY <1>2, <1>3, <1>4, <1>5, <1>6

-----------------------------------------------------------------------------
(* Steps that tell nothing.                                                *)

\* Driver e is d at the same place, still at its step, or on its way out.
Trails(d, e) ==
    /\ e.pc = "none" \/ e.prior = {} \/ (e.prior = d.prior /\ e.shown = d.shown /\ d.pc # "none")
    /\ e.pc \in Driving => d.pc \in Driving
    /\ \/ e.pc \notin Along \cup {"settle"}
       \/ e.pc = "settle" /\ e.res # "succeeded"
       \/ e.pc = d.pc /\ e.pos = d.pos /\ e.res = d.res /\ e.prior = d.prior
       \/ d.pc \in OnStep /\ e.pos = d.pos /\ e.pc \in OnStep \ {"failed", "fin"}
       \/ d.pc \in OnStep /\ e.pos = d.pos /\ e.pc = "fin" /\ (e.res = "failed" \/ ~IsLoop(e.pos))

\* It knows what d knew.
LEMMA TrailsTime ==
    ASSUME NEW d, NEW e, NEW rw, NEW sn, NEW sm, NEW late, NEW late2,
           TimeOK(d, rw, sn, late), Trails(d, e), late => late2, Later(sn, sm)
    PROVE  TimeOK(e, rw, sm, late2)
<1>1. e.pc # "none" => Aware(e, rw, sm)
  BY DEF TimeOK, Trails, Aware, Later
<1>2. \A k : ToldTo(rw, sn, k) => ToldTo(rw, sm, k)
  BY DEF ToldTo, Told, Later
<1>3. Complete(rw, sn) => Complete(rw, sm)
  BY DEF Complete, Told, Later
<1>4. CASE e.pc \notin Along \cup {"settle"} \/ (e.pc = "settle" /\ e.res # "succeeded")
  BY <1>1, <1>4 DEF TimeOK, Along, OnStep, Working, Calling, OnChild
<1>5. CASE e.pc = d.pc /\ e.pos = d.pos /\ e.res = d.res /\ e.prior = d.prior
  <2>1. \A i \in Pos : e.pc = "failed" /\ i = e.pos => sm[i] > 0
    BY <1>5 DEF TimeOK, Later
  <2>2. \A k \in Pos : Told(rw, sn, k) => Told(rw, sm, k)
    BY DEF Told, Later
  <2> QED
    BY <1>1, <1>2, <1>3, <1>5, <2>1, <2>2 DEF TimeOK
<1>6. CASE d.pc \in OnStep /\ e.pos = d.pos /\ e.pc \in OnStep \ {"failed", "fin"}
  BY <1>1, <1>2, <1>6 DEF TimeOK, Along, OnStep, Working, Calling, OnChild
<1>7. CASE d.pc \in OnStep /\ e.pos = d.pos /\ e.pc = "fin" /\ (e.res = "failed" \/ ~IsLoop(e.pos))
  BY <1>1, <1>2, <1>7 DEF TimeOK, Along
<1> QED
  BY <1>4, <1>5, <1>6, <1>7 DEF Trails

\* The invariant in the next state, over the plan as it is.
LEMMA SameTime ==
    ASSUME plan' = plan, Tells(row', seen', run'.late),
           \A p \in Proc : TimeOK(drv'[p], row', seen', run'.late),
           run'.st = "succeeded" => \A p \in Proc : drv'[p].pc \notin Driving,
           run'.st = "succeeded" /\ ~run'.late => Complete(row', seen')
    PROVE  TInv'
<1>1. Tells(row, seen, run.late)'
  BY DEF Tells, Outside, LoopOf, Told, Pos
<1>2. (\A p \in Proc : TimeOK(drv[p], row, seen, run.late))'
  BY DEF TimeOK, Aware, ToldTo, Complete, Told, Opened, Touched, LoopOf, IsLoop, Along, OnStep, Working,
         Calling, OnChild, Pos
<1>3. (run.st = "succeeded" => \A p \in Proc : drv[p].pc \notin Driving)'
  BY DEF Driving, Begun, OnStep, Working, Calling, OnChild
<1>4. (run.st = "succeeded" /\ ~run.late => Complete(row, seen))'
  BY DEF Complete, Told, Opened, Pos
<1> QED
  BY <1>1, <1>2, <1>3, <1>4 DEF TInv

\* No row is written and every driver stays or leaves.
LEMMA TimeStay ==
    ASSUME TInv, plan' = plan, row' = row, seen' = seen, run.late => run'.late,
           run'.st = "succeeded" => run.st = "succeeded",
           \A p \in Proc : Trails(drv[p], drv'[p])
    PROVE  TInv'
<1>1. Tells(row', seen', run'.late)
  BY DEF TInv, Tells
<1>2. \A p \in Proc : TimeOK(drv'[p], row', seen', run'.late)
  BY TrailsTime DEF TInv, Later
<1>3. run'.st = "succeeded" => \A p \in Proc : drv'[p].pc \notin Driving
  BY DEF TInv, Trails
<1>4. run'.st = "succeeded" /\ ~run'.late => Complete(row', seen')
  BY DEF TInv
<1> QED
  BY <1>1, <1>2, <1>3, <1>4, SameTime

\* One driver stays or leaves.
LEMMA TimeLeaves ==
    ASSUME IInv, TInv, NEW p \in Proc, NEW e, drv' = [drv EXCEPT ![p] = e], Trails(drv[p], e),
           plan' = plan, row' = row, seen' = seen, run'.late = run.late,
           run'.st = "succeeded" => run.st = "succeeded"
    PROVE  TInv'
<1>1. ASSUME NEW q \in Proc PROVE TimeOK(drv'[q], row', seen', run'.late) /\ (drv'[q].pc \in Driving => drv[q].pc \in Driving)
  <2>1. CASE q = p
    <3>1. drv'[q] = e /\ drv[q] = drv[p]
      BY <2>1 DEF IInv, TypeOK
    <3>2. TimeOK(drv[p], row, seen, run.late)
      BY DEF TInv
    <3> QED
      BY <3>1, <3>2, TrailsTime DEF Later, Trails
  <2>2. CASE q # p
    BY <2>2 DEF IInv, TypeOK, TInv
  <2> QED
    BY <2>1, <2>2
<1>2. Tells(row', seen', run'.late)
  BY DEF TInv
<1>3. run'.st = "succeeded" => \A q \in Proc : drv'[q].pc \notin Driving
  BY <1>1 DEF TInv
<1>4. run'.st = "succeeded" /\ ~run'.late => Complete(row', seen')
  BY DEF TInv
<1> QED
  BY <1>1, <1>2, <1>3, <1>4, SameTime

\* Driver p writes a row or tells an event: the others are not at work.
LEMMA TimeWrite ==
    ASSUME IInv, NEW p \in Proc, drv[p].pc # "none", NEW e, drv' = [drv EXCEPT ![p] = e],
           plan' = plan, run'.st # "succeeded", Tells(row', seen', run'.late),
           TimeOK(e, row', seen', run'.late)
    PROVE  TInv'
<1>1. ASSUME NEW q \in Proc PROVE TimeOK(drv'[q], row', seen', run'.late)
  <2>1. CASE q = p
    BY <2>1 DEF IInv, TypeOK
  <2>2. CASE q # p
    <3>1. drv'[q].pc = "none"
      BY <2>2 DEF IInv, TypeOK, Owner
    <3> QED
      BY <3>1 DEF TimeOK, Along, OnStep, Working, Calling, OnChild
  <2> QED
    BY <2>1, <2>2
<1> QED
  BY <1>1, SameTime

\* A row that is written.
LEMMA TellsWrite ==
    ASSUME TypeOK, NEW rw, NEW rx, NEW sn, NEW sm, NEW late, Tells(rw, sn, late), Later(sn, sm),
           NEW i \in Pos, \A m \in Pos : m # i => rx[m] = rw[m],
           rx[i].st = "skipped" => Outside(i),
           ~late /\ LoopOf(i) # 0 => rw[LoopOf(i)].st # "succeeded",
           ~late /\ IsLoop(i) /\ rx[i].st = "succeeded" =>
               \A k \in Pos : LoopOf(k) = i => Told(rw, sn, k)
    PROVE  Tells(rx, sm, late)
<1>1. \A m \in Pos : rx[m].st = "skipped" => Outside(m)
  BY DEF Tells
<1>2. ASSUME ~late, NEW k \in Pos, LoopOf(k) # 0, rx[LoopOf(k)].st = "succeeded"
      PROVE  Told(rx, sm, k)
  <2>1. LoopOf(k) \in Pos /\ LoopOf(k) # k /\ IsLoop(LoopOf(k))
    <3>1. LoopOf(k) \in Pos /\ LoopOf(k) < k /\ k \in Nat /\ LoopOf(k) \in Nat /\ IsLoop(LoopOf(k))
      BY <1>2, Order
    <3> QED
      BY <3>1
  <2>2. CASE LoopOf(k) = i
    <3>1. Told(rw, sn, k) /\ rx[k] = rw[k]
      BY <1>2, <2>1, <2>2
    <3> QED
      BY <3>1 DEF Told, Later
  <2>3. CASE LoopOf(k) # i
    <3>1. rw[LoopOf(k)].st = "succeeded" /\ k # i
      BY <1>2, <2>1, <2>3
    <3>2. Told(rw, sn, k) /\ rx[k] = rw[k]
      BY <1>2, <3>1 DEF Tells
    <3> QED
      BY <3>2 DEF Told, Later
  <2> QED
    BY <2>2, <2>3
<1> QED
  BY <1>1, <1>2 DEF Tells

\* An event that is told.
LEMMA TellsLater ==
    ASSUME NEW rw, NEW sn, NEW sm, NEW late, Tells(rw, sn, late), Later(sn, sm)
    PROVE  Tells(rw, sm, late)
  BY DEF Tells, Told, Later

\* Drivers that stay or leave: at another place of the code, after an attempt
\* that failed, at the step's end, gone, or flagged.
LEMMA TrailsAt ==
    ASSUME NEW d \in Driver, d.pc # "none", NEW pc,
           \/ pc \notin Along \cup {"settle"} /\ (pc \in Driving => d.pc \in Driving)
           \/ d.pc \in OnStep /\ pc \in OnStep \ {"failed", "fin"}
    PROVE  Trails(d, At(d, pc))
  BY DEF Trails, At, Driver, Driving, Begun

\* An attempt that failed, to be retried or not.
LEMMA TrailsFailed ==
    ASSUME NEW d \in Driver, d.pc \in OnStep, NEW b
    PROVE  Trails(d, Failed(d, b)) /\ Trails(d, Closing(d, "failed"))
<1>1. Failed(d, b) = At(d, "retry") \/ Failed(d, b) = At(d, "failing")
  BY DEF Failed
<1>2. d.pc # "none"
  BY DEF OnStep, Working, Calling, OnChild
<1>3. Trails(d, Failed(d, b))
  BY <1>1, <1>2, TrailsAt DEF OnStep, Working, Calling
<1> QED
  BY <1>2, <1>3 DEF Trails, Closing, Driver, Driving, Begun

\* A driver that left, or one that boots.
LEMMA TrailsNone ==
    ASSUME NEW d, NEW e, e.pc \in {"none", "boot"}, e.prior = {}
    PROVE  Trails(d, e)
  BY DEF Trails, Driving, Begun, Along, OnStep, Working, Calling, OnChild

\* A driver that settles its run without success.
LEMMA TrailsSettling ==
    ASSUME NEW d \in Driver, d.pc # "none", NEW st, st # "succeeded"
    PROVE  Trails(d, Settling(d, st))
  BY DEF Trails, Settling, Driver, Driving, Begun, OnStep, Working, Calling, OnChild

\* A flag of the driver is set.
LEMMA TrailsFlag ==
    ASSUME NEW d \in Driver
    PROVE  Trails(d, d) /\ Trails(d, [d EXCEPT !.cancel = TRUE]) /\ Trails(d, [d EXCEPT !.intr = TRUE])
  BY DEF Trails, Driver

\* No driver succeeds on paper: these marks are not "succeeded".
LEMMA MarkedRun ==
    ASSUME NEW r \in RunRow, NEW st
    PROVE  /\ markDelivery(r, st).st = r.st
           /\ r = run => markRun(st).st = IF r.st \in Active THEN st ELSE r.st
  BY DEF markDelivery, markRun, RunRow

\* The start of a driver, and its end.
LEMMA LeaveTime ==
    ASSUME IInv, LInv, TInv, NEW p \in Proc,
           \/ Start(p) \/ Resume(p) \/ DriverError(p) \/ Deliver(p) \/ Post(p) \/ Mark(p) \/ Release(p)
           \/ Stop(p) \/ Shutdown(p) \/ Crash(p) \/ Closed(p)
    PROVE  TInv'
<1> DEFINE d == drv[p]
<1>1. d \in Driver /\ run \in RunRow /\ drv \in [Proc -> Driver]
  BY DEF IInv, TypeOK
<1>2. plan' = plan /\ row' = row /\ seen' = seen
  BY DEF Start, Resume, DriverError, Deliver, Post, Mark, Release, Stop, Shutdown, Crash, Closed, Gone,
         tables, around
<1>3. run'.late = run.late /\ (run'.st = "succeeded" => run.st = "succeeded")
  <2>1. CASE Start(p)
    BY <1>1, <2>1 DEF Start, RunRow
  <2>2. CASE Stop(p)
    BY <1>1, <2>2, RunMarks, MarkedRun DEF Stop
  <2>3. CASE Deliver(p) \/ Post(p) \/ Mark(p)
    BY <1>1, <2>3, RunMarks, MarkedRun DEF Deliver, Post, Mark
  <2>4. CASE Resume(p) \/ DriverError(p) \/ Release(p) \/ Shutdown(p) \/ Crash(p) \/ Closed(p)
    BY <2>4 DEF Resume, DriverError, Release, Shutdown, Crash, Closed, Gone, tables
  <2> QED
    BY <2>1, <2>2, <2>3, <2>4
<1>4. Trails(d, d) /\ Trails(d, [d EXCEPT !.cancel = TRUE]) /\ Trails(d, [d EXCEPT !.intr = TRUE])
  BY <1>1, TrailsFlag
<1> DEFINE b == [NoDriver EXCEPT !.pc = "boot", !.epoch = hist.epochs + 1]
<1>5. Trails(d, NoDriver) /\ Trails(d, b)
  <2>1. NoDriver.pc = "none" /\ NoDriver.prior = {} /\ b.pc = "boot" /\ b.prior = {}
    BY DEF NoDriver
  <2> HIDE DEF b
  <2> QED
    BY <2>1, TrailsNone
<1>6. \E e : drv' = [drv EXCEPT ![p] = e] /\ Trails(d, e)
  <2>1. CASE Start(p) \/ Resume(p)
    BY <1>5, <2>1 DEF Start, Resume, Launch, Move
  <2>2. CASE DriverError(p)
    <3>1. d.pc # "none"
      BY <2>2 DEF DriverError, Throws
    <3>2. Trails(d, At(d, "exit")) /\ Trails(d, Settling(d, "failed"))
      BY <1>1, <3>1, TrailsAt, TrailsSettling DEF Along, Driving, Begun, OnStep, Working, Calling, OnChild
    <3> QED
      BY <2>2, <3>2 DEF DriverError, Goto, Move
  <2>3. CASE Deliver(p) \/ Post(p) \/ Mark(p)
    <3>1. d.pc # "none" /\ \E pc \in {"post", "mark", "exit"} : drv' = [drv EXCEPT ![p] = At(d, pc)]
      BY <2>3 DEF Deliver, Post, Mark, Is, Goto, Move
    <3>2. \A pc \in {"post", "mark", "exit"} : Trails(d, At(d, pc))
      BY <1>1, <3>1, TrailsAt DEF Along, Driving, Begun, OnStep, Working, Calling, OnChild
    <3> QED
      BY <3>1, <3>2
  <2>4. CASE Release(p) \/ Crash(p) \/ Closed(p)
    BY <1>5, <2>4 DEF Release, Move, Crash, Closed, Gone
  <2>5. CASE Stop(p) \/ Shutdown(p)
    <3>1. drv = [drv EXCEPT ![p] = d]
      BY <1>1
    <3>2. \/ drv' = [drv EXCEPT ![p] = [d EXCEPT !.cancel = TRUE]] \/ drv' = drv
          \/ drv' = [drv EXCEPT ![p] = [d EXCEPT !.intr = TRUE]] \/ drv' = [drv EXCEPT ![p] = d]
      BY <2>5 DEF Stop, Move, Shutdown, Drain
    <3> QED
      BY <1>4, <3>1, <3>2
  <2> QED
    BY <2>1, <2>2, <2>3, <2>4, <2>5
<1> QED
  BY <1>2, <1>3, <1>6, TimeLeaves

\* Actions beside the drivers.
LEMMA BesideTime ==
    ASSUME IInv, LInv, TInv,
           \/ \E p \in Proc : ResumeFails(p) \/ RecoverDelivery(p) \/ Restart(p)
           \/ \E h \in sweep : StopChildren(h)
           \/ \E i \in Pos : ChildMoves(i)
           \/ Deadline \/ OtherRunWrites \/ UNCHANGED vars
    PROVE  TInv'
<1>1. run \in RunRow /\ drv \in [Proc -> Driver]
  BY DEF IInv, TypeOK
<1>2. UNCHANGED <<plan, row, seen, drv>>
  BY DEF ResumeFails, RecoverDelivery, Restart, StopChildren, ChildMoves, Deadline, OtherRunWrites, tables,
         around, vars
<1>3. (run.late => run'.late) /\ (run'.st = "succeeded" => run.st = "succeeded")
  <2>1. CASE \E p \in Proc : ResumeFails(p)
    <3>1. run' = markDelivery(markRun("failed"), "failed") /\ run.st \in Active
      BY <2>1 DEF ResumeFails, Orphan
    <3>2. markRun("failed") \in RunRow
      BY <1>1, <3>1, MarkRunOK DEF Active, Terminal
    <3> QED
      BY <1>1, <3>1, <3>2, RunMarks, MarkedRun
  <2>2. CASE Deadline
    BY <1>1, <2>2 DEF Deadline, RunRow
  <2>3. CASE \E p \in Proc : RecoverDelivery(p)
    BY <1>1, <2>3, RunMarks, MarkedRun DEF RecoverDelivery
  <2>4. CASE \E h \in sweep : StopChildren(h)
    BY <1>1, <2>4, RunMarks, MarkedRun DEF StopChildren
  <2>5. CASE (\E p \in Proc : Restart(p)) \/ (\E i \in Pos : ChildMoves(i)) \/ OtherRunWrites \/ UNCHANGED vars
    BY <2>5 DEF Restart, ChildMoves, OtherRunWrites, tables, vars
  <2> QED
    BY <2>1, <2>2, <2>3, <2>4, <2>5
<1>4. \A p \in Proc : Trails(drv[p], drv'[p])
  BY <1>1, <1>2, TrailsFlag
<1> QED
  BY <1>2, <1>3, <1>4, TimeStay

\* The start of the work, and the run's end.
LEMMA EndsTime ==
    ASSUME IInv, LInv, TInv, NEW p \in Proc, Boot(p) \/ Settle(p)
    PROVE  TInv'
<1> DEFINE d == drv[p]
<1>1. d \in Driver /\ run \in RunRow /\ drv \in [Proc -> Driver] /\ d.pc # "none"
  BY DEF IInv, TypeOK, Boot, Settle, Is
<1>2. plan' = plan /\ row' = row /\ seen' = seen
  BY DEF Boot, Settle, around
<1>3. run'.late = run.late
  BY <1>1, RunMarks DEF Boot, Settle
<1>4. \A pc \in {"exit", "deliver"} : Trails(d, At(d, pc))
  BY <1>1, TrailsAt DEF Along, Driving, Begun, OnStep, Working, Calling, OnChild
<1>5. \A q \in Proc : q # p => drv[q].pc = "none"
  BY <1>1 DEF IInv, Owner
<1>6. CASE Boot(p)
  <2>1. CASE run.st \in Active
    <3> DEFINE e == At(d, "begin")
    <3>1. drv' = [drv EXCEPT ![p] = e] /\ run'.st # "succeeded"
      BY <1>1, <1>6, <2>1, MarkedRun DEF Boot, Goto, Move
    <3>2. e.pc = "begin" /\ e.prior = d.prior /\ e.shown = d.shown
      BY <1>1 DEF At, Driver
    <3> HIDE DEF e
    <3>3. TimeOK(d, row, seen, run.late) /\ Tells(row, seen, run.late)
      BY DEF TInv
    <3>4. TimeOK(e, row, seen, run.late)
      BY <1>1, <3>2, <3>3 DEF TimeOK, Aware, Along, OnStep, Working, Calling, OnChild
    <3> QED
      BY <1>1, <1>2, <1>3, <3>1, <3>3, <3>4, TimeWrite
  <2>2. CASE run.st \notin Active
    <3>1. drv' = [drv EXCEPT ![p] = At(d, "exit")] /\ run'.st = run.st
      BY <1>1, <1>6, <2>2, MarkedRun DEF Boot, Goto, Move
    <3> QED
      BY <1>2, <1>3, <1>4, <3>1, TimeLeaves
  <2> QED
    BY <2>1, <2>2
<1>7. CASE Settle(p)
  <2>1. PICK pc \in {"exit", "deliver"} : drv' = [drv EXCEPT ![p] = At(d, pc)]
    BY <1>7 DEF Settle, Goto, Move
  <2>2. CASE run'.st = "succeeded" => run.st = "succeeded"
    BY <1>2, <1>3, <1>4, <2>1, <2>2, TimeLeaves
  <2>3. CASE run'.st = "succeeded" /\ run.st # "succeeded"
    <3>1. d.res = "succeeded" /\ d.pc = "settle"
      BY <1>1, <1>7, <2>3, MarkedRun DEF Settle, Is
    <3>2. ~run.late => Complete(row, seen)
      BY <3>1 DEF TInv, TimeOK
    <3>3. drv'[p] = At(d, pc) /\ drv'[p].pc = pc /\ \A q \in Proc : q # p => drv'[q] = drv[q]
      BY <1>1, <2>1 DEF At, Driver
    <3>4. ASSUME NEW q \in Proc PROVE TimeOK(drv'[q], row', seen', run'.late) /\ drv'[q].pc \notin Driving
      <4>1. Trails(drv[q], drv'[q])
        BY <1>1, <1>4, <3>3, TrailsFlag
      <4>2. TimeOK(drv'[q], row', seen', run'.late)
        BY <1>2, <1>3, <4>1, TrailsTime DEF TInv, Later
      <4>3. drv'[q].pc \notin Driving
        BY <1>5, <3>3 DEF Driving, Begun, OnStep, Working, Calling, OnChild
      <4> QED
        BY <4>2, <4>3
    <3>5. Tells(row', seen', run'.late)
      BY <1>2, <1>3 DEF TInv
    <3> QED
      BY <1>2, <1>3, <3>2, <3>4, <3>5, SameTime
  <2> QED
    BY <2>2, <2>3
<1> QED
  BY <1>6, <1>7

\* Attempts and calls that do not succeed, and what a driver hears of a child.
LEMMA TryTime ==
    ASSUME IInv, LInv, TInv, NEW p \in Proc, Attempt(p) \/ Abandon(p) \/ StateWrite(p)
    PROVE  TInv'
<1> DEFINE d == drv[p]
<1>1. d \in Driver /\ UNCHANGED <<plan, row, seen, run>>
  BY DEF IInv, TypeOK, Attempt, Abandon, StateWrite, tables, around
<1>2. d.pc \in OnStep /\ d.pc # "none"
  BY DEF Attempt, Abandon, StateWrite, Is, OnStep, Working, Calling, OnChild
<1>3. \A pc \in {"exit", "cancelrow", "calling", "watch", "dispatching", "failing"} : Trails(d, At(d, pc))
  BY <1>1, <1>2, TrailsAt DEF Along, Driving, Begun, OnStep, Working, Calling, OnChild
<1>4. Trails(d, Closing(d, "failed"))
  BY <1>1, <1>2, TrailsFailed
<1>5. \E e : drv' = [drv EXCEPT ![p] = e] /\ Trails(d, e)
  <2>1. CASE Attempt(p)
    <3>1. \/ \E pc \in {"exit", "cancelrow", "calling", "watch", "dispatching"} : drv' = [drv EXCEPT ![p] = At(d, pc)]
          \/ drv' = [drv EXCEPT ![p] = Closing(d, "failed")]
      BY <2>1 DEF Attempt, Goto, Move
    <3> QED
      BY <1>3, <1>4, <3>1
  <2>2. CASE Abandon(p)
    <3>1. \E pc \in {"exit", "cancelrow", "failing"} : drv' = [drv EXCEPT ![p] = At(d, pc)]
      BY <2>2 DEF Abandon, Move
    <3> QED
      BY <1>3, <3>1
  <2>3. CASE StateWrite(p)
    <3>1. plan[d.pos].kind = "state"
      BY <2>3 DEF StateWrite
    <3>2. \/ drv' = [drv EXCEPT ![p] = [Closing(d, "succeeded") EXCEPT !.sc = row[d.pos].inp]]
          \/ drv' = [drv EXCEPT ![p] = Closing(d, "failed")]
      BY <2>3 DEF StateWrite, Move
    <3>3. Trails(d, [Closing(d, "succeeded") EXCEPT !.sc = row[d.pos].inp])
      BY <1>1, <1>2, <3>1 DEF Trails, Closing, Driver, IsLoop, Driving, Begun
    <3> QED
      BY <1>4, <3>2, <3>3
  <2> QED
    BY <2>1, <2>2, <2>3
<1> QED
  BY <1>1, <1>5, TimeLeaves

\* A job of the agent runtime tells its driver how the call went.
LEMMA DispatchTime ==
    ASSUME IInv, LInv, TInv, NEW j \in jobs, Link(j) \/ Send(j) \/ Fence(j)
    PROVE  TInv'
<1> DEFINE d == drv[j.proc]
<1>1. UNCHANGED <<plan, row, seen, run>> /\ j.proc \in Proc
  BY DEF IInv, TypeOK, Job, Link, Send, Fence
<1>2. d \in Driver /\ drv \in [Proc -> Driver] /\ (~j.ab => d.pc \in OnStep)
  BY <1>1 DEF IInv, TypeOK, JobsOK, OnStep, Working, OnChild
<1>3. d.pc \in OnStep => /\ \A b : Trails(d, Failed(d, b))
                         /\ Trails(d, [d EXCEPT !.pc = "park", !.child = "linked"])
  <2>1. d.pc \in OnStep => \A b : Trails(d, Failed(d, b))
    BY <1>2, TrailsFailed
  <2>2. d.pc \in OnStep => Trails(d, [d EXCEPT !.pc = "park", !.child = "linked"])
    BY <1>2 DEF Trails, Driver, Driving, Begun, OnStep, Working, OnChild, Calling
  <2> QED
    BY <2>1, <2>2
<1>4. \/ drv' = drv
      \/ ~j.ab /\ \E b : drv' = [drv EXCEPT ![j.proc] = Failed(d, b)]
      \/ ~j.ab /\ drv' = [drv EXCEPT ![j.proc] = [d EXCEPT !.pc = "park", !.child = "linked"]]
  <2>1. CASE Link(j)
    BY <2>1 DEF Link, Tell, Move
  <2>2. CASE Send(j)
    BY <2>2 DEF Send, Tell, Move
  <2>3. CASE Fence(j)
    BY <2>3 DEF Fence, Tell, Move
  <2> QED
    BY <2>1, <2>2, <2>3
<1>5. drv = [drv EXCEPT ![j.proc] = d] /\ Trails(d, d)
  BY <1>1, <1>2, TrailsFlag
<1>6. \E e : drv' = [drv EXCEPT ![j.proc] = e] /\ Trails(d, e)
  BY <1>2, <1>3, <1>4, <1>5
<1> QED
  BY <1>1, <1>6, TimeLeaves

-----------------------------------------------------------------------------
(* Steps over the rows as they are, and events.                            *)

\* What the invariants say of a driver and the events.
LEMMA TimeFacts ==
    ASSUME IInv, LInv, TInv, NEW p \in Proc, drv[p].pc # "none"
    PROVE  /\ Tells(row, seen, run.late) /\ TimeOK(drv[p], row, seen, run.late)
           /\ Aware(drv[p], row, seen) /\ seen \in [Pos -> Nat]
           /\ drv[p].pc \in Driving => run.st # "succeeded"
           /\ ~run.late /\ drv[p].pc \in Along => ToldTo(row, seen, drv[p].pos)
  BY DEF TInv, TimeOK, IInv, TypeOK

\* What was told stays told.
LEMMA LaterFacts ==
    ASSUME NEW rw, NEW sn, NEW sm, Later(sn, sm)
    PROVE  /\ \A d : Aware(d, rw, sn) => Aware(d, rw, sm)
           /\ \A k : ToldTo(rw, sn, k) => ToldTo(rw, sm, k)
           /\ \A k \in Pos : Told(rw, sn, k) => Told(rw, sm, k)
  BY DEF Later, Aware, ToldTo, Told

\* One event more.
LEMMA EventTold ==
    ASSUME TypeOK, NEW i \in Pos, seen' = [seen EXCEPT ![i] = @ + 1]
    PROVE  Later(seen, seen') /\ seen'[i] > 0
  BY DEF TypeOK, Later

\* Driver p walks on, and may tell an event.
LEMMA TimeWalk ==
    ASSUME IInv, LInv, TInv, NEW p \in Proc, drv[p].pc \in Driving, NEW e, drv' = [drv EXCEPT ![p] = e],
           UNCHANGED <<plan, row>>, run'.st = run.st, run'.late = run.late, Later(seen, seen'),
           TimeOK(e, row, seen', run.late)
    PROVE  TInv'
<1>1. drv[p].pc # "none"
  BY DEF Driving, Begun, OnStep, Working, Calling, OnChild
<1>2. run.st # "succeeded" /\ Tells(row, seen', run.late)
  BY <1>1, TimeFacts, TellsLater
<1> QED
  BY <1>1, <1>2, TimeWrite

\* The snapshot: what the stream shows, and which rows were claimed.
LEMMA BeginTime ==
    ASSUME IInv, LInv, TInv, NEW p \in Proc, Begin(p)
    PROVE  TInv'
<1> DEFINE d == drv[p]  o == Onward(d, 1)
           pr == IF run.begun THEN {i \in Pos : row[i].st # "none"} ELSE {}
           sh == IF run.begun THEN Shown ELSE Pos
           ex == IF run.begun THEN Cardinality({i \in Pos : row[i].st \in Terminal}) ELSE 0
           e == [o EXCEPT !.sc = wf, !.exec = ex, !.prior = pr, !.shown = sh]
<1>1. drv' = [drv EXCEPT ![p] = e] /\ d.pc = "begin"
  BY DEF Begin, Move, Is
<1>2. TypeOK /\ d \in Driver /\ SameData(row) /\ run \in RunRow /\ Placed(row)
  BY PathFacts DEF RowsOK, IInv, TypeOK
<1>3. UNCHANGED <<plan, row, seen>> /\ run'.st = run.st /\ run'.late = run.late
  BY <1>2 DEF Begin, around, RunRow
<1>4. o \in Driver /\ o.pc = "step" /\ o.pos = Seek(1)
  BY <1>2, OnwardOK, OnwardFields DEF CarriesOn, Carries
<1> HIDE DEF o, ex
<1>5. e.pc = "step" /\ e.pos = Seek(1) /\ e.prior = pr /\ e.shown = sh
  BY <1>4 DEF Driver
<1>6. Aware(e, row, seen)
  BY <1>5 DEF Aware, Shown
<1> HIDE DEF pr, sh, e
<1>7. 1 \in 1 .. Len + 1 /\ ToldTo(row, seen, 1)
  <2>1. \A i \in Pos : ~(i < 1)
    BY RunAssumption DEF Pos
  <2>2. Len \in Nat
    BY <1>2, Order
  <2> QED
    BY <2>1, <2>2 DEF ToldTo
<1>8. ASSUME NEW i \in Pos, i < Seek(1) PROVE Told(row, seen, i)
  <2>1. i \in Nat /\ 1 <= i
    BY RunAssumption DEF Pos
  <2>2. ~Touched(row, i)
    BY <1>2, <1>7, <1>8, <2>1, Sought
  <2> QED
    BY <2>2 DEF Touched, Told
<1>9. TimeOK(e, row, seen', run.late)
  BY <1>3, <1>5, <1>6, <1>8 DEF TimeOK, ToldTo, OnStep, Working, Calling, OnChild
<1>10. d.pc \in Driving /\ Later(seen, seen')
  BY <1>1, <1>3 DEF Driving, Later
<1> QED
  BY <1>1, <1>3, <1>9, <1>10, TimeWalk

\* The event of a step that ended, and on.
LEMMA EmitTime ==
    ASSUME IInv, LInv, TInv, NEW p \in Proc, Emit(p)
    PROVE  TInv'
<1> DEFINE d == drv[p]  i == d.pos  late == run.late
           sc == IF d.res = "succeeded" THEN Fed(d.sc, i) ELSE d.sc
           b == [d EXCEPT !.sc = sc]
           e == Passing(b, i)
<1>1. /\ d.pc = "emit" /\ UNCHANGED <<run, row, plan>> /\ drv' = [drv EXCEPT ![p] = e]
      /\ seen' = [seen EXCEPT ![i] = @ + 1]
  BY DEF Emit, Is, Move, around
<1>2. /\ TypeOK /\ d \in Driver /\ i \in DOMAIN plan /\ plan[i].kind # "end" /\ row \in [Pos -> StepRow]
      /\ i \in Pos
  BY <1>1, PathFacts, Order DEF Closes, TypeOK
<1>3. RowsOK(row, late) /\ AtEvent(d, row, late)
  BY <1>1, PathFacts DEF PathOK
<1>4. sc \in Value
  BY <1>2 DEF Fed, Driver, StepRow
<1> HIDE DEF sc
<1>5. b \in Driver /\ b.res = d.res /\ b.prior = d.prior /\ b.shown = d.shown
  BY <1>2, <1>4 DEF Driver
<1> HIDE DEF b
<1>6. Later(seen, seen') /\ seen'[i] > 0
  BY <1>1, <1>2, EventTold
<1>7. d.pc # "none" /\ d.pc \in Along /\ d.pc \in Driving
  BY <1>1 DEF Along, Driving, Begun
<1>8. Tells(row, seen', late) /\ Aware(b, row, seen') /\ (~late => ToldTo(row, seen', i))
  <2>1. Tells(row, seen, late) /\ Aware(d, row, seen) /\ (~late => ToldTo(row, seen, i))
    BY <1>7, TimeFacts
  <2>2. Aware(b, row, seen)
    BY <1>5, <2>1 DEF Aware
  <2> QED
    BY <1>6, <2>1, <2>2, TellsLater, LaterFacts
<1>9. /\ row[i].st = b.res /\ b.res \in {"succeeded", "failed", "canceled"} /\ Told(row, seen', i)
      /\ \A m \in Pos : i < m /\ Touched(row, m) => IsLoop(i) /\ LoopOf(m) = i
  <2>1. i \in Nat /\ Pos \subseteq Nat
    BY <1>2, Order
  <2> QED
    BY <1>3, <1>5, <1>6, <2>1 DEF AtEvent, Told
<1>10. TimeOK(e, row, seen', late)
  BY <1>2, <1>3, <1>5, <1>8, <1>9, PassingTime
<1> QED
  BY <1>1, <1>6, <1>7, <1>10, TimeWalk


\* A leaf's failure is told before it is recorded.
LEMMA EmitFailureTime ==
    ASSUME IInv, LInv, TInv, NEW p \in Proc, EmitFailure(p)
    PROVE  TInv'
<1> DEFINE d == drv[p]  i == d.pos  late == run.late  e == At(d, "failed")
<1>1. /\ d.pc = "failing" /\ UNCHANGED <<run, row, plan>> /\ drv' = [drv EXCEPT ![p] = e]
      /\ seen' = [seen EXCEPT ![i] = @ + 1]
  BY DEF EmitFailure, Is, Goto, Move, around
<1>2. TypeOK /\ d \in Driver /\ i \in Pos
  BY <1>1, PathFacts, Order DEF Closes
<1>3. Later(seen, seen') /\ seen'[i] > 0
  BY <1>1, <1>2, EventTold
<1>4. d.pc # "none" /\ d.pc \in Along /\ d.pc \in Driving
  BY <1>1 DEF Along, Driving, Begun, OnStep
<1>5. e.pc = "failed" /\ e.pos = i /\ e.prior = d.prior /\ e.shown = d.shown
  BY <1>2 DEF At, Driver
<1> HIDE DEF e
<1>6. Aware(d, row, seen') /\ (~late => ToldTo(row, seen', i))
  BY <1>3, <1>4, TimeFacts, LaterFacts
<1>7. Aware(e, row, seen')
  BY <1>5, <1>6 DEF Aware
<1>8. TimeOK(e, row, seen', late)
  BY <1>3, <1>5, <1>6, <1>7 DEF TimeOK
<1> QED
  BY <1>1, <1>3, <1>4, <1>8, TimeWalk

\* The end of the plan: everything is closed and told.
LEMMA EndComplete ==
    ASSUME TypeOK, NEW rw, NEW sn, Placed(rw), NEW i \in Nat, i > Len, Shut(rw, i), ToldTo(rw, sn, i)
    PROVE  Complete(rw, sn)
<1>1. Len \in Nat /\ DOMAIN plan = 1 .. Len /\ Pos \subseteq Nat /\ 0 \notin Pos
  BY Order
<1>2. LoopOf(i) = 0
  BY <1>1 DEF LoopOf
<1> SUFFICES ASSUME NEW m \in Pos PROVE ~Opened(rw, m) /\ Told(rw, sn, m)
  BY DEF Complete
<1>3. CASE m < i
  BY <1>1, <1>2, <1>3 DEF Shut, ToldTo
<1>4. CASE ~(m < i)
  <2>1. m \notin DOMAIN plan
    BY <1>1, <1>4
  <2>2. ~Touched(rw, m)
    BY <2>1 DEF Placed
  <2> QED
    BY <2>2 DEF Touched, Opened, Told
<1> QED
  BY <1>3, <1>4

\* A step boundary: a step that the budget refuses has no row to tell of.
LEMMA BoundaryTime ==
    ASSUME IInv, LInv, TInv, NEW p \in Proc, Boundary(p)
    PROVE  TInv'
<1> DEFINE d == drv[p]  i == d.pos  late == run.late
<1>1. /\ TypeOK /\ d \in Driver /\ RowsOK(row, late) /\ AtStep(d, row, late) /\ d.pc = "step"
      /\ SameData(row) /\ Placed(row)
  BY PathFacts DEF PathOK, Boundary, Is, RowsOK
<1>2. UNCHANGED <<run, row, plan, seen>>
  BY DEF Boundary, around
<1>3. i \in 1 .. MaxLen + 1 /\ i \in Nat /\ Len \in Nat /\ MaxLen \in Nat /\ DOMAIN plan = 1 .. Len
      /\ Pos \subseteq Nat
  BY <1>1, Order DEF Driver
<1>4. d.pc # "none" /\ d.pc \in Along /\ d.pc \in Driving /\ Later(seen, seen')
  BY <1>1, <1>2 DEF Along, Driving, Begun, Later
<1>5. Aware(d, row, seen) /\ (~late => ToldTo(row, seen, i))
  BY <1>4, TimeFacts
<1>6. ASSUME NEW e, drv' = [drv EXCEPT ![p] = e], TimeOK(e, row, seen, late) PROVE TInv'
  BY <1>2, <1>4, <1>6, TimeWalk
<1>7. CASE i > Len /\ Move(p, Settling(d, "succeeded"))
  <2> DEFINE e == Settling(d, "succeeded")
  <2>1. drv' = [drv EXCEPT ![p] = e] /\ e.pc = "settle" /\ e.prior = d.prior /\ e.shown = d.shown
    BY <1>1, <1>7 DEF Move, Settling, Driver
  <2> HIDE DEF e
  <2>2. ~late => Complete(row, seen)
    BY <1>1, <1>3, <1>5, <1>7, EndComplete DEF AtStep, OnTrack
  <2>3. Aware(e, row, seen)
    BY <1>5, <2>1 DEF Aware
  <2>4. TimeOK(e, row, seen, late)
    BY <2>1, <2>2, <2>3 DEF TimeOK, Along, OnStep, Working, Calling, OnChild
  <2> QED
    BY <1>6, <2>1, <2>4
<1>8. CASE i <= Len /\ plan[i].kind # "end"
  <2>1. i \in DOMAIN plan
    BY <1>3, <1>8
  <2>2. CASE Goto(p, "exit")
    <3>1. Trails(d, At(d, "exit"))
      BY <1>1, <1>4, TrailsAt DEF Along, Driving, Begun, OnStep, Working, Calling, OnChild
    <3> QED
      BY <1>2, <2>2, <3>1, TimeLeaves DEF Goto, Move
  <2>3. CASE Move(p, Canceling(d, i))
    BY <1>1, <1>5, <1>6, <2>3, CancelingTime DEF Move
  <2>4. CASE (late \/ Spent(d)) /\ Move(p, Failing(d, i))
    <3>1. ASSUME ~late PROVE \A m \in Pos : i <= m => ~Touched(row, m)
      <4>1. i \notin d.prior
        BY <2>4, <3>1 DEF Spent
      <4>2. i \in Pos /\ i >= i
        BY <1>1, <1>3, <2>1, Order
      <4>3. ~Touched(row, i)
        BY <1>1, <4>1, <4>2 DEF AtStep
      <4>4. RowsOK(row, FALSE) /\ AtStep(d, row, FALSE)
        BY <1>1, <3>1 DEF RowsOK, AtStep, OnTrack
      <4> QED
        BY <1>1, <2>1, <4>3, <4>4, Fresh
    <3>2. ~late => Told(row, seen, i)
      <4>1. i \in Pos /\ i <= i
        BY <1>1, <1>3, <2>1, Order
      <4> QED
        BY <3>1, <4>1 DEF Touched, Told
    <3>3. ~late => \A m \in Pos : i < m => ~Touched(row, m)
      BY <1>3, <3>1
    <3>4. TimeOK(Failing(d, i), row, seen, late)
      BY <1>1, <1>5, <1>8, <2>1, <3>2, <3>3, FailingTime
    <3> QED
      BY <1>6, <2>4, <3>4 DEF Move
  <2> QED
    BY <1>8, <2>2, <2>3, <2>4, <1>3 DEF Boundary, Is
<1>9. CASE i <= Len /\ plan[i].kind = "end"
  <2> DEFINE l == plan[i].loop
             e == [d EXCEPT !.pos = l, !.pc = "fin", !.res = "succeeded"]
  <2>1. i \in DOMAIN plan /\ l # 0 /\ l = LoopOf(i) /\ drv' = [drv EXCEPT ![p] = e]
    BY <1>1, <1>3, <1>9, PlanFacts DEF WellNested, LoopOf, Boundary, Move
  <2>2. e.pos = l /\ e.pc = "fin" /\ e.prior = d.prior /\ e.shown = d.shown
    BY <1>1 DEF Driver
  <2> HIDE DEF e
  <2>3. l \in Pos /\ l \in Nat /\ l < i /\ IsLoop(l) /\ i = EndOf(l) /\ i \in Pos
    <3>1. l \in Pos /\ l \in Nat /\ IsLoop(l) /\ i \in Pos /\ l < i /\ i <= EndOf(l)
      BY <1>1, <2>1, Order
    <3>2. EndOf(l) \in 1 .. Len /\ ~(i < EndOf(l))
      BY <1>1, <1>9, <3>1, LoopShape
    <3>3. EndOf(l) \in Nat
      BY <1>3, <3>2
    <3> QED
      BY <1>3, <3>1, <3>2, <3>3
  <2>4. ASSUME ~late, NEW k \in Pos, LoopOf(k) = l PROVE Told(row, seen, k)
    <3>1. k <= i
      BY <1>1, <2>3, <2>4, LoopShape
    <3>2. CASE k = i
      <4>1. ~Touched(row, i)
        BY <1>1, <1>9, <2>3 DEF Placed
      <4> QED
        BY <3>2, <4>1 DEF Touched, Told
    <3>3. CASE k < i
      BY <1>5, <2>4, <3>3 DEF ToldTo
    <3> QED
      BY <1>3, <3>1, <3>2, <3>3
  <2>5. ~late => ToldTo(row, seen, l)
    BY <1>3, <1>5, <2>3 DEF ToldTo
  <2>6. Aware(e, row, seen)
    BY <1>5, <2>2 DEF Aware
  <2>7. TimeOK(e, row, seen, late)
    BY <2>2, <2>4, <2>5, <2>6 DEF TimeOK
  <2> QED
    BY <1>6, <2>1, <2>7
<1> QED
  BY <1>3, <1>7, <1>8, <1>9 DEF Boundary

-----------------------------------------------------------------------------
(* Steps that write a row.                                                 *)

\* A row that was not canceled is written: the driver's memory stays true.
LEMMA AwareWrite ==
    ASSUME NEW d, NEW rw, NEW rx, NEW sn, Aware(d, rw, sn), NEW i, rw[i].st # "canceled",
           \A m \in Pos : m # i => rx[m] = rw[m]
    PROVE  Aware(d, rx, sn)
  BY DEF Aware

\* The row at the driver's position is opened, kept open or closed, and its
\* event is not told yet.
LEMMA WriteTime ==
    ASSUME IInv, LInv, TInv, NEW p \in Proc, NEW i \in Pos, i = drv[p].pos, drv[p].pc \in Along,
           NEW e, drv' = [drv EXCEPT ![p] = e], plan' = plan, seen' = seen, run'.late = run.late,
           run.st # "succeeded" => run'.st # "succeeded",
           row[i].st # "canceled", row'[i].st # "skipped", \A m \in Pos : m # i => row'[m] = row[m],
           ~run.late /\ LoopOf(i) # 0 => row[LoopOf(i)].st # "succeeded",
           ~run.late /\ IsLoop(i) /\ row'[i].st = "succeeded" =>
               \A k \in Pos : LoopOf(k) = i => Told(row, seen, k),
           e.pos = i, e.prior = drv[p].prior, e.shown = drv[p].shown,
           e.pc \in (OnStep \ {"failed", "fin"}) \cup {"emit"}
    PROVE  TInv'
<1> DEFINE d == drv[p]  late == run.late
<1>1. d.pc # "none" /\ d.pc \in Driving
  BY DEF Along, Driving, Begun, OnStep, Working, Calling, OnChild
<1>2. TypeOK /\ run'.st # "succeeded" /\ Tells(row, seen, late) /\ Aware(d, row, seen)
      /\ (~late => ToldTo(row, seen, i))
  BY <1>1, TimeFacts DEF IInv
<1>3. Tells(row', seen, late)
  BY <1>2, TellsWrite DEF Later
<1>4. Aware(e, row', seen)
  <2>1. Aware(e, row, seen)
    BY <1>2 DEF Aware
  <2> QED
    BY <2>1, AwareWrite
<1>5. ~late => ToldTo(row', seen, i)
  <2>1. \A m \in Pos : m < i => m # i
    BY <1>2, Order
  <2> QED
    BY <1>2, <2>1 DEF ToldTo, Told
<1>6. TimeOK(e, row', seen, late)
  BY <1>4, <1>5 DEF TimeOK, OnStep, Working, Calling, OnChild
<1> QED
  BY <1>1, <1>2, <1>3, <1>6, TimeWrite

\* A claim and a retaken row.
LEMMA ClaimTime ==
    ASSUME IInv, LInv, TInv, NEW p \in Proc, Claim(p)
    PROVE  TInv'
<1> DEFINE d == drv[p]  i == d.pos
           e == [d EXCEPT !.pc = Entry(i), !.att = 1, !.exec = d.exec + 1, !.child = "none"]
           r == [st |-> "running", att |-> 1, inp |-> d.sc, out |-> 0]
<1>1. /\ Stepping(p) /\ row[i].st = "none" /\ UNCHANGED <<run, plan, seen>>
      /\ row' = [row EXCEPT ![i] = r] /\ drv' = [drv EXCEPT ![p] = e]
  BY DEF Claim, Move, around
<1>2. d.pc = "step" /\ d \in Driver /\ i \in Pos /\ row \in [Pos -> StepRow]
  BY <1>1, SteppingFacts
<1>3. Framed(row, i)
  BY ClaimPath
<1>4. row'[i].st = "running" /\ \A m \in Pos : m # i => row'[m] = row[m]
  BY <1>1, <1>2
<1>5. e.pc = Entry(i) /\ e.pos = i /\ e.prior = d.prior /\ e.shown = d.shown
  BY <1>2 DEF Driver
<1> HIDE DEF e, r
<1>6. e.pc \in OnStep \ {"failed", "fin"}
  BY <1>5 DEF Entry, OnStep, Working, Calling
<1>7. LoopOf(i) # 0 => row[LoopOf(i)].st # "succeeded"
  BY <1>3 DEF Framed
<1>8. d.pc \in Along
  BY <1>2 DEF Along
<1> QED
  BY <1>1, <1>2, <1>4, <1>5, <1>6, <1>7, <1>8, WriteTime

\* A claim taken over opens its row again, or leaves it open.
LEMMA ReclaimTime ==
    ASSUME IInv, LInv, TInv, NEW p \in Proc, Reclaim(p)
    PROVE  TInv'
<1> DEFINE d == drv[p]  i == d.pos
<1>1. Stepping(p) /\ row[i].st # "none" /\ ~Adopted(i) /\ UNCHANGED <<run, plan, seen>>
  BY DEF Reclaim, around
<1>2. d.pc = "step" /\ d \in Driver /\ i \in Pos /\ row \in [Pos -> StepRow]
  BY <1>1, SteppingFacts
<1>3. AtStep(d, row, run.late)
  BY <1>2, PathFacts DEF PathOK
<1>4. d.pc \in Along /\ d.pc \in Driving /\ d.pc # "none"
  BY <1>2 DEF Along, Driving, Begun
<1>5. Aware(d, row, seen) /\ (~run.late => ToldTo(row, seen, i))
  BY <1>4, TimeFacts
<1>6. CASE Forbidden(i)
  <2> DEFINE e == [d EXCEPT !.pc = "fin", !.res = "failed"]
  <2>1. drv' = [drv EXCEPT ![p] = e] /\ row' = row
    BY <1>6 DEF Reclaim, Move
  <2>2. e.pc = "fin" /\ e.pos = i /\ e.res = "failed" /\ e.prior = d.prior /\ e.shown = d.shown
    BY <1>2 DEF Driver
  <2> HIDE DEF e
  <2>3. Aware(e, row, seen)
    BY <1>5, <2>2 DEF Aware
  <2>4. TimeOK(e, row, seen', run.late)
    BY <1>1, <1>5, <2>2, <2>3 DEF TimeOK
  <2> QED
    BY <1>1, <1>4, <2>1, <2>4, TimeWalk DEF Later
<1>7. CASE ~Forbidden(i)
  <2> DEFINE att == IF row[i].st = "waiting" THEN row[i].att ELSE row[i].att + 1
             child == IF kid[i].st = "none" THEN "none" ELSE "linked"
             e == [d EXCEPT !.pc = Entry(i), !.att = att, !.exec = d.exec + 1, !.child = child]
             r == [row[i] EXCEPT !.st = "running", !.att = att, !.inp = row[i].inp]
  <2>1. drv' = [drv EXCEPT ![p] = e] /\ row' = [row EXCEPT ![i] = r]
    BY <1>7 DEF Reclaim, Move, Input
  <2> HIDE DEF att, child
  <2>2. r.st = "running"
    BY <1>2 DEF StepRow
  <2>3. e.pc = Entry(i) /\ e.pos = i /\ e.prior = d.prior /\ e.shown = d.shown
    BY <1>2 DEF Driver
  <2> HIDE DEF e, r
  <2>4. e.pc \in OnStep \ {"failed", "fin"}
    BY <2>3 DEF Entry, OnStep, Working, Calling
  <2>5. row'[i].st = "running" /\ \A m \in Pos : m # i => row'[m] = row[m]
    BY <1>2, <2>1, <2>2
  <2>6. LoopOf(i) # 0 => row[LoopOf(i)].st # "succeeded"
    BY <1>3 DEF AtStep, OnTrack, Framed
  <2>7. row[i].st # "canceled"
    BY <1>1 DEF Adopted, Terminal
  <2> QED
    BY <1>1, <1>2, <1>4, <2>1, <2>3, <2>4, <2>5, <2>6, <2>7, WriteTime
<1> QED
  BY <1>6, <1>7

\* A row in hand is open, and its loop has not succeeded.
LEMMA HandFacts ==
    ASSUME IInv, LInv, NEW p \in Proc, drv[p].pc \in OnStep \cup {"cancelrow"}
    PROVE  LET i == drv[p].pos IN
           /\ i \in Pos /\ i \in DOMAIN plan /\ plan[i].kind # "end" /\ row \in [Pos -> StepRow] /\ drv[p] \in Driver
           /\ row[i].st \in {"running", "waiting"}
           /\ ~run.late /\ LoopOf(i) # 0 => row[LoopOf(i)].st # "succeeded"
<1>1. RowsOK(row, run.late) /\ drv[p] \in Driver
  BY PathFacts
<1>2. drv[p].pos \in Pos /\ Opened(row, drv[p].pos) /\ row \in [Pos -> StepRow]
  BY RowInHand
<1>3. drv[p].pos \in DOMAIN plan /\ plan[drv[p].pos].kind # "end"
  BY PathFacts DEF OnStep, Closes
<1> QED
  BY <1>1, <1>2, <1>3 DEF RowsOK, Bodies, Opened

\* The outcome of a step is recorded before its event.
LEMMA EndedTime ==
    ASSUME IInv, LInv, TInv, NEW p \in Proc, drv[p].pc \in OnStep, NEW e, drv' = [drv EXCEPT ![p] = e],
           UNCHANGED <<run, plan, seen>>, NEW i \in Pos, i = drv[p].pos,
           \A m \in Pos : m # i => row'[m] = row[m],
           e.pos = i, e.pc = "emit", e.prior = drv[p].prior, e.shown = drv[p].shown, row'[i].st \in Terminal,
           IsLoop(i) => drv[p].pc = "fin" /\ row'[i].st = drv[p].res
    PROVE  TInv'
<1>1. drv[p].pc \in Along
  BY DEF Along
<1>2. row[i].st # "canceled" /\ (~run.late /\ LoopOf(i) # 0 => row[LoopOf(i)].st # "succeeded")
  BY HandFacts
<1>3. ~run.late /\ IsLoop(i) /\ row'[i].st = "succeeded" => \A k \in Pos : LoopOf(k) = i => Told(row, seen, k)
  BY DEF TInv, TimeOK
<1>4. row'[i].st # "skipped"
  BY DEF Terminal
<1> QED
  BY <1>1, <1>2, <1>3, <1>4, WriteTime

\* A condition's value, a call's and a child's answer.
LEMMA AnswerTime ==
    ASSUME IInv, LInv, TInv, NEW p \in Proc, Filter(p) \/ Branch(p) \/ Return(p) \/ Watch(p)
    PROVE  TInv'
<1> DEFINE d == drv[p]  i == d.pos
<1>1. /\ d.pc \in {"eval", "calling", "watch"} /\ UNCHANGED <<run, plan, seen>>
  BY DEF Filter, Branch, Decide, Return, Watch, Is, around
<1>2. d.pc \in OnStep /\ d.pc # "none"
  BY <1>1 DEF OnStep, Working, Calling, OnChild
<1>3. /\ i \in Pos /\ row \in [Pos -> StepRow] /\ d \in Driver
      /\ (d.pc \in {"calling", "watch"} => ~IsLoop(i))
  BY <1>2, HandFacts, PathFacts DEF PathOK, AtRow, Trying, Calling, OnChild
<1>4. ~IsLoop(i)
  <2>1. CASE Filter(p) \/ Branch(p)
    BY <2>1 DEF Filter, Branch, IsLoop
  <2>2. CASE Return(p) \/ Watch(p)
    BY <1>3, <2>2 DEF Return, Watch, Is
  <2> QED
    BY <2>1, <2>2
<1>5. ASSUME NEW e, drv' = [drv EXCEPT ![p] = e], Trails(d, e), row' = row PROVE TInv'
  BY <1>1, <1>5, TimeLeaves
<1>6. CASE row' = row /\ \E pc \in {"exit", "cancelrow", "park"} : drv' = [drv EXCEPT ![p] = At(d, pc)]
  <2>1. PICK pc \in {"exit", "cancelrow", "park"} : drv' = [drv EXCEPT ![p] = At(d, pc)]
    BY <1>6
  <2>2. Trails(d, At(d, pc))
    BY <1>2, <1>3, TrailsAt DEF Along, Driving, Begun, OnStep, Working, Calling, OnChild
  <2> QED
    BY <1>5, <1>6, <2>1, <2>2
<1>7. ASSUME NEW b, Move(p, Closing(d, "failed")) \/ Move(p, Failed(d, b)), row' = row
      PROVE  TInv'
  <2>1. Trails(d, Closing(d, "failed")) /\ Trails(d, Failed(d, b))
    BY <1>2, <1>3, TrailsFailed
  <2> QED
    BY <1>5, <1>7, <2>1 DEF Move
<1>8. CASE Move(p, [d EXCEPT !.pc = "dispatching", !.child = "stillborn"]) /\ row' = row
  <2>1. Trails(d, [d EXCEPT !.pc = "dispatching", !.child = "stillborn"])
    BY <1>2, <1>3 DEF Trails, Driver, OnStep, Working, OnChild, Calling, Driving, Begun
  <2> QED
    BY <1>5, <1>8, <2>1 DEF Move
<1>9. ASSUME NEW v, row' = [row EXCEPT ![i].st = "succeeded", ![i].out = v],
             Move(p, [d EXCEPT !.pc = "emit", !.res = "succeeded"])
      PROVE  TInv'
  <2> DEFINE e == [d EXCEPT !.pc = "emit", !.res = "succeeded"]
  <2>1. e.pc = "emit" /\ e.pos = i /\ e.prior = d.prior /\ e.shown = d.shown
        /\ drv' = [drv EXCEPT ![p] = e]
    BY <1>3, <1>9 DEF Driver, Move
  <2> HIDE DEF e
  <2>2. row'[i].st \in Terminal /\ \A k \in Pos : k # i => row'[k] = row[k]
    BY <1>3, <1>9 DEF StepRow, Terminal
  <2> QED
    BY <1>1, <1>2, <1>3, <1>4, <2>1, <2>2, EndedTime
<1>10. CASE Filter(p) \/ Branch(p)
  BY <1>7, <1>9, <1>10 DEF Filter, Branch, Decide
<1>11. CASE Return(p)
  BY <1>6, <1>7, <1>9, <1>11 DEF Return, Goto, Move
<1>12. CASE Watch(p)
  BY <1>6, <1>7, <1>8, <1>9, <1>12 DEF Watch, Goto, Move
<1> QED
  BY <1>10, <1>11, <1>12

\* The outcome of a control step, of a loop or of a step that was refused.
LEMMA FinishTime ==
    ASSUME IInv, LInv, TInv, NEW p \in Proc, Finish(p)
    PROVE  TInv'
<1> DEFINE d == drv[p]  i == d.pos  e == At(d, "emit")
<1>1. /\ d.pc = "fin" /\ d.pc \in OnStep /\ UNCHANGED <<run, plan, seen>>
      /\ row' = [row EXCEPT ![i].st = d.res] /\ drv' = [drv EXCEPT ![p] = e]
  BY DEF Finish, Is, Goto, Move, around, OnStep
<1>2. i \in Pos /\ row \in [Pos -> StepRow] /\ d.res \in Terminal /\ d \in Driver
  BY <1>1, RowInHand, HandFacts
<1>3. e.pc = "emit" /\ e.pos = i /\ e.prior = d.prior /\ e.shown = d.shown
  BY <1>2 DEF Driver, At
<1> HIDE DEF e
<1>4. row'[i].st = d.res /\ \A k \in Pos : k # i => row'[k] = row[k]
  BY <1>1, <1>2 DEF StepRow
<1> QED
  BY <1>1, <1>2, <1>3, <1>4, EndedTime

\* A canceled row has no event to tell.
LEMMA CloseCanceledTime ==
    ASSUME IInv, LInv, TInv, NEW p \in Proc, CloseCanceled(p)
    PROVE  TInv'
<1> DEFINE d == drv[p]  i == d.pos  late == run.late
<1>0. CASE Goto(p, "exit") /\ UNCHANGED row
  <2>1. drv' = [drv EXCEPT ![p] = At(d, "exit")] /\ UNCHANGED <<run, plan, seen>> /\ d.pc = "cancelrow"
    BY <1>0 DEF CloseCanceled, Is, Goto, Move, around
  <2>2. Trails(d, At(d, "exit"))
    BY <2>1, TrailsAt DEF IInv, TypeOK, Along, Driving, Begun, OnStep, Working, Calling, OnChild
  <2> QED
    BY <1>0, <2>1, <2>2, TimeLeaves
<1> SUFFICES ASSUME ~(Goto(p, "exit") /\ UNCHANGED row)
             PROVE  TInv'
  BY <1>0
<1>1. /\ d.pc = "cancelrow" /\ UNCHANGED <<run, plan, seen>>
      /\ row' = [row EXCEPT ![i].st = "canceled"] /\ drv' = [drv EXCEPT ![p] = Canceling(d, i)]
  BY DEF CloseCanceled, Is, Move, around
<1>2. /\ TypeOK /\ i \in Pos /\ row \in [Pos -> StepRow] /\ d \in Driver /\ row[i].st # "canceled"
      /\ (~late /\ LoopOf(i) # 0 => row[LoopOf(i)].st # "succeeded")
  BY <1>1, HandFacts, PathFacts
<1>3. row'[i].st = "canceled" /\ \A k \in Pos : k # i => row'[k] = row[k]
  BY <1>1, <1>2 DEF StepRow
<1>4. d.pc # "none" /\ d.pc \in Driving
  BY <1>1 DEF Driving, Begun
<1>5. run.st # "succeeded" /\ Tells(row, seen, late) /\ Aware(d, row, seen)
  BY <1>4, TimeFacts
<1>6. Tells(row', seen', late) /\ Aware(d, row', seen')
  <2>1. Later(seen, seen') /\ row'[i].st \notin {"skipped", "succeeded"}
    BY <1>1, <1>3 DEF Later
  <2>2. Tells(row', seen', late)
    BY <1>2, <1>3, <1>5, <2>1, TellsWrite
  <2>3. Aware(d, row', seen')
    BY <1>1, <1>2, <1>3, <1>5 DEF Aware
  <2> QED
    BY <2>2, <2>3
<1>7. TimeOK(Canceling(d, i), row', seen', late)
  BY <1>2, <1>6, CancelingTime
<1> QED
  BY <1>1, <1>4, <1>5, <1>6, <1>7, TimeWrite

\* The row of a leaf that failed: its event was told before.
LEMMA RecordFailureTime ==
    ASSUME IInv, LInv, TInv, NEW p \in Proc, RecordFailure(p)
    PROVE  TInv'
<1> DEFINE d == drv[p]  i == d.pos  late == run.late
<1>1. /\ d.pc = "failed" /\ d.pc \in OnStep /\ UNCHANGED <<run, plan, seen>>
      /\ row' = [row EXCEPT ![i].st = "failed"] /\ drv' = [drv EXCEPT ![p] = Failing(d, i)]
  BY DEF RecordFailure, Is, Move, around, OnStep
<1>2. /\ TypeOK /\ i \in Pos /\ i \in DOMAIN plan /\ plan[i].kind # "end" /\ row \in [Pos -> StepRow]
      /\ d \in Driver /\ row[i].st \in {"running", "waiting"} /\ RowsOK(row, late)
      /\ (~late /\ LoopOf(i) # 0 => row[LoopOf(i)].st # "succeeded")
  BY <1>1, HandFacts, PathFacts
<1>3. row'[i].st = "failed" /\ row'[i].inp = row[i].inp /\ row'[i].out = row[i].out
      /\ \A k \in Pos : k # i => row'[k] = row[k]
  BY <1>1, <1>2 DEF StepRow
<1>4. RowsOK(row', late)
  BY <1>2, <1>3, ClosedRows DEF Terminal, Opened
<1>5. d.pc # "none" /\ d.pc \in Driving /\ d.pc \in Along
  BY <1>1 DEF Driving, Begun, Along, OnStep
<1>6. /\ run.st # "succeeded" /\ Tells(row, seen, late) /\ Aware(d, row, seen)
      /\ (~late => ToldTo(row, seen, i)) /\ seen[i] > 0
  <2>1. /\ run.st # "succeeded" /\ Tells(row, seen, late) /\ Aware(d, row, seen)
        /\ (~late => ToldTo(row, seen, i)) /\ TimeOK(d, row, seen, late)
    BY <1>5, TimeFacts
  <2>2. seen[i] > 0
    BY <1>1, <1>2, <2>1 DEF TimeOK
  <2> QED
    BY <2>1, <2>2
<1>7. Tells(row', seen', late) /\ Aware(d, row', seen')
  <2>1. Later(seen, seen') /\ row'[i].st \notin {"skipped", "succeeded"}
    BY <1>1, <1>3 DEF Later
  <2>2. Tells(row', seen', late)
    BY <1>2, <1>3, <1>6, <2>1, TellsWrite
  <2>3. Aware(d, row', seen')
    BY <1>1, <1>2, <1>3, <1>6 DEF Aware
  <2> QED
    BY <2>2, <2>3
<1>8. ~late => ToldTo(row', seen', i) /\ Told(row', seen', i)
  <2>1. \A m \in Pos : m < i => m # i
    BY <1>2, Order
  <2> QED
    BY <1>1, <1>3, <1>6, <2>1 DEF ToldTo, Told
<1>9. LoopOf(i) # 0 =>
        \A m \in Pos : i < m /\ LoopOf(m) = LoopOf(i) /\ SameItem(i, m) => ~Touched(row', m)
  BY <1>2, <1>3, <1>4, ItemOver DEF RowsOK, EndsItem
<1>10. SameData(row') /\ Placed(row')
  BY <1>3, <1>4 DEF SameData, RowsOK
<1>11. TimeOK(Failing(d, i), row', seen', late)
  BY <1>2, <1>7, <1>8, <1>9, <1>10, FailingTime
<1> QED
  BY <1>1, <1>5, <1>6, <1>7, <1>11, TimeWrite

\* Another attempt, and the wait for a child.
LEMMA WaitTime ==
    ASSUME IInv, LInv, TInv, NEW p \in Proc, Retry(p) \/ Park(p) \/ Unpark(p)
    PROVE  TInv'
<1> DEFINE d == drv[p]  i == d.pos  late == run.late
<1>1. d.pc \in OnStep /\ d.pc # "none" /\ d.pc \in Along /\ plan' = plan /\ seen' = seen /\ run \in RunRow
  BY DEF Retry, Park, Unpark, Is, around, OnStep, Working, Calling, OnChild, Along, IInv, TypeOK
<1>2. /\ i \in Pos /\ row \in [Pos -> StepRow] /\ d \in Driver /\ row[i].st # "canceled"
      /\ (~late /\ LoopOf(i) # 0 => row[LoopOf(i)].st # "succeeded")
  BY <1>1, HandFacts
<1>3. run'.late = late /\ (run.st # "succeeded" => run'.st # "succeeded")
  BY <1>1, RunMarks, MarkedRun DEF Retry, Park, Unpark
<1>4. ASSUME NEW e, NEW st \in {"running", "waiting"}, drv' = [drv EXCEPT ![p] = e], e.pos = i, e.prior = d.prior,
             e.shown = d.shown, e.pc \in {"attempt", "parked"}, row'[i].st = st,
             \A m \in Pos : m # i => row'[m] = row[m]
      PROVE  TInv'
  <2>1. e.pc \in OnStep \ {"failed", "fin"}
    BY <1>4 DEF OnStep, Working, Calling, OnChild
  <2>2. row'[i].st \notin {"skipped", "succeeded"}
    BY <1>4
  <2> QED
    BY <1>1, <1>2, <1>3, <1>4, <2>1, <2>2, WriteTime
<1>5. CASE Retry(p)
  <2> DEFINE e == [d EXCEPT !.pc = "attempt", !.att = d.att + 1]
  <2>1. drv' = [drv EXCEPT ![p] = e] /\ row' = [row EXCEPT ![i].st = "running", ![i].att = d.att + 1]
    BY <1>5 DEF Retry, Move
  <2>2. e.pos = i /\ e.prior = d.prior /\ e.shown = d.shown /\ e.pc \in {"attempt", "parked"}
    BY <1>2 DEF Driver
  <2> HIDE DEF e
  <2>3. row'[i].st = "running" /\ \A m \in Pos : m # i => row'[m] = row[m]
    BY <1>2, <2>1 DEF StepRow
  <2> QED
    BY <1>4, <2>1, <2>2, <2>3
<1>6. ASSUME NEW pc \in {"attempt", "parked"}, NEW st \in {"running", "waiting"}, Goto(p, pc),
             row' = [row EXCEPT ![i].st = st]
      PROVE  TInv'
  <2> DEFINE e == At(d, pc)
  <2>1. drv' = [drv EXCEPT ![p] = e]
    BY <1>6 DEF Goto, Move
  <2>2. e.pos = i /\ e.prior = d.prior /\ e.shown = d.shown /\ e.pc \in {"attempt", "parked"}
    BY <1>2 DEF Driver, At
  <2> HIDE DEF e
  <2>3. row'[i].st = st /\ \A m \in Pos : m # i => row'[m] = row[m]
    BY <1>2, <1>6 DEF StepRow
  <2> QED
    BY <1>4, <2>1, <2>2, <2>3
<1>7. CASE Park(p)
  BY <1>6, <1>7 DEF Park
<1>8. CASE Unpark(p) /\ (d.intr \/ d.cancel)
  <2>1. row' = row /\ \E pc \in {"exit", "cancelrow"} : drv' = [drv EXCEPT ![p] = At(d, pc)]
    BY <1>8 DEF Unpark, Goto, Move
  <2>2. \A pc \in {"exit", "cancelrow"} : Trails(d, At(d, pc))
    BY <1>1, <1>2, TrailsAt DEF Along, Driving, Begun, OnStep, Working, Calling, OnChild
  <2> QED
    BY <1>1, <1>3, <2>1, <2>2, TimeLeaves
<1>9. CASE Unpark(p) /\ ~(d.intr \/ d.cancel)
  BY <1>6, <1>9 DEF Unpark
<1> QED
  BY <1>5, <1>7, <1>8, <1>9

-----------------------------------------------------------------------------
(* Steps that take a row for told.                                         *)

\* The event of an adopted row, unless it was shown or is not owed.
LEMMA BackfillTold ==
    ASSUME TypeOK, NEW d, Aware(d, row, seen), NEW i \in Pos, i \in d.prior, Backfill(d, i)
    PROVE  Later(seen, seen') /\ Told(row, seen', i) /\ (seen'[i] > 0 \/ row[i].st = "canceled")
<1>1. CASE i \notin d.shown /\ row[i].st # "canceled"
  <2>1. seen' = [seen EXCEPT ![i] = @ + 1]
    BY <1>1 DEF Backfill
  <2> QED
    BY <2>1, EventTold DEF Told
<1>2. CASE ~(i \notin d.shown /\ row[i].st # "canceled")
  <2>1. seen' = seen
    BY <1>2 DEF Backfill
  <2>2. seen[i] > 0 \/ row[i].st = "canceled"
    BY <1>2 DEF Aware
  <2> QED
    BY <2>1, <2>2 DEF Later, Told
<1> QED
  BY <1>1, <1>2

\* What is shown from now on.
LEMMA AwareAdds ==
    ASSUME NEW d, NEW e, NEW rw, NEW sn, NEW sm, Aware(d, rw, sn), Later(sn, sm), NEW i,
           e.prior = d.prior, e.shown = d.shown \cup {i}, sm[i] > 0 \/ rw[i].st = "canceled"
    PROVE  Aware(e, rw, sm)
  BY DEF Aware, Later

\* An adopted row shows its event, now or since before.
LEMMA AdoptTime ==
    ASSUME IInv, LInv, TInv, NEW p \in Proc, Adopt(p)
    PROVE  TInv'
<1> DEFINE d == drv[p]  i == d.pos  late == run.late
           sc == IF row[i].st = "succeeded" THEN Fed(d.sc, i) ELSE d.sc
           b == [d EXCEPT !.res = row[i].st, !.shown = d.shown \cup {i}, !.sc = sc]
           e == Passing(b, i)
<1>1. /\ Stepping(p) /\ Adopted(i) /\ UNCHANGED <<run, row, plan>> /\ drv' = [drv EXCEPT ![p] = e]
      /\ Backfill(d, i) /\ row[i].st # "none"
  BY DEF Adopt, Move, around
<1>2. /\ TypeOK /\ d.pc = "step" /\ d \in Driver /\ i \in DOMAIN plan /\ plan[i].kind # "end" /\ i \in Pos
      /\ row \in [Pos -> StepRow] /\ ~late
  BY <1>1, SteppingFacts DEF Steppable, Stepping
<1>3. RowsOK(row, late) /\ AtStep(d, row, late)
  BY <1>2, PathFacts DEF PathOK
<1>4. OnTrack(row, late, i) /\ i \in d.prior /\ \A m \in Pos : i < m /\ Touched(row, m) => m \in d.prior
  <2>1. i \in Nat /\ Pos \subseteq Nat
    BY <1>2, Order
  <2>2. Touched(row, i) /\ i >= i
    BY <1>1, <2>1 DEF Touched
  <2> QED
    BY <1>2, <1>3, <2>1, <2>2 DEF AtStep
<1>5. sc \in Value
  BY <1>2 DEF Fed, Driver, StepRow
<1> HIDE DEF sc
<1>6. b \in Driver /\ b.res = row[i].st /\ b.prior = d.prior /\ b.shown = d.shown \cup {i}
  BY <1>1, <1>2, <1>5 DEF Driver, Adopted
<1> HIDE DEF b
<1>7. row[i].st \in {"succeeded", "failed", "canceled"}
  <2>1. ASSUME row[i].st = "skipped" PROVE FALSE
    <3>1. PICK f \in Pos : f < i /\ IsTop(f) /\ Skips(row, f)
      BY <1>2, <1>3, <2>1 DEF RowsOK, Skipped, FilteredOut
    <3>2. EndsRun(row, f)
      BY <3>1 DEF EndsRun
    <3>3. f # LoopOf(i)
      BY <1>2, <3>1, Order DEF Skips
    <3> QED
      BY <1>2, <1>4, <3>1, <3>2, <3>3 DEF OnTrack, Clear
  <2> QED
    BY <1>1, <2>1 DEF Adopted, Terminal
<1>8. d.pc \in Along /\ d.pc \in Driving /\ d.pc # "none"
  BY <1>2 DEF Along, Driving, Begun
<1>9. Tells(row, seen, late) /\ Aware(d, row, seen) /\ (~late => ToldTo(row, seen, i))
  BY <1>8, TimeFacts
<1>10. Later(seen, seen') /\ Told(row, seen', i) /\ (seen'[i] > 0 \/ row[i].st = "canceled")
  BY <1>1, <1>2, <1>4, <1>9, BackfillTold
<1>11. Tells(row, seen', late) /\ Aware(b, row, seen') /\ (~late => ToldTo(row, seen', i))
  BY <1>6, <1>9, <1>10, TellsLater, AwareAdds, LaterFacts
<1>12. \A m \in Pos : i < m /\ Touched(row, m) => m \in b.prior \/ (IsLoop(i) /\ LoopOf(m) = i)
  BY <1>4, <1>6
<1>13. TimeOK(e, row, seen', late)
  BY <1>2, <1>3, <1>6, <1>7, <1>10, <1>11, <1>12, PassingTime
<1> QED
  BY <1>1, <1>8, <1>10, <1>13, TimeWalk

\* The items of a loop.
LEMMA LoopEnterTime ==
    ASSUME IInv, LInv, TInv, NEW p \in Proc, LoopEnter(p)
    PROVE  TInv'
<1> DEFINE d == drv[p]  i == d.pos  late == run.late
<1>1. d.pc = "eval" /\ d.pc \in OnStep /\ UNCHANGED <<run, row, plan, seen>>
  BY DEF LoopEnter, Is, around, OnStep, Working
<1>2. TypeOK /\ d \in Driver /\ Placed(row) /\ SameData(row)
  BY PathFacts DEF RowsOK
<1>3. CASE Move(p, Closing(d, "failed"))
  <2>1. Trails(d, Closing(d, "failed"))
    BY <1>1, <1>2, TrailsFailed
  <2> QED
    BY <1>1, <1>3, <2>1, TimeLeaves DEF Move
<1>4. CASE Move(p, Onward(d, i + 1))
  <2>1. /\ i \in Pos /\ i \in 1 .. Len /\ Len \in Nat /\ Pos \subseteq Nat /\ row[i].st \in {"running", "waiting"}
    BY <1>1, <1>2, HandFacts, Order
  <2>2. d.pc \in Along /\ d.pc \in Driving /\ d.pc # "none"
    BY <1>1 DEF Along, Driving, Begun
  <2>3. Aware(d, row, seen) /\ (~late => ToldTo(row, seen, i))
    BY <2>2, TimeFacts
  <2>4. ASSUME ~late PROVE ToldTo(row, seen, i + 1)
    <3> SUFFICES ASSUME NEW k \in Pos, k < i + 1 PROVE Told(row, seen, k)
      BY DEF ToldTo
    <3>1. k < i \/ k = i
      BY <2>1
    <3> QED
      BY <2>1, <2>3, <2>4, <3>1 DEF ToldTo, Told
  <2>5. i + 1 \in 1 .. Len + 1
    BY <2>1
  <2>6. TimeOK(Onward(d, i + 1), row, seen, late)
    BY <1>2, <2>3, <2>4, <2>5, OnwardTime
  <2> QED
    BY <1>1, <1>4, <2>2, <2>6, TimeWalk DEF Move, Later
<1> QED
  BY <1>3, <1>4 DEF LoopEnter

\* Between a step behind a false filter and the next one outside loops and
\* lanes nothing was claimed.
LEMMA NextTopTold ==
    ASSUME TypeOK, NEW rw, NEW sn, NEW late, Tells(rw, sn, late), Halted(rw), NEW i \in Pos,
           FilteredOut(rw, i), ToldTo(rw, sn, i), Told(rw, sn, i)
    PROVE  ToldTo(rw, sn, NextTop(i))
<1> SUFFICES ASSUME NEW k \in Pos, k < NextTop(i) PROVE Told(rw, sn, k)
  BY DEF ToldTo
<1>1. i \in Nat /\ k \in Nat /\ MaxLen \in Nat /\ i \in 1 .. MaxLen + 1
  BY Order DEF Pos
<1>2. CASE i < k
  <2>1. FilteredOut(rw, k)
    <3>1. PICK f \in Pos : f < i /\ IsTop(f) /\ Skips(rw, f)
      BY DEF FilteredOut
    <3>2. f < k
      BY <1>1, <1>2, <3>1, Order
    <3> QED
      BY <3>1, <3>2 DEF FilteredOut
  <2>2. ~Outside(k)
    BY <1>1, <1>2, JumpedOver
  <2>3. ~Touched(rw, k)
    BY <2>1, <2>2, BehindFilter
  <2> QED
    BY <2>3 DEF Touched, Told
<1>3. CASE k < i
  BY <1>3 DEF ToldTo
<1> QED
  BY <1>1, <1>2, <1>3

\* The steps behind a false filter are marked and told one after the other.
LEMMA SkipTime ==
    ASSUME IInv, LInv, TInv, NEW p \in Proc, SkipStep(p) \/ SkipEmit(p)
    PROVE  TInv'
<1> DEFINE d == drv[p]  i == d.pos  late == run.late
<1>1. d.pc \in {"skip", "skipped"} /\ UNCHANGED <<run, plan>>
  BY DEF SkipStep, SkipEmit, Is, around
<1>2. /\ TypeOK /\ d \in Driver /\ RowsOK(row, late) /\ FilteredOut(row, i) /\ Placed(row) /\ Halted(row)
      /\ (i \in DOMAIN plan => Outside(i)) /\ i \in 1 .. MaxLen + 1 /\ row \in [Pos -> StepRow]
  BY <1>1, PathFacts DEF PathOK, Driver, TypeOK, RowsOK, Outside
<1>3. /\ Len \in Nat /\ MaxLen \in Nat /\ DOMAIN plan = 1 .. Len /\ DOMAIN plan \subseteq Pos /\ Pos \subseteq Nat
      /\ i \in Nat
  BY <1>2, Order
<1>4. d.pc # "none" /\ d.pc \in Driving /\ d.pc \in Along
  BY <1>1 DEF Driving, Begun, Along
<1>5. /\ run.st # "succeeded" /\ Tells(row, seen, late) /\ Aware(d, row, seen)
      /\ (~late => ToldTo(row, seen, i)) /\ TimeOK(d, row, seen, late)
  BY <1>4, TimeFacts
<1>6. ASSUME NEW e, drv' = [drv EXCEPT ![p] = e], row' = row, i \in Pos, i <= Len, Later(seen, seen'),
             Told(row, seen', i), e.pc = "skip", e.pos = NextTop(i), e.prior = d.prior, Aware(e, row, seen'),
             \A k \in Pos : k > i /\ Touched(row, k) => k \in d.prior
      PROVE  TInv'
  <2>1. ~late => ToldTo(row, seen', NextTop(i))
    BY <1>2, <1>5, <1>6, TellsLater, LaterFacts, NextTopTold
  <2>2. NextTop(i) \in Nat /\ i < NextTop(i)
    BY <1>2, <1>3, <1>6, NextTopShape
  <2>3. \A k \in Pos : k >= e.pos /\ Touched(row, k) => k \in e.prior
    BY <1>3, <1>6, <2>2
  <2>4. TimeOK(e, row, seen', late)
    BY <1>6, <2>1, <2>3 DEF TimeOK
  <2> QED
    BY <1>1, <1>4, <1>6, <2>4, TimeWalk
<1>7. CASE SkipEmit(p)
  <2> DEFINE e == [d EXCEPT !.pc = "skip", !.pos = NextTop(i)]
  <2>1. drv' = [drv EXCEPT ![p] = e] /\ row' = row /\ d.pc = "skipped" /\ seen' = [seen EXCEPT ![i] = @ + 1]
    BY <1>7 DEF SkipEmit, Move, Is
  <2>2. e.pc = "skip" /\ e.pos = NextTop(i) /\ e.prior = d.prior /\ e.shown = d.shown
    BY <1>2 DEF Driver
  <2> HIDE DEF e
  <2>3. i \in Pos /\ i <= Len
    <3>1. i \in DOMAIN plan /\ \A k \in Pos : k > i /\ Touched(row, k) => k \in d.prior
      BY <1>5, <2>1 DEF TimeOK
    <3> QED
      BY <1>3, <3>1
  <2>4. Later(seen, seen') /\ seen'[i] > 0
    BY <1>2, <2>1, <2>3, EventTold
  <2>5. Aware(e, row, seen')
    BY <1>5, <2>2, <2>4 DEF Aware, Later
  <2>6. \A k \in Pos : k > i /\ Touched(row, k) => k \in d.prior
    BY <1>5, <2>1 DEF TimeOK
  <2> QED
    BY <1>6, <2>1, <2>2, <2>3, <2>4, <2>5, <2>6 DEF Told
<1>8. CASE i > Len /\ Move(p, Settling(d, "succeeded")) /\ row' = row /\ seen' = seen
  <2> DEFINE e == Settling(d, "succeeded")
  <2>1. drv' = [drv EXCEPT ![p] = e] /\ e.pc = "settle" /\ e.prior = d.prior /\ e.shown = d.shown
    BY <1>2, <1>8 DEF Move, Settling, Driver
  <2> HIDE DEF e
  <2>2. Shut(row, i)
    BY <1>2, NothingOpen DEF Shut, RowsOK
  <2>3. ~late => Complete(row, seen)
    BY <1>2, <1>3, <1>5, <1>8, <2>2, EndComplete
  <2>4. Aware(e, row, seen)
    BY <1>5, <2>1 DEF Aware
  <2>5. TimeOK(e, row, seen, late)
    BY <2>1, <2>3, <2>4 DEF TimeOK, Along, OnStep, Working, Calling, OnChild
  <2> QED
    BY <1>1, <1>4, <1>8, <2>1, <2>5, TimeWalk DEF Later
<1>9. CASE /\ i <= Len /\ d.pc = "skip" /\ row' = row /\ Backfill(d, i) /\ row[i].st # "none"
           /\ Move(p, [d EXCEPT !.pos = NextTop(i), !.shown = @ \cup {i}])
  <2> DEFINE e == [d EXCEPT !.pos = NextTop(i), !.shown = d.shown \cup {i}]
  <2>1. drv' = [drv EXCEPT ![p] = e]
    BY <1>9 DEF Move
  <2>2. e.pc = "skip" /\ e.pos = NextTop(i) /\ e.prior = d.prior /\ e.shown = d.shown \cup {i}
    BY <1>2, <1>9 DEF Driver
  <2> HIDE DEF e
  <2>3. i \in Pos /\ Touched(row, i) /\ i >= i
    BY <1>2, <1>3, <1>9 DEF Touched
  <2>4. \A k \in Pos : k >= i /\ Touched(row, k) => k \in d.prior
    BY <1>5, <1>9 DEF TimeOK
  <2>5. i \in d.prior /\ \A k \in Pos : k > i /\ Touched(row, k) => k \in d.prior
    BY <1>3, <2>3, <2>4
  <2>6. Later(seen, seen') /\ Told(row, seen', i) /\ (seen'[i] > 0 \/ row[i].st = "canceled")
    BY <1>2, <1>5, <1>9, <2>3, <2>5, BackfillTold
  <2>7. Aware(e, row, seen')
    BY <1>5, <2>2, <2>6, AwareAdds
  <2> QED
    BY <1>6, <1>9, <2>1, <2>2, <2>3, <2>5, <2>6, <2>7
<1>10. CASE /\ i <= Len /\ row[i].st = "none" /\ row' = [row EXCEPT ![i].st = "skipped"]
            /\ Goto(p, "skipped") /\ seen' = seen /\ d.pc = "skip"
  <2> DEFINE e == At(d, "skipped")
  <2>1. i \in Pos /\ Outside(i)
    BY <1>2, <1>3, <1>10
  <2>2. row'[i].st = "skipped" /\ \A m \in Pos : m # i => row'[m] = row[m]
    BY <1>2, <1>10, <2>1 DEF StepRow
  <2>3. drv' = [drv EXCEPT ![p] = e] /\ e.pc = "skipped" /\ e.pos = i /\ e.prior = d.prior /\ e.shown = d.shown
    BY <1>2, <1>10 DEF Goto, Move, At, Driver
  <2> HIDE DEF e
  <2>4. LoopOf(i) = 0
    BY <2>1 DEF Outside, LoopOf
  <2>5. Tells(row', seen', late)
    BY <1>2, <1>5, <1>10, <2>1, <2>2, <2>4, TellsWrite DEF Later
  <2>6. Aware(e, row', seen')
    <3>1. Aware(e, row, seen)
      BY <1>5, <2>3 DEF Aware
    <3> QED
      BY <1>10, <2>2, <3>1 DEF Aware
  <2>7. ~late => ToldTo(row', seen', i)
    <3>1. \A m \in Pos : m < i => m # i
      BY <1>3
    <3> QED
      BY <1>5, <1>10, <2>2, <3>1 DEF ToldTo, Told
  <2>8. \A k \in Pos : k > i /\ Touched(row', k) => k \in d.prior
    <3>1. \A k \in Pos : k > i => k >= i /\ k # i
      BY <1>3
    <3>2. \A k \in Pos : k >= i /\ Touched(row, k) => k \in d.prior
      BY <1>5, <1>10 DEF TimeOK
    <3> QED
      BY <2>2, <3>1, <3>2 DEF Touched
  <2>9. TimeOK(e, row', seen', late)
    BY <2>1, <2>2, <2>3, <2>6, <2>7, <2>8 DEF TimeOK, Outside, OnStep, Working, Calling, OnChild
  <2> QED
    BY <1>1, <1>4, <1>5, <2>3, <2>5, <2>9, TimeWrite
<1> QED
  BY <1>7, <1>8, <1>9, <1>10 DEF SkipStep, Is

-----------------------------------------------------------------------------
(* The timeline holds.                                                     *)

\* Nothing is claimed at first.
LEMMA InitTInv == Init => TInv
<1> SUFFICES ASSUME Init PROVE TInv
  OBVIOUS
<1>1. \A i \in Pos : row[i].st = "none"
  BY DEF Init, NoRow
<1>2. run.st = "none" /\ \A p \in Proc : drv[p].pc = "none"
  BY DEF Init, NoDriver
<1>3. \A i \in Pos : Told(row, seen, i)
  BY <1>1 DEF Told
<1>4. Tells(row, seen, run.late)
  BY <1>1, <1>3 DEF Tells
<1>5. \A p \in Proc : TimeOK(drv[p], row, seen, run.late)
  BY <1>2 DEF TimeOK, Along, OnStep, Working, Calling, OnChild
<1> QED
  BY <1>2, <1>4, <1>5 DEF TInv

\* A step of a driver loses no event.
LEMMA StepsTime ==
    ASSUME IInv, LInv, TInv, NEW p \in Proc, Steps(p)
    PROVE  TInv'
<1>1. CASE Boot(p) \/ Begin(p) \/ Boundary(p) \/ Claim(p) \/ Adopt(p) \/ Reclaim(p)
  BY <1>1, EndsTime, BeginTime, BoundaryTime, ClaimTime, AdoptTime, ReclaimTime
<1>2. CASE Filter(p) \/ Branch(p) \/ StateWrite(p) \/ LoopEnter(p) \/ Finish(p) \/ Emit(p) \/ CloseCanceled(p)
  BY <1>2, AnswerTime, TryTime, LoopEnterTime, FinishTime, EmitTime, CloseCanceledTime
<1>3. CASE SkipStep(p) \/ SkipEmit(p) \/ Attempt(p) \/ Return(p) \/ Retry(p)
  BY <1>3, SkipTime, TryTime, AnswerTime, WaitTime
<1>4. CASE EmitFailure(p) \/ RecordFailure(p) \/ Abandon(p) \/ Watch(p) \/ Park(p) \/ Unpark(p)
  BY <1>4, EmitFailureTime, RecordFailureTime, TryTime, AnswerTime, WaitTime
<1>5. CASE Settles(p)
  BY <1>5, EndsTime, LeaveTime DEF Settles
<1> QED
  BY <1>1, <1>2, <1>3, <1>4, <1>5 DEF Steps

\* Nor does any step of the system.
LEMMA NextTInv ==
    ASSUME IInv, LInv, TInv, [Next]_vars
    PROVE  TInv'
<1>1. ASSUME NEW p \in Proc, Start(p) \/ Resume(p) \/ ResumeFails(p) \/ Steps(p)
      PROVE  TInv'
  BY <1>1, LeaveTime, BesideTime, StepsTime
<1>2. ASSUME NEW p \in Proc, \/ RecoverDelivery(p) \/ DriverError(p) \/ Stop(p) \/ Shutdown(p)
                             \/ Crash(p) \/ Closed(p) \/ Restart(p)
      PROVE  TInv'
  BY <1>2, BesideTime, LeaveTime
<1>3. ASSUME NEW j \in jobs, Link(j) \/ Send(j) \/ Fence(j)
      PROVE  TInv'
  BY <1>3, DispatchTime
<1>4. CASE \/ \E h \in sweep : StopChildren(h)
           \/ \E i \in Pos : ChildMoves(i)
           \/ Deadline \/ OtherRunWrites \/ UNCHANGED vars
  BY <1>4, BesideTime
<1> QED
  BY <1>1, <1>2, <1>3, <1>4 DEF Next, Dispatches

\* A run that succeeded in time has closed and told everything.
LEMMA TimeComplete ==
    ASSUME IInv, TInv
    PROVE  TimelineComplete
<1>1. DOMAIN plan \subseteq Pos
  BY Order DEF IInv
<1> QED
  BY <1>1 DEF TInv, Complete, Opened, Told, TimelineComplete

\* Whichever crash came between a row and its event, a run that succeeded in
\* time has a settled ledger and shows the end of every step that ended
\* (backfillTerminalStepEvent, skipRemaining, settle).
THEOREM TimelineHolds == Spec => []TimelineComplete
<1>1. Init => TInv
  BY InitTInv
<1>2. IInv /\ LInv /\ TInv /\ [Next]_vars => TInv'
  BY NextTInv
<1>3. IInv /\ TInv => TimelineComplete
  BY TimeComplete
<1> QED
  BY <1>1, <1>2, <1>3, InvariantHolds, ReplayHolds, PTL DEF Spec

=============================================================================
