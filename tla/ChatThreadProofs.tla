-------------------------- MODULE ChatThreadProofs --------------------------
(***************************************************************************)
(* The proofs of ChatThread: what a tab shows of a run, and what it sends. *)
(*                                                                         *)
(* The two halves share the run numbers and nothing else, and each has its *)
(* invariant.  Of the messages (SInv): what is on its way and what waits   *)
(* is placed, and a message that waits has nothing sent ahead of it that   *)
(* was typed later.  Of the streams (RInv): the frames on their way to a   *)
(* tab continue its cursor without a gap (Carries), no frame that says     *)
(* "settled" overtakes an event persisted before the end (EndsLate), and a *)
(* response that still replays has buffered whatever was published since   *)
(* it subscribed (Response).                                               *)
(*                                                                         *)
(* A response sends a sequence of frames one by one (EmitAll), and a queue *)
(* is filtered place by place (Without): what the two recursive functions  *)
(* compute is proved from the least element of a set of naturals.          *)
(***************************************************************************)
EXTENDS ChatThread, TLAPS, FiniteSetTheorems, WellFoundedInduction

-----------------------------------------------------------------------------
(* The invariant.                                                          *)

\* A settled row is settled for good, for what a restart left behind is live.
\* A run being dispatched is adopted by nobody.
Adopting ==
    /\ \A r \in orphan : status[r] \in {"queued", "running"}
    /\ IsPending /\ post.stage = "dispatching" => post.run \notin orphan

\* The runs are numbered as they were created: one for each send that reached
\* the server, with messages no other send carried, and one for each message of
\* another tab.
Sent == {m \in Msg : SentWith(m) # {}}
Numbered ==
    /\ Used = 1 .. Cardinality(Used)
    /\ Cardinality(Used) <= Cardinality(Sent) + IF "other" \in bound.kinds THEN acts ELSE 0
    /\ \A r \in Run : ToSet(body[r]) \subseteq 1 .. typed /\ (ToSet(body[r]) # {} => r \in Used)

\* What a send carries, at each stage of its way.
Fresh == IF IsPending /\ post.stage \in {"sent", "busy"} THEN ToSet(post.msgs) ELSE {}
PostOK ==
    IsPending =>
        /\ InFlight # {} /\ InFlight \subseteq 1 .. typed
        /\ InFlight \cap box = {}
        /\ post.via = "direct" => InFlight \cap ToSet(queue) = {}
        /\ post.via = "queue" => InFlight \subseteq ToSet(queue) \cup gone
        /\ post.stage \in {"dispatching", "ok"} => post.run \in Used /\ ToSet(body[post.run]) = InFlight
        /\ \A a \in InFlight, b \in ToSet(queue) \ InFlight : a < b

\* A message that waits has nothing sent ahead of it that was typed later.
Waiting ==
    /\ ToSet(queue) \cup box \cup gone \cup bounced \subseteq 1 .. typed
    /\ \A m \in Fresh : SentWith(m) = {}
    /\ \A m1 \in (ToSet(queue) \cup Fresh) \ bounced, m2 \in 1 .. typed :
           m1 < m2 /\ SentWith(m1) = {} => SentWith(m2) = {}

SInv == Adopting /\ Numbered /\ PostOK /\ Waiting /\ NoMessageLost /\ SentInOrder

-----------------------------------------------------------------------------
(* Frames on their way.                                                    *)

\* The sequence q of frames carries the events after a, up to b, each once and
\* in order.
Carries(q, a, b) ==
    /\ a <= b
    /\ \A i \in DOMAIN q : IsEvent(q[i]) => q[i].seq \in a + 1 .. b
    /\ \A i, j \in DOMAIN q : i < j /\ IsEvent(q[i]) /\ IsEvent(q[j]) => q[i].seq < q[j].seq
    /\ \A k \in a + 1 .. b : \E i \in DOMAIN q : IsEvent(q[i]) /\ q[i].seq = k

\* No frame in q that says "settled" comes before event e, when the events up
\* to a went ahead of q.
EndsLate(q, a, e) ==
    \A j \in DOMAIN q : q[j].st = "settled" =>
        e <= a \/ \E i \in DOMAIN q : i < j /\ IsEvent(q[i]) /\ q[i].seq >= e

\* A frame's status is that of an event, or of a row; a row said to be settled
\* is settled.
Says(f, st) == (IsEvent(f) <=> f.st = "event") /\ (f.st = "settled" => st = "settled")
AllSay(q, st) == \A i \in DOMAIN q : Says(q[i], st)

\* How far the events of r are published: all but one that is due, or those
\* that a context control drained.
Published(r) ==
    IF \E f \in due : f.run = r /\ IsEvent(f) THEN Len(log[r]) - 1 ELSE Len(log[r]) - silent[r]

\* The event that is due is the last one, and none before it was withheld.
DueOK ==
    \A f \in due :
        /\ Says(f, status[f.run])
        /\ IsEvent(f) => f.seq = Len(log[f.run]) /\ silent[f.run] = 0

\* Only a run that is over for good gets events that are published to nobody.
Quiet == \A r \in Run : silent[r] # 0 => status[r] = "settled" /\ winding # r

\* A response c to a tab with cursor cur, of a run with status st and len
\* events, pub of them published and e of them before its end.  One that replays
\* has sent nothing yet and misses nothing that is published meanwhile; one that
\* follows has sent all that is published.
Replaying == {"replay", "read"}
Sending == {"look", "looked", "follow"}
Response(c, cur, pub, len, e, st) ==
    /\ AllSay(c.buf, st) /\ AllSay(c.out, st) /\ (c.seen = "settled" => st = "settled")
    /\ c.upto <= len /\ EndsLate(c.out, cur, e)
    /\ c.phase = "off" => \E k \in 0 .. len : Carries(c.out, cur, k)
    /\ c.phase \in Replaying =>
         /\ c.out = <<>> /\ c.sent = cur
         /\ \E b \in 0 .. (IF c.phase = "read" THEN c.upto ELSE pub) :
              Carries(c.buf, b, pub) /\ EndsLate(c.buf, b, e)
    /\ c.phase \in Sending => Carries(c.out, cur, c.sent) /\ c.sent \in pub .. len

ConnOK(r) ==
    /\ Response(conn[r], cursor[r], Published(r), Len(log[r]), ended[r], status[r])
    /\ follow[r] # "open" => conn[r] = Closed

\* The tab holds what its cursor says, and a stream that ended with its run
\* has brought everything.
TabOK(r) ==
    /\ store[r] = 1 .. cursor[r] /\ cursor[r] <= Len(log[r])
    /\ live[r] = "settled" => status[r] = "settled"
    /\ follow[r] = "closed" /\ live[r] = "settled" => ended[r] <= cursor[r]

RInv ==
    /\ DueOK
    /\ \A r \in Run : ConnOK(r) /\ TabOK(r) /\ ended[r] <= Published(r)

IInv == TypeOK /\ SInv /\ RInv /\ Quiet
-----------------------------------------------------------------------------
(* Recursion over an initial segment of the naturals.                      *)

\* Every nonempty set of naturals has a least element.
LEMMA Least ==
    ASSUME NEW S, S \subseteq Nat, S # {}
    PROVE  \E n \in S : \A m \in S : n <= m
<1>1. IsWellFoundedOn(OpToRel(<, Nat), Nat)
  BY NatLessThanWellFounded
<1>2. PICK n \in S : \A m \in S : ~(<<m, n>> \in OpToRel(<, Nat))
  BY <1>1, WFMin
<1>3. \A m \in S : ~(m < n)
  BY <1>2, Zenon DEF OpToRel
<1> QED
  BY <1>3

\* What holds of 0 and is handed on holds up to n.
LEMMA UpTo ==
    ASSUME NEW n \in Nat, NEW S, 0 \in S, \A i \in 0 .. n - 1 : i \in S => i + 1 \in S
    PROVE  0 .. n \subseteq S
<1> SUFFICES ASSUME (0 .. n) \ S # {} PROVE FALSE
  OBVIOUS
<1> DEFINE D == (0 .. n) \ S
<1>1. D \subseteq Nat /\ D # {}
  OBVIOUS
<1>2. PICK k \in D : \A m \in D : k <= m
  <2> HIDE DEF D
  <2> QED
    BY <1>1, Least
<1>3. k \in 0 .. n /\ k \notin S
  BY <1>2
<1>4. k # 0 /\ k - 1 \in 0 .. n - 1 /\ k - 1 \in 0 .. n /\ ~(k <= k - 1)
  BY <1>3
<1>5. k - 1 \in S
  BY <1>2, <1>4
<1>6. k - 1 + 1 \in S
  BY <1>4, <1>5
<1> QED
  BY <1>3, <1>6

\* f starts from b and goes on as g says.
Iterates(f, n, T, b, g) ==
    f \in [0 .. n -> T] /\ f[0] = b /\ \A i \in 1 .. n : f[i] = g[<<i, f[i - 1]>>]

\* A recursive function over 0 .. n exists.
LEMMA Recursion ==
    ASSUME NEW n \in Nat, NEW T, NEW b \in T, NEW g \in [(1 .. n) \X T -> T]
    PROVE  \E f : Iterates(f, n, T, b, g)
<1> DEFINE Up(k, f) == Iterates(f, k, T, b, g)
           S == {k \in 0 .. n : \E f : Up(k, f)}
<1>1. 0 \in S
  <2>1. Up(0, [i \in 0 .. 0 |-> b])
    BY DEF Iterates
  <2> HIDE DEF Up
  <2> QED
    BY <2>1
<1>2. ASSUME NEW i \in 0 .. n - 1, i \in S PROVE i + 1 \in S
  <2>1. PICK f : Up(i, f)
    BY <1>2
  <2> USE DEF Iterates
  <2> DEFINE h == [j \in 0 .. i + 1 |-> IF j = i + 1 THEN g[<<i + 1, f[i]>>] ELSE f[j]]
  <2>2. f[i] \in T /\ i + 1 \in 1 .. n
    BY <2>1
  <2>3. h \in [0 .. i + 1 -> T]
    BY <2>1, <2>2
  <2>4. h[0] = b
    BY <2>1
  <2>5. ASSUME NEW j \in 1 .. i + 1 PROVE h[j] = g[<<j, h[j - 1]>>]
    <3>1. h[j - 1] = f[j - 1] /\ j \in 0 .. i + 1
      OBVIOUS
    <3>2. CASE j = i + 1
      BY <3>1, <3>2
    <3>3. CASE j # i + 1
      <4>1. j \in 1 .. i /\ h[j] = f[j]
        BY <3>1, <3>3
      <4> QED
        BY <2>1, <3>1, <4>1
    <3> QED
      BY <3>2, <3>3
  <2> HIDE DEF h
  <2>6. Up(i + 1, h)
    BY <2>3, <2>4, <2>5
  <2> HIDE DEF Up
  <2> QED
    BY <2>2, <2>6
<1>3. n \in S
  <2> HIDE DEF S
  <2> QED
    BY <1>1, <1>2, UpTo
<1> QED
  BY <1>3

-----------------------------------------------------------------------------
(* Sequences of messages.                                                  *)

\* Filtering a queue drops the messages of S and keeps the others.
LEMMA WithoutMembers ==
    ASSUME NEW s \in Seq(Msg), NEW S
    PROVE  Without(s, S) \in Seq(Msg) /\ ToSet(Without(s, S)) = ToSet(s) \ S
<1> DEFINE n == Len(s)
           Eq(k) == k = [i \in 0 .. n |-> IF i = 0 THEN <<>>
                                          ELSE IF s[i] \in S THEN k[i - 1]
                                          ELSE Append(k[i - 1], s[i])]
           kept == CHOOSE k : Eq(k)
           g == [x \in (1 .. n) \X Seq(Msg) |-> IF s[x[1]] \in S THEN x[2] ELSE Append(x[2], s[x[1]])]
<1>1. n \in Nat /\ \A i \in 1 .. n : s[i] \in Msg
  OBVIOUS
<1>2. g \in [(1 .. n) \X Seq(Msg) -> Seq(Msg)]
  BY <1>1
<1>3. PICK f : /\ f \in [0 .. n -> Seq(Msg)] /\ f[0] = <<>>
               /\ \A i \in 1 .. n : f[i] = g[<<i, f[i - 1]>>]
  <2> DEFINE T == Seq(Msg)
  <2>1. <<>> \in T
    OBVIOUS
  <2>2. g \in [(1 .. n) \X T -> T]
    BY <1>2
  <2> HIDE DEF g, n, T
  <2>3. n \in Nat
    BY <1>1
  <2>4. \E f : Iterates(f, n, T, <<>>, g)
    BY <2>1, <2>2, <2>3, Recursion, Zenon
  <2> QED
    BY <2>4 DEF T, Iterates
<1>4. \A i \in 1 .. n : f[i] = IF s[i] \in S THEN f[i - 1] ELSE Append(f[i - 1], s[i])
  <2> TAKE i \in 1 .. n
  <2>1. f[i - 1] \in Seq(Msg)
    BY <1>1, <1>3
  <2>2. g[<<i, f[i - 1]>>] = IF s[i] \in S THEN f[i - 1] ELSE Append(f[i - 1], s[i])
    BY <2>1
  <2> QED
    BY <1>3, <2>2
<1>5. Eq(f)
  <2> DEFINE h == [i \in 0 .. n |-> IF i = 0 THEN <<>> ELSE IF s[i] \in S THEN f[i - 1] ELSE Append(f[i - 1], s[i])]
  <2> HIDE DEF n
  <2>1. ASSUME NEW i \in 0 .. n PROVE f[i] = h[i]
    <3>1. CASE i = 0
      BY <1>3, <3>1
    <3>2. CASE i # 0
      <4>1. i \in 1 .. n
        BY <1>1, <3>2
      <4> QED
        BY <1>4, <3>2, <4>1
    <3> QED
      BY <3>1, <3>2
  <2>2. f = h
    BY <1>3, <2>1
  <2> QED
    BY <2>2
<1>6. Eq(kept)
  <2> HIDE DEF Eq
  <2> QED
    BY <1>5
<1>7. Without(s, S) = kept[n]
  BY DEF Without
<1> HIDE DEF kept
<1> DEFINE P == {i \in 0 .. n : kept[i] \in Seq(Msg) /\ ToSet(kept[i]) = {s[j] : j \in 1 .. i} \ S}
<1>8. 0 \in P
  BY <1>1, <1>6 DEF ToSet
<1>9. ASSUME NEW i \in 0 .. n - 1, i \in P PROVE i + 1 \in P
  <2>1. kept[i + 1] = IF s[i + 1] \in S THEN kept[i] ELSE Append(kept[i], s[i + 1])
    <3> HIDE DEF n
    <3>1. i + 1 \in 0 .. n /\ i + 1 # 0 /\ (i + 1) - 1 = i
      BY <1>1
    <3> QED
      BY <1>6, <3>1
  <2>2. kept[i] \in Seq(Msg) /\ ToSet(kept[i]) = {s[j] : j \in 1 .. i} \ S /\ s[i + 1] \in Msg
    BY <1>1, <1>9
  <2>3. {s[j] : j \in 1 .. i + 1} = {s[j] : j \in 1 .. i} \cup {s[i + 1]}
    BY <1>1
  <2>4. ToSet(Append(kept[i], s[i + 1])) = ToSet(kept[i]) \cup {s[i + 1]}
    <3> DEFINE q == kept[i]  m == s[i + 1]
    <3>1. q \in Seq(Msg) /\ m \in Msg
      BY <2>2
    <3> HIDE DEF q, m
    <3>2. DOMAIN Append(q, m) = 1 .. Len(q) + 1 /\ DOMAIN q = 1 .. Len(q) /\ Append(q, m)[Len(q) + 1] = m
          /\ \A k \in 1 .. Len(q) : Append(q, m)[k] = q[k]
      BY <3>1
    <3>3. ToSet(Append(q, m)) = ToSet(q) \cup {m}
      BY <3>1, <3>2 DEF ToSet
    <3> QED
      BY <3>3 DEF q, m
  <2>5. kept[i + 1] \in Seq(Msg) /\ ToSet(kept[i + 1]) = {s[j] : j \in 1 .. i + 1} \ S
    BY <2>1, <2>2, <2>3, <2>4
  <2> QED
    BY <1>1, <2>5
<1>10. n \in P
  <2>1. n \in 0 .. n
    BY <1>1
  <2> HIDE DEF P, n
  <2> QED
    BY <1>1, <1>8, <1>9, <2>1, UpTo
<1> QED
  BY <1>1, <1>7, <1>10 DEF ToSet

\* The members of sequences put together.
LEMMA SeqMembers ==
    ASSUME NEW s \in Seq(Msg), NEW t \in Seq(Msg), NEW m \in Msg
    PROVE  /\ ToSet(<<>>) = {} /\ ToSet(<<m>>) = {m} /\ <<m>> \in Seq(Msg)
           /\ Append(s, m) \in Seq(Msg) /\ ToSet(Append(s, m)) = ToSet(s) \cup {m}
           /\ s \o t \in Seq(Msg) /\ ToSet(s \o t) = ToSet(s) \cup ToSet(t)
           /\ ToSet(s) \subseteq Msg /\ (s # <<>> <=> ToSet(s) # {})
<1>1. ToSet(s \o t) = ToSet(s) \cup ToSet(t)
  <2>1. \A i \in 1 .. Len(s) : i \in 1 .. Len(s \o t) /\ (s \o t)[i] = s[i]
    OBVIOUS
  <2>2. \A i \in 1 .. Len(t) : Len(s) + i \in 1 .. Len(s \o t) /\ (s \o t)[Len(s) + i] = t[i]
    OBVIOUS
  <2>3. ASSUME NEW k \in 1 .. Len(s \o t)
        PROVE  (s \o t)[k] \in ToSet(s) \cup ToSet(t)
    <3>1. CASE k \in 1 .. Len(s)
      BY <2>1, <3>1 DEF ToSet
    <3>2. CASE k \notin 1 .. Len(s)
      <4>1. k - Len(s) \in 1 .. Len(t) /\ k = Len(s) + (k - Len(s))
        BY <3>2
      <4> QED
        BY <2>2, <4>1 DEF ToSet
    <3> QED
      BY <3>1, <3>2
  <2>4. DOMAIN (s \o t) = 1 .. Len(s \o t) /\ DOMAIN s = 1 .. Len(s) /\ DOMAIN t = 1 .. Len(t)
    OBVIOUS
  <2>5. ToSet(s \o t) \subseteq ToSet(s) \cup ToSet(t)
    BY <2>3, <2>4 DEF ToSet
  <2>6. ToSet(s) \subseteq ToSet(s \o t) /\ ToSet(t) \subseteq ToSet(s \o t)
    BY <2>1, <2>2, <2>4 DEF ToSet
  <2> QED
    BY <2>5, <2>6
<1>2. s # <<>> <=> ToSet(s) # {}
  BY DEF ToSet
<1>3. Append(s, m) \in Seq(Msg) /\ ToSet(Append(s, m)) = ToSet(s) \cup {m}
  <2>1. DOMAIN Append(s, m) = 1 .. Len(s) + 1 /\ DOMAIN s = 1 .. Len(s) /\ Append(s, m)[Len(s) + 1] = m
        /\ \A k \in 1 .. Len(s) : Append(s, m)[k] = s[k]
    OBVIOUS
  <2> QED
    BY <2>1 DEF ToSet
<1>4. ToSet(<<>>) = {} /\ ToSet(<<m>>) = {m} /\ <<m>> \in Seq(Msg) /\ s \o t \in Seq(Msg) /\ ToSet(s) \subseteq Msg
  BY DEF ToSet
<1> QED
  BY <1>1, <1>2, <1>3, <1>4

-----------------------------------------------------------------------------
(* Sequences of frames.                                                    *)

\* Nothing carries nothing.
LEMMA CarriesNone ==
    ASSUME NEW a \in Nat, NEW e, NEW st
    PROVE  Carries(<<>>, a, a) /\ EndsLate(<<>>, a, e) /\ AllSay(<<>>, st)
  BY DEF Carries, EndsLate, AllSay

\* What lies at the places of a longer sequence.
LEMMA FrameAppend ==
    ASSUME NEW q \in Seq(Frames), NEW f \in Frames
    PROVE  /\ Append(q, f) \in Seq(Frames)
           /\ Len(q) \in Nat /\ DOMAIN q = 1 .. Len(q) /\ DOMAIN Append(q, f) = 1 .. Len(q) + 1
           /\ Append(q, f)[Len(q) + 1] = f /\ \A i \in 1 .. Len(q) : Append(q, f)[i] = q[i]
           /\ \A i \in DOMAIN q : q[i] \in Frames /\ q[i].seq \in Nat
           /\ f.seq \in Nat
<1>1. \A x \in Frames : x.seq \in Nat
  BY DEF Frames
<1> QED
  BY <1>1

\* The next event is added.
LEMMA CarriesEvent ==
    ASSUME NEW q \in Seq(Frames), NEW f \in Frames, NEW a \in Nat, NEW b \in Nat,
           Carries(q, a, b), IsEvent(f), f.seq = b + 1
    PROVE  Carries(Append(q, f), a, b + 1)
<1> DEFINE g == Append(q, f)  n == Len(q)
<1>1. /\ n \in Nat /\ DOMAIN q = 1 .. n /\ DOMAIN g = 1 .. n + 1 /\ g[n + 1] = f
      /\ \A i \in 1 .. n : g[i] = q[i] /\ q[i].seq \in Nat
  BY FrameAppend
<1> HIDE DEF g, n
<1>2. a <= b + 1
  BY DEF Carries
<1>3. \A i \in DOMAIN g : IsEvent(g[i]) => g[i].seq \in a + 1 .. b + 1
  <2> SUFFICES ASSUME NEW i \in DOMAIN g, IsEvent(g[i]) PROVE g[i].seq \in a + 1 .. b + 1
    OBVIOUS
  <2>1. CASE i = n + 1
    BY <1>1, <2>1 DEF Carries
  <2>2. CASE i \in 1 .. n
    BY <1>1, <2>2 DEF Carries
  <2> QED
    BY <1>1, <2>1, <2>2
<1>4. \A i, j \in DOMAIN g : i < j /\ IsEvent(g[i]) /\ IsEvent(g[j]) => g[i].seq < g[j].seq
  <2> SUFFICES ASSUME NEW i \in DOMAIN g, NEW j \in DOMAIN g, i < j, IsEvent(g[i]), IsEvent(g[j])
               PROVE  g[i].seq < g[j].seq
    OBVIOUS
  <2>1. i \in 1 .. n
    BY <1>1
  <2>2. g[i].seq \in a + 1 .. b
    BY <1>1, <2>1 DEF Carries
  <2>3. CASE j = n + 1
    BY <1>1, <2>2, <2>3
  <2>4. CASE j \in 1 .. n
    BY <1>1, <2>1, <2>4 DEF Carries
  <2> QED
    BY <1>1, <2>3, <2>4
<1>5. \A k \in a + 1 .. b + 1 : \E i \in DOMAIN g : IsEvent(g[i]) /\ g[i].seq = k
  <2> SUFFICES ASSUME NEW k \in a + 1 .. b + 1 PROVE \E i \in DOMAIN g : IsEvent(g[i]) /\ g[i].seq = k
    OBVIOUS
  <2>1. CASE k = b + 1
    BY <1>1, <2>1
  <2>2. CASE k \in a + 1 .. b
    <3>1. PICK i \in DOMAIN q : IsEvent(q[i]) /\ q[i].seq = k
      BY <2>2 DEF Carries
    <3>2. i \in DOMAIN g /\ g[i] = q[i]
      BY <1>1, <3>1
    <3> QED
      BY <3>1, <3>2
  <2> QED
    BY <2>1, <2>2
<1> QED
  BY <1>2, <1>3, <1>4, <1>5 DEF Carries, g

\* A status frame carries no event.
LEMMA CarriesStatus ==
    ASSUME NEW q \in Seq(Frames), NEW f \in Frames, NEW a \in Nat, NEW b \in Nat,
           Carries(q, a, b), ~IsEvent(f)
    PROVE  Carries(Append(q, f), a, b)
<1> DEFINE g == Append(q, f)  n == Len(q)
<1>1. /\ n \in Nat /\ DOMAIN q = 1 .. n /\ DOMAIN g = 1 .. n + 1 /\ g[n + 1] = f
      /\ \A i \in 1 .. n : g[i] = q[i]
  BY FrameAppend
<1> HIDE DEF g, n
<1>2. \A i \in DOMAIN g : IsEvent(g[i]) => i \in DOMAIN q /\ g[i] = q[i]
  BY <1>1
<1>3. \A i \in DOMAIN q : i \in DOMAIN g /\ g[i] = q[i]
  BY <1>1
<1>4. Carries(g, a, b)
  BY <1>2, <1>3 DEF Carries
<1> QED
  BY <1>4 DEF g

\* A frame at the end says that the run is settled once its events went out.
LEMMA EndsLateAppend ==
    ASSUME NEW q \in Seq(Frames), NEW f \in Frames, NEW a \in Nat, NEW b \in Nat, NEW e \in Nat,
           EndsLate(q, a, e), Carries(q, a, b), f.st = "settled" => e <= b
    PROVE  EndsLate(Append(q, f), a, e)
<1> DEFINE g == Append(q, f)  n == Len(q)
<1>1. /\ n \in Nat /\ DOMAIN q = 1 .. n /\ DOMAIN g = 1 .. n + 1 /\ g[n + 1] = f
      /\ \A i \in 1 .. n : g[i] = q[i] /\ q[i].seq \in Nat
  BY FrameAppend
<1> HIDE DEF g, n
<1>2. ASSUME NEW j \in DOMAIN g, g[j].st = "settled"
      PROVE  e <= a \/ \E i \in DOMAIN g : i < j /\ IsEvent(g[i]) /\ g[i].seq >= e
  <2>1. CASE j \in 1 .. n
    <3>1. e <= a \/ \E i \in DOMAIN q : i < j /\ IsEvent(q[i]) /\ q[i].seq >= e
      BY <1>1, <1>2, <2>1 DEF EndsLate
    <3> QED
      BY <1>1, <2>1, <3>1
  <2>2. CASE j = n + 1 /\ e > a
    <3>1. e \in a + 1 .. b
      BY <1>1, <1>2, <2>2
    <3>2. PICK i \in DOMAIN q : IsEvent(q[i]) /\ q[i].seq = e
      BY <3>1 DEF Carries
    <3>3. i \in DOMAIN g /\ g[i] = q[i] /\ i < j
      BY <1>1, <2>2, <3>2
    <3> QED
      BY <3>2, <3>3
  <2>3. CASE j = n + 1 /\ ~(e > a)
    BY <2>3
  <2> QED
    BY <1>1, <2>1, <2>2, <2>3
<1> QED
  BY <1>2 DEF EndsLate, g

\* What all frames say, with one more or one less.
LEMMA AllSayMore ==
    ASSUME NEW q \in Seq(Frames), NEW f \in Frames, NEW st, AllSay(q, st), Says(f, st)
    PROVE  AllSay(Append(q, f), st)
<1>1. \A i \in DOMAIN Append(q, f) : (i \in DOMAIN q /\ Append(q, f)[i] = q[i]) \/ Append(q, f)[i] = f
  BY FrameAppend
<1> QED
  BY <1>1 DEF AllSay

\* What a sequence of frames is behind its first one.
LEMMA FrameTail ==
    ASSUME NEW q \in Seq(Frames), q # <<>>
    PROVE  /\ Tail(q) \in Seq(Frames) /\ Head(q) = q[1] /\ Head(q) \in Frames /\ 1 \in DOMAIN q
           /\ DOMAIN q = 1 .. Len(q) /\ DOMAIN Tail(q) = 1 .. Len(q) - 1 /\ Len(q) \in Nat \ {0}
           /\ \A i \in 1 .. Len(q) - 1 : Tail(q)[i] = q[i + 1]
           /\ \A i \in DOMAIN q : q[i] \in Frames /\ q[i].seq \in Nat
           /\ Head(q).seq \in Nat
<1>1. \A x \in Frames : x.seq \in Nat
  BY DEF Frames
<1>2. Len(q) \in Nat \ {0} /\ DOMAIN q = 1 .. Len(q) /\ Head(q) = q[1] /\ \A i \in DOMAIN q : q[i] \in Frames
  OBVIOUS
<1>3. Tail(q) \in Seq(Frames) /\ DOMAIN Tail(q) = 1 .. Len(q) - 1 /\ \A i \in 1 .. Len(q) - 1 : Tail(q)[i] = q[i + 1]
  BY <1>2
<1> QED
  BY <1>1, <1>2, <1>3

\* The first frame is taken: the next event, or a frame that carries none.
LEMMA CarriesTail ==
    ASSUME NEW q \in Seq(Frames), q # <<>>, NEW a \in Nat, NEW b \in Nat, Carries(q, a, b)
    PROVE  /\ IsEvent(Head(q)) => Head(q).seq = a + 1 /\ a + 1 <= b /\ Carries(Tail(q), a + 1, b)
           /\ ~IsEvent(Head(q)) => Carries(Tail(q), a, b)
<1> DEFINE g == Tail(q)  n == Len(q)  f == Head(q)
<1>1. /\ n \in Nat \ {0} /\ DOMAIN q = 1 .. n /\ DOMAIN g = 1 .. n - 1 /\ f = q[1] /\ 1 \in DOMAIN q
      /\ (\A i \in 1 .. n - 1 : g[i] = q[i + 1]) /\ (\A i \in 1 .. n : q[i].seq \in Nat)
  BY FrameTail
<1> HIDE DEF g, n, f
<1>2. \A i \in DOMAIN g : i + 1 \in DOMAIN q /\ g[i] = q[i + 1] /\ g[i].seq \in Nat /\ i \in Nat
  BY <1>1
<1>3. \A i \in DOMAIN q : i = 1 \/ (i - 1 \in DOMAIN g /\ g[i - 1] = q[i])
  BY <1>1
<1>4. \A i, j \in DOMAIN g : i < j /\ IsEvent(g[i]) /\ IsEvent(g[j]) => g[i].seq < g[j].seq
  <2> TAKE i, j \in DOMAIN g
  <2>1. i < j => i + 1 < j + 1
    BY <1>2
  <2> QED
    BY <1>2, <2>1 DEF Carries
<1>5. ASSUME IsEvent(f) PROVE f.seq = a + 1 /\ a + 1 <= b /\ Carries(g, a + 1, b)
  <2>1. f.seq \in a + 1 .. b
    BY <1>1, <1>5 DEF Carries
  <2>2. PICK i \in DOMAIN q : IsEvent(q[i]) /\ q[i].seq = a + 1
    BY <2>1 DEF Carries
  <2>3. i = 1 \/ f.seq < a + 1
    <3>1. i = 1 \/ 1 < i
      BY <1>1
    <3>2. 1 < i => q[1].seq < q[i].seq
      BY <1>1, <1>5, <2>2 DEF Carries
    <3> QED
      BY <1>1, <2>2, <3>1, <3>2
  <2>4. f.seq = a + 1
    BY <1>1, <2>1, <2>2, <2>3
  <2>5. \A k \in DOMAIN g : IsEvent(g[k]) => g[k].seq \in a + 1 + 1 .. b
    <3> SUFFICES ASSUME NEW k \in DOMAIN g, IsEvent(g[k]) PROVE g[k].seq \in a + 1 + 1 .. b
      OBVIOUS
    <3>1. 1 < k + 1 /\ k + 1 \in DOMAIN q /\ g[k] = q[k + 1]
      BY <1>1, <1>2
    <3>2. f.seq < g[k].seq /\ g[k].seq \in a + 1 .. b
      BY <1>1, <1>5, <3>1 DEF Carries
    <3> QED
      BY <2>4, <3>2
  <2>6. \A k \in a + 1 + 1 .. b : \E m \in DOMAIN g : IsEvent(g[m]) /\ g[m].seq = k
    <3> TAKE k \in a + 1 + 1 .. b
    <3>1. PICK m \in DOMAIN q : IsEvent(q[m]) /\ q[m].seq = k
      BY DEF Carries
    <3>2. m # 1
      BY <1>1, <2>4, <3>1
    <3> QED
      BY <1>3, <3>1, <3>2
  <2> QED
    BY <1>4, <2>1, <2>4, <2>5, <2>6 DEF Carries
<1>6. ASSUME ~IsEvent(f) PROVE Carries(g, a, b)
  <2>1. \A k \in DOMAIN g : IsEvent(g[k]) => g[k].seq \in a + 1 .. b
    BY <1>2 DEF Carries
  <2>2. \A k \in a + 1 .. b : \E m \in DOMAIN g : IsEvent(g[m]) /\ g[m].seq = k
    <3> TAKE k \in a + 1 .. b
    <3>1. PICK m \in DOMAIN q : IsEvent(q[m]) /\ q[m].seq = k
      BY DEF Carries
    <3> QED
      BY <1>1, <1>3, <1>6, <3>1
  <2> QED
    BY <1>4, <2>1, <2>2 DEF Carries
<1> QED
  BY <1>5, <1>6 DEF g, f

\* A settled frame that comes first was preceded by all the run's events.
LEMMA EndsLateTail ==
    ASSUME NEW q \in Seq(Frames), q # <<>>, NEW a \in Nat, NEW b \in Nat, NEW e \in Nat, NEW st,
           Carries(q, a, b), EndsLate(q, a, e), AllSay(q, st)
    PROVE  /\ IsEvent(Head(q)) => EndsLate(Tail(q), a + 1, e)
           /\ ~IsEvent(Head(q)) => EndsLate(Tail(q), a, e)
           /\ Head(q).st = "settled" => e <= a /\ st = "settled"
           /\ (IsEvent(Head(q)) <=> Head(q).st = "event")
           /\ AllSay(Tail(q), st)
<1> DEFINE g == Tail(q)  n == Len(q)  f == Head(q)
<1>1. /\ n \in Nat \ {0} /\ DOMAIN q = 1 .. n /\ DOMAIN g = 1 .. n - 1 /\ f = q[1] /\ 1 \in DOMAIN q
      /\ (\A i \in 1 .. n - 1 : g[i] = q[i + 1]) /\ (\A i \in 1 .. n : q[i].seq \in Nat)
  BY FrameTail
<1>2. IsEvent(f) => f.seq = a + 1
  BY CarriesTail
<1> HIDE DEF g, n, f
<1>3. \A i \in DOMAIN g : i + 1 \in DOMAIN q /\ g[i] = q[i + 1] /\ i \in Nat /\ i >= 1
  BY <1>1
<1>4. \A i \in DOMAIN q : i = 1 \/ (i - 1 \in DOMAIN g /\ g[i - 1] = q[i] /\ i \in Nat)
  BY <1>1
<1>5. ASSUME NEW j \in DOMAIN g, g[j].st = "settled"
      PROVE  e <= a \/ (IsEvent(f) /\ e <= a + 1) \/ \E i \in DOMAIN g : i < j /\ IsEvent(g[i]) /\ g[i].seq >= e
  <2>1. e <= a \/ \E i \in DOMAIN q : i < j + 1 /\ IsEvent(q[i]) /\ q[i].seq >= e
    BY <1>3, <1>5 DEF EndsLate
  <2>2. ASSUME NEW i \in DOMAIN q, i < j + 1, IsEvent(q[i]), q[i].seq >= e
        PROVE  (IsEvent(f) /\ e <= a + 1) \/ \E k \in DOMAIN g : k < j /\ IsEvent(g[k]) /\ g[k].seq >= e
    <3>1. CASE i = 1
      BY <1>1, <1>2, <2>2, <3>1
    <3>2. CASE i # 1
      <4>1. i - 1 \in DOMAIN g /\ g[i - 1] = q[i] /\ i - 1 < j
        BY <1>3, <1>4, <1>5, <2>2, <3>2
      <4> QED
        BY <2>2, <4>1
    <3> QED
      BY <3>1, <3>2
  <2> QED
    BY <2>1, <2>2
<1>6. IsEvent(f) => EndsLate(g, a + 1, e)
  BY <1>5 DEF EndsLate
<1>7. ~IsEvent(f) => EndsLate(g, a, e)
  BY <1>5 DEF EndsLate
<1>8. f.st = "settled" => e <= a /\ st = "settled"
  <2>1. ASSUME f.st = "settled" PROVE ~ \E i \in DOMAIN q : i < 1
    BY <1>1
  <2> QED
    BY <1>1, <2>1 DEF EndsLate, AllSay, Says
<1>9. (IsEvent(f) <=> f.st = "event") /\ AllSay(g, st)
  BY <1>1, <1>3 DEF AllSay, Says
<1> QED
  BY <1>6, <1>7, <1>8, <1>9 DEF g, f

-----------------------------------------------------------------------------
(* What a response sends.                                                  *)

\* A response x in phase ph, or closed, to a tab with cursor a.
Sender(x, ph, a, len, e, st) ==
    /\ x \in Conns /\ x.phase \in {ph, "off"} /\ x.upto <= len
    /\ AllSay(x.buf, st) /\ AllSay(x.out, st) /\ (x.seen = "settled" => st = "settled")
    /\ EndsLate(x.out, a, e)
    /\ x.phase = "off" => \E k \in 0 .. len : Carries(x.out, a, k)
    /\ x.phase # "off" => Carries(x.out, a, x.sent) /\ x.sent <= len

\* A closed response with frames on their way.
LEMMA ClosedConn ==
    ASSUME NEW q \in Seq(Frames)
    PROVE  /\ [Closed EXCEPT !.out = q] \in Conns /\ Closed \in Conns
           /\ [Closed EXCEPT !.out = q].out = q /\ [Closed EXCEPT !.out = q].buf = <<>>
           /\ [Closed EXCEPT !.out = q].phase = "off" /\ [Closed EXCEPT !.out = q].seen = "none"
           /\ [Closed EXCEPT !.out = q].upto = 0 /\ [Closed EXCEPT !.out = q].sent = 0
           /\ Closed.out = <<>> /\ Closed.buf = <<>> /\ Closed.phase = "off" /\ Closed.seen = "none"
           /\ Closed.upto = 0 /\ Closed.sent = 0
<1>1. [Closed EXCEPT !.out = q] =
        [phase |-> "off", sent |-> 0, upto |-> 0, seen |-> "none", buf |-> <<>>, out |-> q]
  BY DEF Closed
<1>2. <<>> \in Seq(Frames) /\ 0 \in Nat
  OBVIOUS
<1> QED
  BY <1>1, <1>2 DEF Closed, Conns

\* The cases of Emit.
LEMMA EmitCases ==
    ASSUME NEW c \in Conns, NEW f \in Frames
    PROVE  /\ c.phase = "off" \/ (IsEvent(f) /\ f.seq <= c.sent) => Emit(c, f) = c
           /\ c.phase # "off" /\ IsEvent(f) /\ f.seq > c.sent =>
                Emit(c, f) = [c EXCEPT !.sent = f.seq, !.out = Append(@, f)]
           /\ c.phase # "off" /\ ~IsEvent(f) /\ StreamTerminal(f.st) =>
                Emit(c, f) = [Closed EXCEPT !.out = Append(c.out, f)]
           /\ c.phase # "off" /\ ~IsEvent(f) /\ ~StreamTerminal(f.st) =>
                Emit(c, f) = [c EXCEPT !.out = Append(@, f)]
           /\ c.sent \in Nat /\ f.seq \in Nat
<1>1. c.sent \in Nat /\ f.seq \in Nat
  BY DEF Conns, Frames
<1>2. CASE c.phase = "off" \/ (IsEvent(f) /\ f.seq <= c.sent)
  BY <1>1, <1>2 DEF Emit
<1>3. CASE c.phase # "off" /\ IsEvent(f) /\ f.seq > c.sent
  BY <1>1, <1>3 DEF Emit
<1>4. CASE c.phase # "off" /\ ~IsEvent(f)
  BY <1>1, <1>4 DEF Emit
<1> QED
  BY <1>1, <1>2, <1>3, <1>4

\* A response that sends a frame stays what it was: no event is skipped and
\* none is sent twice.
LEMMA EmitSender ==
    ASSUME NEW x, NEW ph, NEW a \in Nat, NEW len \in Nat, NEW e \in Nat, NEW st, NEW f \in Frames,
           Sender(x, ph, a, len, e, st), Says(f, st), f.seq <= len,
           x.phase # "off" /\ IsEvent(f) => f.seq <= x.sent + 1,
           x.phase # "off" /\ f.st = "settled" => e <= x.sent
    PROVE  /\ Sender(Emit(x, f), ph, a, len, e, st)
           /\ Emit(x, f).phase # "off" =>
                /\ x.phase # "off" /\ Emit(x, f).sent >= x.sent /\ Emit(x, f).sent \in Nat
                /\ IsEvent(f) => Emit(x, f).sent >= f.seq
                /\ ~IsEvent(f) => Emit(x, f).sent = x.sent
<1>1. /\ x \in Conns /\ x.out \in Seq(Frames) /\ x.sent \in Nat /\ f.seq \in Nat
  BY DEF Sender, Conns, Frames
<1>2. CASE x.phase = "off" \/ (IsEvent(f) /\ f.seq <= x.sent)
  <2>1. Emit(x, f) = x
    BY <1>1, <1>2, EmitCases
  <2> QED
    BY <1>1, <1>2, <2>1
<1>3. CASE x.phase # "off" /\ IsEvent(f) /\ f.seq > x.sent
  <2> DEFINE y == Emit(x, f)
  <2>1. y = [x EXCEPT !.sent = f.seq, !.out = Append(@, f)]
    BY <1>1, <1>3, EmitCases
  <2>2. f.seq = x.sent + 1 /\ Append(x.out, f) \in Seq(Frames)
    BY <1>1, <1>3
  <2>3. y \in Conns
    BY <1>1, <2>1, <2>2 DEF Conns
  <2>4. /\ y.phase = x.phase /\ y.sent = f.seq /\ y.out = Append(x.out, f) /\ y.buf = x.buf
        /\ y.seen = x.seen /\ y.upto = x.upto
    BY <1>1, <2>1 DEF Conns
  <2> HIDE DEF y
  <2>5. Carries(x.out, a, x.sent)
    BY <1>3 DEF Sender
  <2>6. Carries(y.out, a, y.sent)
    BY <1>1, <1>3, <2>2, <2>4, <2>5, CarriesEvent
  <2>7. f.st # "settled"
    BY <1>3 DEF Says
  <2>8. EndsLate(y.out, a, e)
    <3>1. EndsLate(x.out, a, e)
      BY DEF Sender
    <3> QED
      BY <1>1, <2>4, <2>5, <2>7, <3>1, EndsLateAppend
  <2>9. AllSay(y.out, st)
    BY <1>1, <2>4, AllSayMore DEF Sender
  <2>10. Sender(y, ph, a, len, e, st)
    BY <1>3, <2>3, <2>4, <2>6, <2>8, <2>9 DEF Sender
  <2> QED
    BY <1>1, <1>3, <2>4, <2>10 DEF y
<1>4. CASE x.phase # "off" /\ ~IsEvent(f)
  <2> DEFINE q == Append(x.out, f)
  <2>1. q \in Seq(Frames)
    BY <1>1
  <2>2. Carries(x.out, a, x.sent) /\ EndsLate(x.out, a, e) /\ AllSay(x.out, st) /\ x.sent \in 0 .. len
    BY <1>1, <1>4 DEF Sender
  <2>3. Carries(q, a, x.sent) /\ EndsLate(q, a, e) /\ AllSay(q, st)
    BY <1>1, <1>4, <2>2, CarriesStatus, EndsLateAppend, AllSayMore
  <2> HIDE DEF q
  <2>4. CASE StreamTerminal(f.st)
    <3> DEFINE y == [Closed EXCEPT !.out = q]
    <3>1. Emit(x, f) = y
      BY <1>1, <1>4, <2>4, EmitCases DEF q
    <3>2. y \in Conns /\ y.phase = "off" /\ y.out = q /\ y.buf = <<>> /\ y.seen = "none" /\ y.upto = 0
      BY <2>1, ClosedConn
    <3> HIDE DEF y
    <3>3. AllSay(y.buf, st)
      BY <3>2 DEF AllSay
    <3>4. Sender(y, ph, a, len, e, st)
      BY <2>2, <2>3, <3>2, <3>3 DEF Sender
    <3> QED
      BY <3>1, <3>2, <3>4
  <2>5. CASE ~StreamTerminal(f.st)
    <3> DEFINE y == Emit(x, f)
    <3>1. y = [x EXCEPT !.out = q]
      BY <1>1, <1>4, <2>5, EmitCases DEF q
    <3>2. y \in Conns
      BY <1>1, <2>1, <3>1 DEF Conns
    <3>3. /\ y.phase = x.phase /\ y.sent = x.sent /\ y.out = q /\ y.buf = x.buf
          /\ y.seen = x.seen /\ y.upto = x.upto
      BY <1>1, <3>1 DEF Conns
    <3> HIDE DEF y
    <3>4. Sender(y, ph, a, len, e, st)
      BY <1>4, <2>3, <3>2, <3>3 DEF Sender
    <3> QED
      BY <1>1, <1>4, <3>3, <3>4 DEF y
  <2> QED
    BY <2>4, <2>5
<1> QED
  BY <1>1, <1>2, <1>3, <1>4

\* Each event of fs is at most the one after a, or comes after its predecessor.
NoGap(fs, a) ==
    \A i \in DOMAIN fs : IsEvent(fs[i]) =>
        fs[i].seq <= a + 1 \/ \E j \in DOMAIN fs : j < i /\ IsEvent(fs[j]) /\ fs[j].seq = fs[i].seq - 1

\* EmitAll sends one frame after the other.
LEMMA EmitAllUnfolds ==
    ASSUME NEW c \in Conns, NEW fs \in Seq(Frames)
    PROVE  \E k : /\ k[0] = c /\ EmitAll(c, fs) = k[Len(fs)]
                  /\ \A i \in 1 .. Len(fs) : k[i] = Emit(k[i - 1], fs[i])
<1> DEFINE n == Len(fs)
           Eq(k) == k = [i \in 0 .. n |-> IF i = 0 THEN c ELSE Emit(k[i - 1], fs[i])]
           after == CHOOSE k : Eq(k)
           g == [x \in (1 .. n) \X Conns |-> Emit(x[2], fs[x[1]])]
<1>1. n \in Nat /\ \A i \in 1 .. n : fs[i] \in Frames
  OBVIOUS
<1>2. \A x \in Conns, f \in Frames : Emit(x, f) \in Conns
  <2> SUFFICES ASSUME NEW x \in Conns, NEW f \in Frames PROVE Emit(x, f) \in Conns
    OBVIOUS
  <2>1. x.out \in Seq(Frames) /\ x.sent \in Nat /\ f.seq \in Nat
    BY DEF Conns, Frames
  <2>2. Append(x.out, f) \in Seq(Frames)
    BY <2>1
  <2>3. [x EXCEPT !.out = Append(@, f)] \in Conns
    BY <2>2 DEF Conns
  <2>4. [x EXCEPT !.sent = f.seq, !.out = Append(@, f)] \in Conns
    BY <2>1, <2>2 DEF Conns
  <2>5. [Closed EXCEPT !.out = Append(x.out, f)] \in Conns
    BY <2>2, ClosedConn
  <2>6. CASE x.phase = "off" \/ (IsEvent(f) /\ f.seq <= x.sent)
    BY <2>6, EmitCases
  <2>7. CASE x.phase # "off" /\ IsEvent(f) /\ f.seq > x.sent
    BY <2>4, <2>7, EmitCases
  <2>8. CASE x.phase # "off" /\ ~IsEvent(f)
    BY <2>3, <2>5, <2>8, EmitCases
  <2> QED
    BY <2>1, <2>6, <2>7, <2>8
<1>3. PICK f : Iterates(f, n, Conns, c, g)
  <2>1. g \in [(1 .. n) \X Conns -> Conns]
    BY <1>1, <1>2
  <2>2. n \in Nat
    BY <1>1
  <2> HIDE DEF g, n
  <2> QED
    BY <2>1, <2>2, Recursion, Zenon
<1>4. \A i \in 1 .. n : f[i] = Emit(f[i - 1], fs[i])
  <2> TAKE i \in 1 .. n
  <2>1. f[i - 1] \in Conns /\ f[i] = g[<<i, f[i - 1]>>]
    <3>1. i - 1 \in 0 .. n
      BY <1>1
    <3> HIDE DEF n, g
    <3> QED
      BY <1>3, <3>1 DEF Iterates
  <2>2. g[<<i, f[i - 1]>>] = Emit(f[i - 1], fs[i])
    BY <2>1
  <2> QED
    BY <2>1, <2>2
<1>5. Eq(f)
  <2> DEFINE h == [i \in 0 .. n |-> IF i = 0 THEN c ELSE Emit(f[i - 1], fs[i])]
  <2> HIDE DEF n
  <2>1. ASSUME NEW i \in 0 .. n PROVE f[i] = h[i]
    <3>1. CASE i = 0
      BY <1>3, <3>1 DEF Iterates
    <3>2. CASE i # 0
      <4>1. i \in 1 .. n
        BY <1>1, <3>2
      <4> QED
        BY <1>4, <3>2, <4>1
    <3> QED
      BY <3>1, <3>2
  <2>2. f = h
    BY <1>3, <2>1 DEF Iterates
  <2> QED
    BY <2>2
<1>6. Eq(after)
  <2> HIDE DEF Eq
  <2> QED
    BY <1>5
<1>7. EmitAll(c, fs) = after[n]
  BY DEF EmitAll
<1> HIDE DEF after
<1>8. after[0] = c
  BY <1>1, <1>6
<1>9. ASSUME NEW i \in 1 .. n PROVE after[i] = Emit(after[i - 1], fs[i])
  <2>1. i \in 0 .. n /\ i # 0
    BY <1>1
  <2> HIDE DEF n
  <2> QED
    BY <1>6, <2>1
<1> QED
  BY <1>7, <1>8, <1>9

\* What the code knows of a frame it is about to send, and of the response once it is sent.
MayEmit(x, f, ph, a, len, e, st) ==
    /\ Sender(x, ph, a, len, e, st) /\ Says(f, st) /\ f.seq <= len
    /\ x.phase # "off" /\ IsEvent(f) => f.seq <= x.sent + 1
    /\ x.phase # "off" /\ f.st = "settled" => e <= x.sent

HasEmitted(y, x, f, ph, a, len, e, st) ==
    /\ Sender(y, ph, a, len, e, st)
    /\ y.phase # "off" => /\ x.phase # "off" /\ y.sent >= x.sent /\ y.sent \in Nat
                          /\ IsEvent(f) => y.sent >= f.seq

\* EmitSender in these words: one fact in, one fact out.
LEMMA EmitStep ==
    ASSUME NEW x, NEW ph, NEW a \in Nat, NEW len \in Nat, NEW e \in Nat, NEW st, NEW f \in Frames,
           MayEmit(x, f, ph, a, len, e, st)
    PROVE  HasEmitted(Emit(x, f), x, f, ph, a, len, e, st)
<1>1. Sender(x, ph, a, len, e, st)
  BY DEF MayEmit
<1>2. Says(f, st) /\ f.seq <= len
  BY DEF MayEmit
<1>3. x.phase # "off" /\ IsEvent(f) => f.seq <= x.sent + 1
  BY DEF MayEmit
<1>4. x.phase # "off" /\ f.st = "settled" => e <= x.sent
  BY DEF MayEmit
<1>5. /\ Sender(Emit(x, f), ph, a, len, e, st)
      /\ Emit(x, f).phase # "off" =>
           /\ x.phase # "off" /\ Emit(x, f).sent >= x.sent /\ Emit(x, f).sent \in Nat
           /\ IsEvent(f) => Emit(x, f).sent >= f.seq
           /\ ~IsEvent(f) => Emit(x, f).sent = x.sent
  BY ONLY <1>1, <1>2, <1>3, <1>4, EmitSender
<1> QED
  BY <1>5 DEF HasEmitted

\* Frames without a gap are sent without a gap.
LEMMA EmitAllSender ==
    ASSUME NEW c, NEW ph, NEW len \in Nat, NEW e \in Nat, NEW st, NEW fs \in Seq(Frames), NEW a \in Nat,
           Sender(c, ph, a, len, e, st), c.phase # "off", c.sent = a, AllSay(fs, st), NoGap(fs, a),
           EndsLate(fs, a, e), \A i \in DOMAIN fs : fs[i].seq <= len
    PROVE  LET x == EmitAll(c, fs) IN
           /\ Sender(x, ph, a, len, e, st)
           /\ x.phase # "off" => /\ x.sent \in Nat /\ a <= x.sent
                                 /\ \A i \in DOMAIN fs : IsEvent(fs[i]) => fs[i].seq <= x.sent
<1> DEFINE n == Len(fs)
<1>1. c \in Conns /\ c.sent \in Nat
  BY DEF Sender, Conns
<1>2. PICK k : /\ k[0] = c /\ EmitAll(c, fs) = k[n]
               /\ \A i \in 1 .. n : k[i] = Emit(k[i - 1], fs[i])
  BY <1>1, EmitAllUnfolds
<1> DEFINE Good(x, i) ==
             /\ Sender(x, ph, a, len, e, st)
             /\ x.phase # "off" => /\ x.sent \in Nat /\ a <= x.sent
                                   /\ \A j \in 1 .. i : IsEvent(fs[j]) => fs[j].seq <= x.sent
           P == {i \in 0 .. n : Good(k[i], i)}
<1>3. n \in Nat /\ DOMAIN fs = 1 .. n /\ \A i \in 1 .. n : fs[i] \in Frames /\ fs[i].seq \in Nat
  <2>1. \A x \in Frames : x.seq \in Nat
    BY DEF Frames
  <2> QED
    BY <2>1
<1> HIDE DEF n
<1>4. 0 \in P
  <2>1. \A j \in 1 .. 0 : FALSE
    OBVIOUS
  <2>2. Good(k[0], 0)
    BY <1>1, <1>2, <2>1
  <2> HIDE DEF Good
  <2> QED
    BY <1>3, <2>2
<1>5. ASSUME NEW i \in 0 .. n - 1, i \in P PROVE i + 1 \in P
  <2> DEFINE x == k[i]  f == fs[i + 1]  y == Emit(x, f)
  <2>1. i + 1 \in 1 .. n /\ (i + 1) - 1 = i /\ i + 1 \in 0 .. n /\ i \in Nat
    BY <1>3
  <2>2. k[i + 1] = y
    BY <1>2, <2>1
  <2>3. Good(x, i)
    BY <1>5
  <2>4. f \in Frames /\ f.seq \in Nat /\ f.seq <= len /\ Says(f, st)
    BY <1>3, <2>1 DEF AllSay
  <2> HIDE DEF x, f, y
  <2>5. x.phase # "off" /\ IsEvent(f) => f.seq <= x.sent + 1
    <3> SUFFICES ASSUME x.phase # "off", IsEvent(f) PROVE f.seq <= x.sent + 1
      OBVIOUS
    <3>1. f.seq <= a + 1 \/ \E j \in 1 .. n : j < i + 1 /\ IsEvent(fs[j]) /\ fs[j].seq = f.seq - 1
      BY <1>3, <2>1 DEF NoGap, f
    <3>2. x.sent \in Nat /\ a <= x.sent
      BY <2>3
    <3>3. ASSUME NEW j \in 1 .. n, j < i + 1, IsEvent(fs[j]), fs[j].seq = f.seq - 1 PROVE f.seq <= x.sent + 1
      <4>1. j \in 1 .. i
        BY <2>1, <3>3
      <4>2. fs[j].seq <= x.sent
        BY <2>3, <3>3, <4>1
      <4> QED
        BY <2>4, <3>2, <3>3, <4>2
    <3> QED
      BY <2>4, <3>1, <3>2, <3>3
  <2>6. x.phase # "off" /\ f.st = "settled" => e <= x.sent
    <3> SUFFICES ASSUME x.phase # "off", f.st = "settled" PROVE e <= x.sent
      OBVIOUS
    <3>1. e <= a \/ \E j \in 1 .. n : j < i + 1 /\ IsEvent(fs[j]) /\ fs[j].seq >= e
      BY <1>3, <2>1 DEF EndsLate, f
    <3>2. x.sent \in Nat /\ a <= x.sent
      BY <2>3
    <3>3. ASSUME NEW j \in 1 .. n, j < i + 1, IsEvent(fs[j]), fs[j].seq >= e PROVE e <= x.sent
      <4>1. j \in 1 .. i
        BY <2>1, <3>3
      <4>2. fs[j].seq <= x.sent /\ fs[j].seq \in Nat
        BY <1>3, <2>3, <3>3, <4>1
      <4> QED
        BY <3>2, <3>3, <4>2
    <3> QED
      BY <3>1, <3>2, <3>3
  <2>7. /\ Sender(y, ph, a, len, e, st)
        /\ y.phase # "off" => /\ x.phase # "off" /\ y.sent >= x.sent /\ y.sent \in Nat
                              /\ IsEvent(f) => y.sent >= f.seq
    <3>1. Sender(x, ph, a, len, e, st)
      BY <2>3
    <3> HIDE DEF Good, P
    <3> QED
      <4>1. MayEmit(x, f, ph, a, len, e, st)
        BY <2>4, <2>5, <2>6, <3>1 DEF MayEmit
      <4>2. HasEmitted(y, x, f, ph, a, len, e, st)
        BY <2>4, <4>1, EmitStep DEF y
      <4> QED
        BY <4>2 DEF HasEmitted
  <2>8. ASSUME y.phase # "off"
        PROVE  y.sent \in Nat /\ a <= y.sent /\ \A j \in 1 .. i + 1 : IsEvent(fs[j]) => fs[j].seq <= y.sent
    <3>1. x.sent \in Nat /\ a <= x.sent /\ \A j \in 1 .. i : IsEvent(fs[j]) => fs[j].seq <= x.sent
      BY <2>3, <2>7, <2>8
    <3>2. y.sent \in Nat /\ y.sent >= x.sent
      BY <2>7, <2>8
    <3>3. ASSUME NEW j \in 1 .. i + 1, IsEvent(fs[j]) PROVE fs[j].seq <= y.sent
      <4>1. CASE j = i + 1
        BY <2>4, <2>7, <2>8, <3>3, <4>1 DEF f
      <4>2. CASE j # i + 1
        <5>1. j \in 1 .. i /\ j \in 1 .. n
          BY <1>3, <2>1, <4>2
        <5>2. fs[j].seq \in Nat /\ fs[j].seq <= x.sent
          BY <1>3, <3>1, <3>3, <5>1
        <5> QED
          BY <3>1, <3>2, <5>2
      <4> QED
        BY <4>1, <4>2
    <3> QED
      BY <3>1, <3>2, <3>3
  <2>9. Good(y, i + 1)
    BY <2>7, <2>8
  <2> HIDE DEF Good
  <2> QED
    BY <2>1, <2>2, <2>9
<1>6. n \in P
  <2>1. n \in 0 .. n
    BY <1>3
  <2> HIDE DEF P
  <2> QED
    BY <1>3, <1>4, <1>5, <2>1, UpTo
<1> QED
  BY <1>2, <1>3, <1>6

-----------------------------------------------------------------------------
(* A response, step by step.                                               *)

\* One that sends, and has sent what is published.
LEMMA SenderResponds ==
    ASSUME NEW x, NEW ph \in Sending, NEW a \in Nat, NEW pub \in Nat, NEW len \in Nat, NEW e \in Nat, NEW st,
           Sender(x, ph, a, len, e, st), x.phase # "off" => pub <= x.sent
    PROVE  Response(x, a, pub, len, e, st)
<1>1. x.sent \in Nat /\ x.phase \in Sending \cup {"off"}
  BY DEF Sender, Conns, Sending
<1>2. x.phase \notin Replaying
  BY <1>1 DEF Replaying, Sending
<1>3. x.phase \in Sending => Carries(x.out, a, x.sent) /\ x.sent \in pub .. len
  BY <1>1 DEF Sender, Sending
<1> QED
  BY <1>2, <1>3 DEF Response, Sender

\* ... and back.
LEMMA RespondingSender ==
    ASSUME NEW c \in Conns, NEW a, NEW pub \in Nat, NEW len \in Nat, NEW e, NEW st,
           Response(c, a, pub, len, e, st), c.phase \notin Replaying
    PROVE  Sender(c, c.phase, a, len, e, st) /\ (c.phase # "off" => pub <= c.sent)
<1>1. c.phase # "off" => c.phase \in Sending
  BY DEF Conns, Replaying, Sending
<1>2. c.phase # "off" => Carries(c.out, a, c.sent) /\ c.sent \in pub .. len
  BY <1>1 DEF Response
<1> QED
  BY <1>2 DEF Response, Sender

\* A closed one.
LEMMA ClosedResponds ==
    ASSUME NEW cur \in Nat, NEW pub, NEW len \in Nat, NEW e, NEW st, cur <= len
    PROVE  Response(Closed, cur, pub, len, e, st)
<1>1. Closed.out = <<>> /\ Closed.buf = <<>> /\ Closed.phase = "off" /\ Closed.seen = "none" /\ Closed.upto = 0
  BY DEF Closed
<1>2. Carries(<<>>, cur, cur) /\ EndsLate(<<>>, cur, e) /\ AllSay(<<>>, st)
  BY CarriesNone
<1> QED
  BY <1>1, <1>2 DEF Response, Replaying, Sending

\* A row that changes while it is live, or was settled and stays.
LEMMA SaysLater ==
    ASSUME NEW q, NEW st, NEW st2, AllSay(q, st), st = "settled" => st2 = "settled"
    PROVE  AllSay(q, st2)
  BY DEF AllSay, Says

\* A response to a row whose status moves on, and stays settled once it is.
LEMMA ResponseStatus ==
    ASSUME NEW c, NEW cur, NEW pub, NEW len, NEW e, NEW st, NEW st2,
           Response(c, cur, pub, len, e, st), st = "settled" => st2 = "settled"
    PROVE  Response(c, cur, pub, len, e, st2)
  BY SaysLater DEF Response

\* An event more in the log, still to be published.
LEMMA ResponseLonger ==
    ASSUME NEW c \in Conns, NEW cur, NEW pub \in Nat, NEW len \in Nat, NEW e, NEW st,
           Response(c, cur, pub, len, e, st)
    PROVE  Response(c, cur, pub, len + 1, e, st)
<1>1. c.upto \in Nat /\ c.sent \in Nat
  BY DEF Conns
<1> QED
  BY <1>1 DEF Response

\* The run of a row that is not settled yet ends.
LEMMA ResponseEnded ==
    ASSUME NEW c, NEW cur, NEW pub, NEW len, NEW e, NEW e2, NEW st,
           Response(c, cur, pub, len, e, st), st # "settled"
    PROVE  Response(c, cur, pub, len, e2, st)
<1>1. \A q, a : AllSay(q, st) => EndsLate(q, a, e2)
  BY DEF AllSay, Says, EndsLate
<1> QED
  BY <1>1 DEF Response

\* Frames that are buffered.
LEMMA HearBuffers ==
    ASSUME NEW c \in Conns, NEW f \in Frames, c.phase \in Replaying
    PROVE  LET x == Hear(c, f) IN
           /\ x \in Conns /\ x.phase = c.phase /\ x.sent = c.sent /\ x.upto = c.upto /\ x.seen = c.seen
           /\ x.out = c.out /\ x.buf = Append(c.buf, f)
<1>1. Hear(c, f) = [c EXCEPT !.buf = Append(@, f)]
  BY DEF Hear, Replaying
<1>2. c.buf \in Seq(Frames) /\ Append(c.buf, f) \in Seq(Frames)
  BY DEF Conns
<1> QED
  BY <1>1, <1>2 DEF Conns

\* An event is published.
LEMMA HearEvent ==
    ASSUME NEW c \in Conns, NEW f \in Frames, NEW cur \in Nat, NEW pub \in Nat, NEW e \in Nat, NEW st,
           Response(c, cur, pub, pub + 1, e, st), IsEvent(f), f.seq = pub + 1, Says(f, st)
    PROVE  Hear(c, f) \in Conns /\ Response(Hear(c, f), cur, pub + 1, pub + 1, e, st)
<1>1. CASE c.phase \in Replaying
  <2> DEFINE x == Hear(c, f)
  <2>1. /\ x \in Conns /\ x.phase = c.phase /\ x.sent = c.sent /\ x.upto = c.upto /\ x.seen = c.seen
        /\ x.out = c.out /\ x.buf = Append(c.buf, f)
    BY <1>1, HearBuffers
  <2> HIDE DEF x
  <2>2. c.buf \in Seq(Frames) /\ c.upto \in Nat
    BY DEF Conns
  <2>3. PICK b \in 0 .. (IF c.phase = "read" THEN c.upto ELSE pub) :
          Carries(c.buf, b, pub) /\ EndsLate(c.buf, b, e)
    BY <1>1 DEF Response
  <2>4. b \in Nat /\ b \in 0 .. (IF c.phase = "read" THEN c.upto ELSE pub + 1)
    BY <2>2, <2>3
  <2>5. f.st # "settled"
    BY DEF Says
  <2>6. Carries(x.buf, b, pub + 1) /\ EndsLate(x.buf, b, e) /\ AllSay(x.buf, st)
    BY <2>1, <2>2, <2>3, <2>4, <2>5, CarriesEvent, EndsLateAppend, AllSayMore DEF Response
  <2>7. Response(x, cur, pub + 1, pub + 1, e, st)
    BY <1>1, <2>1, <2>4, <2>6 DEF Response, Replaying, Sending
  <2> QED
    BY <2>1, <2>7 DEF x
<1>2. CASE c.phase \notin Replaying
  <2>1. Hear(c, f) = Emit(c, f)
    BY <1>2 DEF Hear, Replaying
  <2>2. Sender(c, c.phase, cur, pub + 1, e, st) /\ (c.phase # "off" => pub <= c.sent) /\ c.sent \in Nat
    BY <1>2, RespondingSender DEF Conns
  <2>3. f.st # "settled" /\ pub + 1 \in Nat /\ (c.phase # "off" => f.seq <= c.sent + 1)
    BY <2>2 DEF Says
  <2> DEFINE x == Emit(c, f)
  <2>4. /\ Sender(x, c.phase, cur, pub + 1, e, st)
        /\ x.phase # "off" => c.phase # "off" /\ f.seq <= x.sent
    BY <2>2, <2>3, EmitSender
  <2>5. CASE c.phase \in Sending
    BY <2>1, <2>3, <2>4, <2>5, SenderResponds DEF Sender
  <2>6. CASE c.phase = "off"
    <3>1. x = c
      BY <2>6, EmitCases
    <3>2. Response(c, cur, pub + 1, pub + 1, e, st)
      BY <2>6 DEF Response, Replaying, Sending
    <3> QED
      BY <2>1, <3>1, <3>2
  <2> QED
    BY <1>2, <2>5, <2>6 DEF Conns, Replaying, Sending
<1> QED
  BY <1>1, <1>2

\* A status is published, when the events before it are.
LEMMA HearStatus ==
    ASSUME NEW c \in Conns, NEW f \in Frames, NEW cur \in Nat, NEW pub \in Nat, NEW len \in Nat, NEW e \in Nat,
           NEW st, Response(c, cur, pub, len, e, st), ~IsEvent(f), Says(f, st), e <= pub, pub <= len
    PROVE  Hear(c, f) \in Conns /\ Response(Hear(c, f), cur, pub, len, e, st)
<1>1. CASE c.phase \in Replaying
  <2> DEFINE x == Hear(c, f)
  <2>1. /\ x \in Conns /\ x.phase = c.phase /\ x.sent = c.sent /\ x.upto = c.upto /\ x.seen = c.seen
        /\ x.out = c.out /\ x.buf = Append(c.buf, f)
    BY <1>1, HearBuffers
  <2> HIDE DEF x
  <2>2. c.buf \in Seq(Frames) /\ c.upto \in Nat
    BY DEF Conns
  <2>3. PICK b \in 0 .. (IF c.phase = "read" THEN c.upto ELSE pub) :
          Carries(c.buf, b, pub) /\ EndsLate(c.buf, b, e)
    BY <1>1 DEF Response
  <2>4. b \in Nat
    BY <2>2, <2>3
  <2>5. Carries(x.buf, b, pub) /\ EndsLate(x.buf, b, e) /\ AllSay(x.buf, st)
    BY <2>1, <2>2, <2>3, <2>4, CarriesStatus, EndsLateAppend, AllSayMore DEF Response
  <2>6. Response(x, cur, pub, len, e, st)
    BY <1>1, <2>1, <2>3, <2>5 DEF Response, Replaying, Sending
  <2> QED
    BY <2>1, <2>6 DEF x
<1>2. CASE c.phase \notin Replaying
  <2>1. Hear(c, f) = Emit(c, f)
    BY <1>2 DEF Hear, Replaying
  <2>2. Sender(c, c.phase, cur, len, e, st) /\ (c.phase # "off" => pub <= c.sent) /\ c.sent \in Nat
    BY <1>2, RespondingSender DEF Conns
  <2>3. f.seq <= len /\ (c.phase # "off" => e <= c.sent)
    BY <2>2 DEF IsEvent, Frames
  <2> DEFINE x == Emit(c, f)
  <2>4. /\ Sender(x, c.phase, cur, len, e, st)
        /\ x.phase # "off" => c.phase # "off" /\ x.sent = c.sent
    BY <2>2, <2>3, EmitSender
  <2>5. CASE c.phase \in Sending
    BY <2>1, <2>2, <2>4, <2>5, SenderResponds DEF Sender
  <2>6. CASE c.phase = "off"
    <3>1. x = c
      BY <2>6, EmitCases
    <3> QED
      BY <2>1, <3>1
  <2> QED
    BY <1>2, <2>5, <2>6 DEF Conns, Replaying, Sending
<1> QED
  BY <1>1, <1>2

\* A response begins: subscribed, nothing read.
LEMMA ConnectResponds ==
    ASSUME NEW cur \in Nat, NEW pub \in Nat, NEW len \in Nat, NEW e \in Nat, NEW st
    PROVE  LET x == [Closed EXCEPT !.phase = "replay", !.sent = cur] IN
           x \in Conns /\ Response(x, cur, pub, len, e, st)
<1> DEFINE x == [Closed EXCEPT !.phase = "replay", !.sent = cur]
<1>1. Closed \in Conns /\ Closed.upto = 0 /\ Closed.seen = "none" /\ Closed.buf = <<>> /\ Closed.out = <<>>
  <2>1. <<>> \in Seq(Frames)
    OBVIOUS
  <2> QED
    BY <2>1, ClosedConn
<1>2. x \in Conns
  BY <1>1 DEF Conns
<1>3. /\ x.phase = "replay" /\ x.sent = cur /\ x.upto = 0 /\ x.seen = "none" /\ x.buf = <<>> /\ x.out = <<>>
  BY <1>1 DEF Conns
<1> HIDE DEF x
<1>4. Carries(<<>>, pub, pub) /\ EndsLate(<<>>, pub, e) /\ EndsLate(<<>>, cur, e) /\ AllSay(<<>>, st)
  BY CarriesNone
<1>5. pub \in 0 .. (IF x.phase = "read" THEN x.upto ELSE pub)
  BY <1>3
<1>6. Response(x, cur, pub, len, e, st)
  BY <1>3, <1>4, <1>5 DEF Response, Replaying, Sending
<1> QED
  BY <1>2, <1>6 DEF x

\* The events are read.
LEMMA ReadResponds ==
    ASSUME NEW c \in Conns, NEW cur \in Nat, NEW pub \in Nat, NEW len \in Nat, NEW e \in Nat, NEW st,
           Response(c, cur, pub, len, e, st), c.phase = "replay", pub <= len
    PROVE  LET x == [c EXCEPT !.phase = "read", !.upto = len] IN
           x \in Conns /\ Response(x, cur, pub, len, e, st)
<1> DEFINE x == [c EXCEPT !.phase = "read", !.upto = len]
<1>1. x \in Conns
  BY DEF Conns
<1>2. x.phase = "read" /\ x.upto = len /\ x.sent = c.sent /\ x.seen = c.seen /\ x.buf = c.buf /\ x.out = c.out
  BY DEF Conns
<1> HIDE DEF x
<1>3. PICK b \in 0 .. (IF c.phase = "read" THEN c.upto ELSE pub) : Carries(c.buf, b, pub) /\ EndsLate(c.buf, b, e)
  BY DEF Response, Replaying
<1>4. b \in 0 .. (IF x.phase = "read" THEN x.upto ELSE pub)
  BY <1>2, <1>3
<1>5. Response(x, cur, pub, len, e, st)
  BY <1>2, <1>3, <1>4 DEF Response, Replaying, Sending
<1> QED
  BY <1>1, <1>5 DEF x

\* The row is read.
LEMMA LookResponds ==
    ASSUME NEW c \in Conns, NEW cur \in Nat, NEW pub \in Nat, NEW len \in Nat, NEW e \in Nat,
           NEW st \in Status \cup {"none"}, Response(c, cur, pub, len, e, st), c.phase = "look"
    PROVE  LET x == [c EXCEPT !.phase = "looked", !.seen = st] IN
           x \in Conns /\ Response(x, cur, pub, len, e, st)
<1> DEFINE x == [c EXCEPT !.phase = "looked", !.seen = st]
<1>1. x \in Conns
  BY DEF Conns
<1>2. x.phase = "looked" /\ x.upto = c.upto /\ x.sent = c.sent /\ x.seen = st /\ x.buf = c.buf /\ x.out = c.out
  BY DEF Conns
<1> HIDE DEF x
<1>3. Response(x, cur, pub, len, e, st)
  BY <1>2 DEF Response, Replaying, Sending
<1> QED
  BY <1>1, <1>3 DEF x

\* A row that is over closes the response.
LEMMA SnapshotResponds ==
    ASSUME NEW c \in Conns, NEW cur \in Nat, NEW pub \in Nat, NEW len \in Nat, NEW e \in Nat, NEW st,
           NEW r \in Run, Response(c, cur, pub, len, e, st), c.phase = "looked", e <= pub
    PROVE  LET d == [c EXCEPT !.phase = "follow", !.seen = "none"]
               x == IF StreamTerminal(c.seen) THEN Emit(d, StatusFrame(r, c.seen)) ELSE d
           IN  x \in Conns /\ Response(x, cur, pub, len, e, st)
<1> DEFINE d == [c EXCEPT !.phase = "follow", !.seen = "none"]  f == StatusFrame(r, c.seen)
<1>1. d \in Conns
  BY DEF Conns
<1>2. /\ d.phase = "follow" /\ d.upto = c.upto /\ d.sent = c.sent /\ d.seen = "none" /\ d.buf = c.buf /\ d.out = c.out
      /\ d.sent \in Nat
  BY DEF Conns
<1> HIDE DEF d
<1>3. Response(d, cur, pub, len, e, st) /\ "follow" \in Sending
  BY <1>2 DEF Response, Replaying, Sending
<1>4. Sender(d, "follow", cur, len, e, st) /\ pub <= d.sent
  BY <1>1, <1>2, <1>3, RespondingSender DEF Replaying
<1>5. ASSUME StreamTerminal(c.seen) PROVE Emit(d, f) \in Conns /\ Response(Emit(d, f), cur, pub, len, e, st)
  <2>1. f \in Frames /\ ~IsEvent(f) /\ f.seq <= len /\ f.st = c.seen
    BY <1>5 DEF StatusFrame, Frames, IsEvent, StreamTerminal, Status, Holding
  <2>2. Says(f, st)
    BY <1>5, <2>1 DEF Says, StreamTerminal, Response
  <2> HIDE DEF f
  <2>3. /\ Sender(Emit(d, f), "follow", cur, len, e, st)
        /\ Emit(d, f).phase # "off" => Emit(d, f).sent = d.sent
    BY <1>2, <1>4, <2>1, <2>2, EmitSender
  <2>4. Emit(d, f).phase # "off" => pub <= Emit(d, f).sent
    BY <1>4, <2>3
  <2> QED
    BY <1>3, <2>3, <2>4, SenderResponds DEF Sender
<1> QED
  BY <1>1, <1>3, <1>5 DEF d, f

\* Two sequences of frames, one after the other.
LEMMA FrameConcat ==
    ASSUME NEW q \in Seq(Frames), NEW t \in Seq(Frames)
    PROVE  /\ q \o t \in Seq(Frames) /\ DOMAIN (q \o t) = 1 .. Len(q) + Len(t)
           /\ Len(t) \in Nat /\ DOMAIN t = 1 .. Len(t)
           /\ \A i \in 1 .. Len(q) : (q \o t)[i] = q[i]
           /\ \A i \in 1 .. Len(t) : (q \o t)[Len(q) + i] = t[i]
           /\ \A i \in 1 .. Len(t) : t[i] \in Frames /\ t[i].seq \in Nat
<1>1. \A x \in Frames : x.seq \in Nat
  BY DEF Frames
<1>2. /\ q \o t \in Seq(Frames) /\ DOMAIN (q \o t) = 1 .. Len(q) + Len(t)
      /\ Len(t) \in Nat /\ DOMAIN t = 1 .. Len(t) /\ \A i \in 1 .. Len(t) : t[i] \in Frames
  OBVIOUS
<1>3. \A i \in 1 .. Len(q) : (q \o t)[i] = q[i]
  OBVIOUS
<1>4. \A i \in 1 .. Len(t) : (q \o t)[Len(q) + i] = t[i]
  OBVIOUS
<1> QED
  BY <1>1, <1>2, <1>3, <1>4

\* What was read is sent, and then what was buffered: nothing between the two
\* is missing, and nothing is sent twice.
LEMMA FlushResponds ==
    ASSUME NEW c \in Conns, NEW cur \in Nat, NEW pub \in Nat, NEW len \in Nat, NEW e \in Nat, NEW st,
           NEW r \in Run, Response(c, cur, pub, len, e, st), c.phase = "read", pub <= len, cur <= len
    PROVE  LET d == [c EXCEPT !.phase = "look", !.buf = <<>>]
               after == IF d.upto > d.sent THEN d.upto - d.sent ELSE 0
               replayed == [i \in 1 .. after |-> EventFrame(r, d.sent + i)]
               x == EmitAll([d EXCEPT !.upto = 0], replayed \o c.buf)
           IN  x \in Conns /\ Response(x, cur, pub, len, e, st)
<1> DEFINE d == [c EXCEPT !.phase = "look", !.buf = <<>>]
           h == [d EXCEPT !.upto = 0]
           after == IF d.upto > d.sent THEN d.upto - d.sent ELSE 0
           replayed == [i \in 1 .. after |-> EventFrame(r, d.sent + i)]
           fs == replayed \o c.buf
           m == Len(c.buf)
<1>1. /\ c.buf \in Seq(Frames) /\ c.upto \in Nat /\ c.sent = cur /\ c.out = <<>> /\ c.upto <= len
      /\ c.seen = "settled" => st = "settled"
      /\ AllSay(c.buf, st)
  BY DEF Conns, Response, Replaying
<1>2. h \in Conns /\ d.upto = c.upto /\ d.sent = cur
  BY <1>1 DEF Conns
<1>3. h.phase = "look" /\ h.upto = 0 /\ h.sent = cur /\ h.seen = c.seen /\ h.buf = <<>> /\ h.out = <<>>
  BY <1>1 DEF Conns
<1> HIDE DEF h, d
<1>4. PICK b \in 0 .. c.upto : Carries(c.buf, b, pub) /\ EndsLate(c.buf, b, e)
  BY DEF Response, Replaying
<1>5. /\ after \in Nat /\ (after > 0 => cur + after = c.upto) /\ (after = 0 => c.upto <= cur)
  BY <1>1, <1>2
<1> HIDE DEF after
<1>6. \A i \in 1 .. after : /\ replayed[i] \in Frames /\ IsEvent(replayed[i]) /\ replayed[i].seq = cur + i
                            /\ replayed[i].st = "event"
  BY <1>2, <1>5 DEF EventFrame, IsEvent, Frames
<1>7. replayed \in Seq(Frames) /\ Len(replayed) = after
  <2>1. replayed = [i \in 1 .. after |-> replayed[i]] /\ DOMAIN replayed = 1 .. after
    OBVIOUS
  <2> HIDE DEF replayed
  <2> QED
    BY <1>5, <1>6, <2>1
<1> HIDE DEF replayed
<1>8. /\ m \in Nat /\ DOMAIN c.buf = 1 .. m /\ fs \in Seq(Frames) /\ DOMAIN fs = 1 .. after + m
      /\ \A i \in 1 .. m : c.buf[i] \in Frames /\ c.buf[i].seq \in Nat
  BY <1>1, <1>7, FrameConcat
<1>9. /\ \A i \in 1 .. after : fs[i] = replayed[i]
      /\ \A j \in 1 .. m : fs[after + j] = c.buf[j]
  BY <1>1, <1>7, FrameConcat
<1> HIDE DEF fs, m
<1>10. \A i \in DOMAIN fs : (i \in 1 .. after) \/ (i - after \in 1 .. m /\ i = after + (i - after) /\ fs[i] = c.buf[i - after])
  <2> SUFFICES ASSUME NEW i \in DOMAIN fs, i \notin 1 .. after
               PROVE  i - after \in 1 .. m /\ i = after + (i - after) /\ fs[i] = c.buf[i - after]
    OBVIOUS
  <2>1. i - after \in 1 .. m /\ i = after + (i - after)
    BY <1>5, <1>8
  <2> QED
    BY <1>9, <2>1
<1>11. \A i \in 1 .. after : i \in DOMAIN fs
  BY <1>5, <1>8
<1>12. \A j \in 1 .. m : after + j \in DOMAIN fs
  BY <1>5, <1>8
<1>13. AllSay(fs, st) /\ \A i \in DOMAIN fs : fs[i].seq <= len
  <2> SUFFICES ASSUME NEW i \in DOMAIN fs PROVE Says(fs[i], st) /\ fs[i].seq <= len
    BY DEF AllSay
  <2>1. CASE i \in 1 .. after
    <3>1. cur + i <= c.upto
      BY <1>1, <1>5, <2>1
    <3>2. cur + i <= len
      BY <1>1, <1>5, <2>1, <3>1
    <3> QED
      BY <1>6, <1>9, <2>1, <3>2 DEF Says
  <2>2. CASE i - after \in 1 .. m /\ fs[i] = c.buf[i - after]
    <3>1. Says(fs[i], st) /\ fs[i].seq \in Nat
      BY <1>1, <1>8, <2>2 DEF AllSay
    <3>2. IsEvent(fs[i]) => fs[i].seq \in b + 1 .. pub
      BY <1>4, <1>8, <2>2 DEF Carries
    <3>3. fs[i].seq <= len
      BY <3>1, <3>2 DEF IsEvent
    <3> QED
      BY <3>1, <3>3
  <2> QED
    BY <1>10, <2>1, <2>2
<1>14. NoGap(fs, cur)
  <2> SUFFICES ASSUME NEW i \in DOMAIN fs, IsEvent(fs[i])
               PROVE  fs[i].seq <= cur + 1 \/
                      \E j \in DOMAIN fs : j < i /\ IsEvent(fs[j]) /\ fs[j].seq = fs[i].seq - 1
    BY DEF NoGap
  <2>1. CASE i \in 1 .. after
    <3>1. CASE i = 1
      BY <1>6, <1>9, <2>1, <3>1
    <3>2. CASE i # 1
      <4>1. i - 1 \in 1 .. after /\ i - 1 < i
        BY <1>5, <2>1, <3>2
      <4>2. fs[i - 1].seq = fs[i].seq - 1 /\ IsEvent(fs[i - 1]) /\ i - 1 \in DOMAIN fs
        BY <1>6, <1>9, <1>11, <2>1, <4>1
      <4> QED
        BY <4>1, <4>2
    <3> QED
      BY <3>1, <3>2
  <2>2. CASE i - after \in 1 .. m /\ i = after + (i - after) /\ fs[i] = c.buf[i - after]
    <3> DEFINE k == i - after  s == fs[i].seq
    <3>1. k \in 1 .. m /\ c.buf[k].seq = s /\ IsEvent(c.buf[k]) /\ s \in b + 1 .. pub
      BY <1>4, <1>8, <2>2 DEF Carries
    <3> HIDE DEF k
    <3>2. CASE s = b + 1 /\ b > cur
      <4>1. b - cur \in 1 .. after
        BY <1>1, <1>4, <1>5, <3>2
      <4>2. fs[b - cur].seq = b /\ IsEvent(fs[b - cur]) /\ b - cur \in DOMAIN fs
        BY <1>6, <1>9, <1>11, <4>1
      <4>3. b - cur < i
        BY <1>5, <2>2, <4>1
      <4> QED
        BY <3>1, <3>2, <4>2, <4>3
    <3>3. CASE s # b + 1
      <4>1. s - 1 \in b + 1 .. pub
        BY <3>1, <3>3
      <4>2. PICK j \in 1 .. m : IsEvent(c.buf[j]) /\ c.buf[j].seq = s - 1
        BY <1>4, <1>8, <4>1 DEF Carries
      <4>3. j < k
        <5>1. s \in Nat /\ ~(s < s - 1) /\ s # s - 1
          BY <1>4, <3>1 DEF Carries
        <5>2. k < j => s < s - 1
          <6> HIDE DEF s
          <6>1. k \in DOMAIN c.buf /\ j \in DOMAIN c.buf
            BY <1>8, <3>1, <4>2
          <6> QED
            BY <1>4, <3>1, <4>2, <6>1 DEF Carries
        <5> QED
          BY <1>8, <3>1, <4>2, <5>1, <5>2
      <4>4. after + j \in DOMAIN fs /\ after + j < i /\ fs[after + j] = c.buf[j]
        BY <1>5, <1>9, <1>12, <2>2, <4>2, <4>3 DEF k
      <4> QED
        BY <4>2, <4>4
    <3>4. CASE s = b + 1 /\ ~(b > cur)
      BY <1>4, <3>4
    <3> QED
      BY <3>2, <3>3, <3>4
  <2> QED
    BY <1>10, <2>1, <2>2
<1>15. e <= b => e <= cur \/ (after > 0 /\ e <= fs[after].seq)
  BY <1>1, <1>4, <1>5, <1>6, <1>9
<1>16. EndsLate(fs, cur, e)
  <2> SUFFICES ASSUME NEW j \in DOMAIN fs, fs[j].st = "settled"
               PROVE  e <= cur \/ \E i \in DOMAIN fs : i < j /\ IsEvent(fs[i]) /\ fs[i].seq >= e
    BY DEF EndsLate
  <2>1. j \notin 1 .. after
    BY <1>6, <1>9
  <2> DEFINE k == j - after
  <2>2. k \in 1 .. m /\ j = after + k /\ c.buf[k].st = "settled"
    BY <1>10, <2>1
  <2> HIDE DEF k
  <2>3. e <= b \/ \E i \in 1 .. m : i < k /\ IsEvent(c.buf[i]) /\ c.buf[i].seq >= e
    BY <1>4, <1>8, <2>2 DEF EndsLate
  <2>4. CASE e <= b /\ ~(e <= cur)
    <3>1. after > 0 /\ e <= fs[after].seq
      BY <1>15, <2>4
    <3>2. after \in 1 .. after /\ after < j
      BY <1>5, <2>2, <3>1
    <3> QED
      BY <1>6, <1>9, <1>11, <3>1, <3>2
  <2>5. ASSUME NEW i \in 1 .. m, i < k, IsEvent(c.buf[i]), c.buf[i].seq >= e
        PROVE  \E n \in DOMAIN fs : n < j /\ IsEvent(fs[n]) /\ fs[n].seq >= e
    <3>1. after + i \in DOMAIN fs /\ after + i < j /\ fs[after + i] = c.buf[i]
      BY <1>5, <1>9, <1>12, <2>2, <2>5
    <3> QED
      BY <2>5, <3>1
  <2> QED
    BY <2>3, <2>4, <2>5
<1>17. Sender(h, "look", cur, len, e, st)
  <2>1. Carries(<<>>, cur, cur) /\ EndsLate(<<>>, cur, e) /\ AllSay(<<>>, st)
    BY CarriesNone
  <2> QED
    BY <1>1, <1>2, <1>3, <2>1 DEF Sender
<1> DEFINE x == EmitAll(h, fs)
<1>18. /\ Sender(x, "look", cur, len, e, st)
       /\ x.phase # "off" => /\ x.sent \in Nat /\ cur <= x.sent
                             /\ \A i \in DOMAIN fs : IsEvent(fs[i]) => fs[i].seq <= x.sent
  BY <1>3, <1>8, <1>13, <1>14, <1>16, <1>17, EmitAllSender
<1> HIDE DEF x
<1>19. ASSUME x.phase # "off" PROVE pub <= x.sent
  <2>1. CASE pub = b
    <3>1. CASE after = 0
      BY <1>1, <1>4, <1>5, <1>18, <1>19, <2>1, <3>1
    <3>2. CASE after > 0
      <4>1. after \in 1 .. after
        BY <1>5, <3>2
      <4>2. fs[after].seq <= x.sent /\ fs[after].seq = c.upto
        BY <1>5, <1>6, <1>9, <1>11, <1>18, <1>19, <3>2, <4>1
      <4> QED
        BY <1>1, <1>4, <1>18, <1>19, <2>1, <4>2
    <3> QED
      BY <1>5, <3>1, <3>2
  <2>2. CASE pub # b
    <3>1. pub \in b + 1 .. pub
      BY <1>4, <2>2 DEF Carries
    <3>2. PICK i \in 1 .. m : IsEvent(c.buf[i]) /\ c.buf[i].seq = pub
      BY <1>4, <1>8, <3>1 DEF Carries
    <3>3. fs[after + i] = c.buf[i] /\ after + i \in DOMAIN fs
      BY <1>9, <1>12
    <3> QED
      BY <1>18, <1>19, <3>2, <3>3
  <2> QED
    BY <2>1, <2>2
<1>20. "look" \in Sending
  BY DEF Sending
<1>21. x \in Conns /\ Response(x, cur, pub, len, e, st)
  BY <1>18, <1>19, <1>20, SenderResponds DEF Sender
<1> QED
  BY <1>21 DEF x, h, d, fs, replayed, after

-----------------------------------------------------------------------------
(* The parts of the type invariant.                                        *)

\* The server's rows and logs.
TServer ==
    /\ bound \in Bounds
    /\ status \in [Run -> Status \cup {"none"}] /\ log \in [Run -> Seq(Event)]
    /\ body \in [Run -> Seq(Msg)] /\ ended \in [Run -> Nat] /\ silent \in [Run -> Nat]
    /\ orphan \subseteq Run /\ winding \in Run \cup {0} /\ over \in BOOLEAN

\* The frames and the streams.
TStreams ==
    /\ due \subseteq Frames /\ conn \in [Run -> Conns] /\ live \in [Run -> Status \cup {"none"}]
    /\ store \in [Run -> SUBSET Nat] /\ cursor \in [Run -> Nat]
    /\ \A r \in Run : store[r] \subseteq DOMAIN log[r] /\ cursor[r] \in 0 .. Len(log[r])
    /\ follow \in [Run -> {"none", "connecting", "open", "closed"}]

\* What the tab sends.
TSending ==
    /\ typed \in 0 .. bound.typed /\ queue \in Seq(Msg) /\ attempts \in 0 .. MaxBusy - 1
    /\ retry \in BOOLEAN /\ retired \in BOOLEAN
    /\ box \subseteq Msg /\ gone \subseteq Msg /\ bounced \subseteq Msg
    /\ post \in Posts \cup {None}

\* What it shows, asks and fetches.
TTab ==
    /\ rows \in [Run -> Status \cup {"none"}] /\ unheard \subseteq Run /\ reopening \subseteq Run
    /\ asked = None \/ asked \in [kind : {"stop", "answer"}, run : Run, stage : {"sent", "ok", "error"}]
    /\ fetch = None \/ fetch \in [Run -> Status \cup {"none"}]
    /\ faults \in 0 .. bound.faults /\ acts \in 0 .. bound.acts

\* Together they are the type invariant.
LEMMA TypeParts == TypeOK <=> TServer /\ TStreams /\ TSending /\ TTab
  BY DEF TypeOK, TServer, TStreams, TSending, TTab

\* What the bounds of an instance are.
LEMMA BoundFacts ==
    ASSUME TServer
    PROVE  /\ bound.typed \in 0 .. MaxRuns /\ bound.acts \in Nat /\ bound.faults \in Nat
           /\ bound.typed + (IF "other" \in bound.kinds THEN bound.acts ELSE 0) <= MaxRuns
           /\ MaxRuns \in Nat
  BY ChatThreadAssumption DEF TServer

-----------------------------------------------------------------------------
(* The numbers of the runs.                                                *)

\* The runs can be counted.
LEMMA CountUsed ==
    ASSUME TServer, Used = 1 .. Cardinality(Used)
    PROVE  /\ IsFiniteSet(Used) /\ Cardinality(Used) \in Nat /\ Cardinality(Used) <= MaxRuns
           /\ NextRun = Cardinality(Used) + 1 /\ NextRun \notin Used
<1>1. MaxRuns \in Nat
  BY BoundFacts
<1>2. IsFiniteSet(Run) /\ Cardinality(Run) = MaxRuns
  BY <1>1, FS_Interval DEF Run
<1>3. IsFiniteSet(Used) /\ Cardinality(Used) <= Cardinality(Run)
  <2>1. Used \in SUBSET Run
    BY DEF Used
  <2> QED
    BY <1>2, <2>1, FS_Subset
<1>4. Cardinality(Used) \in Nat
  BY <1>3, FS_CardinalityType
<1> QED
  BY <1>2, <1>3, <1>4 DEF NextRun

\* The newest run is the last number.
LEMMA NewestRun ==
    ASSUME TServer, Numbered, Used # {}
    PROVE  Cardinality(Used) \in Used
<1> DEFINE n == Cardinality(Used)
<1>1. n \in Nat /\ Used = 1 .. n
  BY CountUsed DEF Numbered
<1> HIDE DEF n
<1>2. n >= 1
  BY <1>1
<1> QED
  BY <1>1, <1>2 DEF n

\* The next run is the next number.
LEMMA OneMoreRun ==
    ASSUME TServer, Used = 1 .. Cardinality(Used), Cardinality(Used) < MaxRuns,
           status' = [status EXCEPT ![NextRun] = "queued"]
    PROVE  /\ NextRun \in Run \ Used /\ Used' = Used \cup {NextRun}
           /\ Cardinality(Used') = Cardinality(Used) + 1 /\ Used' = 1 .. Cardinality(Used')
<1> DEFINE n == Cardinality(Used)
<1>1. /\ IsFiniteSet(Used) /\ n \in Nat /\ NextRun = n + 1 /\ NextRun \notin Used
  BY CountUsed
<1>2. MaxRuns \in Nat
  BY BoundFacts
<1>3. NextRun \in Run
  BY <1>1, <1>2 DEF Run
<1>4. Used' = Used \cup {NextRun}
  BY <1>3 DEF Used, TServer
<1>5. Cardinality(Used') = n + 1
  BY <1>1, <1>4, FS_AddElement
<1>6. 1 .. n + 1 = (1 .. n) \cup {n + 1}
  BY <1>1
<1> QED
  BY <1>1, <1>3, <1>4, <1>5, <1>6

\* A step that makes no run and forgets none.
LEMMA SameRuns ==
    ASSUME \A r \in Run : status'[r] = "none" <=> status[r] = "none"
    PROVE  Used' = Used
  BY DEF Used

\* What was sent was typed, so it can be counted.
LEMMA CountSent ==
    ASSUME TypeOK, Numbered
    PROVE  /\ Sent \subseteq 1 .. typed /\ Cardinality(Sent) \in Nat /\ Cardinality(Sent) <= typed
           /\ typed \in Nat /\ typed <= bound.typed
           /\ Cardinality(Sent) = typed => Sent = 1 .. typed
<1>1. typed \in Nat /\ typed <= bound.typed
  BY BoundFacts, TypeParts DEF TSending
<1>2. Sent \subseteq 1 .. typed
  BY DEF Sent, SentWith, Numbered
<1>3. IsFiniteSet(1 .. typed) /\ Cardinality(1 .. typed) = typed
  BY <1>1, FS_Interval
<1>4. /\ IsFiniteSet(Sent) /\ Cardinality(Sent) <= typed
      /\ Cardinality(1 .. typed) = Cardinality(Sent) => 1 .. typed = Sent
  BY <1>2, <1>3, FS_Subset
<1>5. Cardinality(Sent) \in Nat
  BY <1>4, FS_CardinalityType
<1> QED
  BY <1>1, <1>2, <1>3, <1>4, <1>5

\* There is a number left for a run of another tab ...
LEMMA RoomForOther ==
    ASSUME TypeOK, Numbered, Act("other")
    PROVE  Cardinality(Used) < MaxRuns
<1>1. /\ TServer /\ acts \in Nat /\ acts < bound.acts /\ "other" \in bound.kinds
  BY TypeParts DEF TTab, Act
<1>2. /\ bound.typed \in Nat /\ bound.acts \in Nat /\ MaxRuns \in Nat
      /\ bound.typed + bound.acts <= MaxRuns
  BY <1>1, BoundFacts
<1>3. Cardinality(Sent) \in Nat /\ Cardinality(Sent) <= typed /\ typed \in Nat /\ typed <= bound.typed
  BY CountSent
<1>4. Cardinality(Used) \in Nat /\ Cardinality(Used) <= Cardinality(Sent) + acts
  BY <1>1, CountUsed DEF Numbered
<1> QED
  BY <1>1, <1>2, <1>3, <1>4

\* ... and one for a message of this tab that no run was sent with.
LEMMA RoomForPost ==
    ASSUME TypeOK, Numbered, NEW m \in 1 .. typed, SentWith(m) = {}
    PROVE  Cardinality(Used) < MaxRuns /\ m \notin Sent
<1>1. TServer /\ acts \in Nat /\ acts <= bound.acts
  BY TypeParts, BoundFacts DEF TTab
<1>2. /\ bound.typed \in Nat /\ bound.acts \in Nat /\ MaxRuns \in Nat
      /\ bound.typed + (IF "other" \in bound.kinds THEN bound.acts ELSE 0) <= MaxRuns
  BY <1>1, BoundFacts
<1>3. /\ Cardinality(Sent) \in Nat /\ Cardinality(Sent) <= typed /\ typed \in Nat /\ typed <= bound.typed
      /\ Cardinality(Sent) = typed => Sent = 1 .. typed
  BY CountSent
<1>4. m \notin Sent
  BY DEF Sent
<1>5. Cardinality(Sent) < typed
  BY <1>3, <1>4
<1>6. /\ Cardinality(Used) \in Nat
      /\ Cardinality(Used) <= Cardinality(Sent) + IF "other" \in bound.kinds THEN acts ELSE 0
  BY <1>1, CountUsed DEF Numbered
<1> QED
  BY <1>1, <1>2, <1>3, <1>4, <1>5, <1>6

-----------------------------------------------------------------------------
(* The server's rows and what the tab shows keep their types.              *)

\* What the server part reads is unchanged.
LEMMA ServerStays ==
    ASSUME TServer, UNCHANGED <<bound, server>>
    PROVE  TServer'
  BY DEF TServer, server

\* A step of the tab's stream, of what it sends, or of the bus.
LEMMA TabStays ==
    ASSUME TTab, UNCHANGED <<bound, rows, asked, fetch, reopening, budget, unheard>>
    PROVE  TTab'
  BY DEF TTab, budget

\* The statuses a row can have.
LEMMA StatusTypes == Status = {"queued", "running", "waiting", "settled"} /\ \A x \in Holding : x \in Status
  BY DEF Status, Holding

\* An event more in a log.
LEMMA LogMore ==
    ASSUME TServer, NEW r \in Run, NEW k \in Event, log' = [log EXCEPT ![r] = Append(@, k)]
    PROVE  /\ log' \in [Run -> Seq(Event)] /\ Len(log'[r]) = Len(log[r]) + 1
           /\ \A x \in Run : x # r => log'[x] = log[x]
           /\ \A x \in Run : Len(log[x]) \in Nat /\ DOMAIN log[x] = 1 .. Len(log[x])
           /\ \A x \in Run : DOMAIN log[x] \subseteq DOMAIN log'[x] /\ Len(log[x]) <= Len(log'[x])
<1>1. log \in [Run -> Seq(Event)]
  BY DEF TServer
<1>2. log'[r] = Append(log[r], k) /\ \A x \in Run : x # r => log'[x] = log[x]
  BY <1>1
<1>3. /\ log[r] \in Seq(Event) /\ Append(log[r], k) \in Seq(Event)
      /\ Len(Append(log[r], k)) = Len(log[r]) + 1
  BY <1>1
<1>4. \A x \in Run : Len(log[x]) \in Nat /\ DOMAIN log[x] = 1 .. Len(log[x])
  BY <1>1
<1>5. DOMAIN log'[r] = 1 .. Len(log[r]) + 1
  BY <1>2, <1>3
<1>6. log' \in [Run -> Seq(Event)]
  BY <1>1, <1>3
<1>7. ASSUME NEW x \in Run PROVE DOMAIN log[x] \subseteq DOMAIN log'[x] /\ Len(log[x]) <= Len(log'[x])
  BY <1>2, <1>3, <1>4, <1>5
<1> QED
  BY <1>2, <1>3, <1>4, <1>6, <1>7

\* The server's steps.
LEMMA TailTypes ==
    ASSUME IInv, NEW r \in Run, \/ TailStart(r) \/ TailFinish(r) \/ Reconcile(r) \/ \E k \in Event : TailEvent(r, k)
    PROVE  TServer' /\ TTab'
<1>1. TServer /\ TTab
  BY TypeParts DEF IInv
<1>2. CASE TailStart(r)
  BY <1>1, <1>2, StatusTypes DEF TailStart, TServer, TTab, budget
<1>3. CASE TailFinish(r)
  <2>1. /\ status' \in [Run -> Status \cup {"none"}] /\ ended' \in [Run -> Nat]
        /\ UNCHANGED <<bound, log, body, orphan, winding, over, silent>>
    BY <1>1, <1>3, StatusTypes DEF TailFinish, TServer
  <2>2. UNCHANGED <<bound, rows, asked, fetch, reopening, budget, unheard>>
    BY <1>3 DEF TailFinish
  <2> QED
    BY <1>1, <2>1, <2>2, TabStays DEF TServer
<1>4. CASE Reconcile(r)
  BY <1>1, <1>4, StatusTypes DEF Reconcile, TServer, TTab, budget
<1>5. ASSUME NEW k \in Event, TailEvent(r, k) PROVE TServer' /\ TTab'
  <2>1. /\ log' = [log EXCEPT ![r] = Append(@, k)] /\ winding' = 0
        /\ UNCHANGED <<bound, status, body, orphan, over, ended, silent>>
        /\ UNCHANGED <<bound, rows, asked, fetch, reopening, budget, unheard>>
    BY <1>5 DEF TailEvent
  <2>2. log' \in [Run -> Seq(Event)]
    BY <1>1, <2>1, LogMore
  <2> QED
    BY <1>1, <2>1, <2>2, TabStays DEF TServer
<1> QED
  BY <1>2, <1>3, <1>4, <1>5

\* An event that no tail wrote, or a restart.
LEMMA WritesTypes ==
    ASSUME IInv, Observe \/ ContextControl \/ Crash
    PROVE  TServer' /\ TTab'
<1>1. TServer /\ TTab
  BY TypeParts DEF IInv
<1>2. CASE Observe
  <2>1. /\ winding \in Run /\ log' = [log EXCEPT ![winding] = Append(@, "stopped")] /\ winding' = 0
        /\ UNCHANGED <<bound, status, body, orphan, over, ended, silent>>
        /\ UNCHANGED <<bound, rows, asked, fetch, reopening, budget, unheard>>
    BY <1>1, <1>2 DEF Observe, TServer
  <2>2. log' \in [Run -> Seq(Event)]
    BY <1>1, <2>1, LogMore DEF Event
  <2> QED
    BY <1>1, <2>1, <2>2, TabStays DEF TServer
<1>3. CASE ContextControl
  <2>1. PICK r \in Run : /\ log' = [log EXCEPT ![r] = Append(@, "text")]
                         /\ silent' = [silent EXCEPT ![r] = @ + 1]
                         /\ UNCHANGED <<bound, status, body, orphan, winding, over, ended>>
                         /\ UNCHANGED <<rows, asked, faults, unheard>>
                         /\ fetch' = status /\ reopening' = reopening \cup ({r} \cap Listed)
                         /\ acts < bound.acts /\ acts' = acts + 1
    <3> DEFINE r == Cardinality(Used)
    <3>1. r \in Run
      BY <1>1, <1>3, NewestRun DEF ContextControl, IInv, SInv, Used
    <3> QED
      BY <1>3, <3>1 DEF ContextControl, Act
  <2>2. log' \in [Run -> Seq(Event)]
    BY <1>1, <2>1, LogMore DEF Event
  <2>3. acts' \in 0 .. bound.acts
    BY <1>1, <2>1, BoundFacts DEF TTab
  <2> QED
    BY <1>1, <2>1, <2>2, <2>3 DEF TServer, TTab
<1>4. CASE Crash
  <2>1. faults' \in 0 .. bound.faults
    BY <1>1, <1>4, BoundFacts DEF Crash, Fault, TTab
  <2>2. TServer'
    BY <1>1, <1>4 DEF Crash, TServer
  <2>3. /\ UNCHANGED <<bound, rows, reopening, acts>> /\ unheard' \subseteq Run
        /\ (fetch' = None \/ fetch' \in [Run -> Status \cup {"none"}])
    BY <1>1, <1>4 DEF Crash, TServer, TTab
  <2>4. asked' = None \/ asked' \in [kind : {"stop", "answer"}, run : Run, stage : {"sent", "ok", "error"}]
    BY <1>1, <1>4 DEF Crash, TTab
  <2> QED
    BY <1>1, <2>1, <2>2, <2>3, <2>4 DEF TTab
<1> QED
  BY <1>2, <1>3, <1>4

\* A message on its way.
LEMMA SendTypes ==
    ASSUME IInv, HandlePost \/ Dispatch \/ LosePost \/ PostReply
    PROVE  TServer' /\ TTab'
<1>1. TServer /\ TTab /\ TSending /\ Numbered /\ PostOK /\ Waiting
  BY TypeParts DEF IInv, SInv
<1>2. CASE HandlePost
  <2>1. UNCHANGED <<bound, rows, asked, fetch, reopening, budget, unheard>> /\ UNCHANGED <<log, orphan, winding, over, ended, silent>>
    BY <1>2 DEF HandlePost
  <2>2. status' \in [Run -> Status \cup {"none"}] /\ body' \in [Run -> Seq(Msg)]
    <3>1. post.msgs \in Seq(Msg)
      BY <1>1, <1>2 DEF HandlePost, TSending, IsPending, Posts
    <3>2. \/ UNCHANGED <<status, body>>
          \/ /\ status' = [status EXCEPT ![NextRun] = "queued"]
             /\ body' = [body EXCEPT ![NextRun] = post.msgs]
      BY <1>2 DEF HandlePost
    <3>3. status \in [Run -> Status \cup {"none"}] /\ body \in [Run -> Seq(Msg)]
      BY <1>1 DEF TServer
    <3>4. "queued" \in Status
      BY StatusTypes
    <3> QED
      BY <3>1, <3>2, <3>3, <3>4
  <2> QED
    BY <1>1, <2>1, <2>2, TabStays DEF TServer
<1>3. CASE Dispatch
  <2>1. /\ UNCHANGED <<bound, log, body, orphan, winding, ended, silent, rows, asked, fetch, reopening, acts>>
        /\ over' \in BOOLEAN /\ status' \in [Run -> Status \cup {"none"}]
    BY <1>1, <1>3, StatusTypes DEF Dispatch, TServer
  <2>2. post.run \in Run
    BY <1>1, <1>3 DEF Dispatch, PostOK, Used
  <2>3. unheard' \subseteq Run
    BY <1>1, <1>3, <2>2 DEF Dispatch, TTab
  <2>4. faults' \in 0 .. bound.faults
    BY <1>1, <1>3, BoundFacts DEF Dispatch, Fault, TTab
  <2> QED
    BY <1>1, <2>1, <2>3, <2>4 DEF TServer, TTab
<1>4. CASE LosePost
  <2>1. faults' \in 0 .. bound.faults
    BY <1>1, <1>4, BoundFacts DEF LosePost, Fault, TTab
  <2> QED
    BY <1>1, <1>4, <2>1, ServerStays DEF LosePost, TTab
<1>5. CASE PostReply
  <2>1. UNCHANGED <<bound, server, asked, fetch, reopening, budget, unheard>>
    BY <1>5 DEF PostReply
  <2>2. rows' \in [Run -> Status \cup {"none"}]
    <3>1. CASE Accepted
      BY <1>1, <3>1, StatusTypes DEF Accepted, Attach, TTab
    <3>2. CASE Busy \/ Refused
      BY <1>1, <3>2 DEF Busy, Refused, TTab
    <3> QED
      BY <1>5, <3>1, <3>2 DEF PostReply
  <2> QED
    BY <1>1, <2>1, <2>2, ServerStays DEF TTab, budget
<1> QED
  BY <1>2, <1>3, <1>4, <1>5

\* Requests about a run, and the other tab.
LEMMA AskTypes ==
    ASSUME IInv, \/ HandleStop \/ HandleAnswer \/ AskedReply \/ FetchApply \/ LoseAsked \/ OtherTab
                 \/ \E r \in Run : ClickStop(r) \/ Answer(r) \/ Resumed(r)
    PROVE  TServer' /\ TTab'
<1>1. TServer /\ TTab
  BY TypeParts DEF IInv
<1>2. CASE HandleStop
  <2>1. asked' = None \/ asked' \in [kind : {"stop", "answer"}, run : Run, stage : {"sent", "ok", "error"}]
    BY <1>1, <1>2 DEF HandleStop, TTab
  <2>2. asked.run \in Run
    BY <1>1, <1>2 DEF HandleStop, TTab
  <2>3. status' \in [Run -> Status \cup {"none"}] /\ winding' \in Run \cup {0} /\ orphan' \subseteq Run
    BY <1>1, <1>2, <2>2, StatusTypes DEF HandleStop, StopRun, TServer
  <2>4. UNCHANGED <<bound, log, body, over, ended, silent, rows, fetch, reopening, budget, unheard>>
    BY <1>2 DEF HandleStop
  <2> QED
    BY <1>1, <2>1, <2>3, <2>4 DEF TServer, TTab, budget
<1>3. CASE HandleAnswer
  <2>1. asked' = None \/ asked' \in [kind : {"stop", "answer"}, run : Run, stage : {"sent", "ok", "error"}]
    BY <1>1, <1>3 DEF HandleAnswer, TTab
  <2>2. asked.run \in Run
    BY <1>1, <1>3 DEF HandleAnswer, TTab
  <2>3. status' \in [Run -> Status \cup {"none"}] /\ unheard' \subseteq Run
    BY <1>1, <1>3, <2>2, StatusTypes DEF HandleAnswer, TServer, TTab
  <2>4. faults' \in 0 .. bound.faults
    BY <1>1, <1>3, BoundFacts DEF HandleAnswer, Fault, TTab
  <2>5. UNCHANGED <<bound, log, body, orphan, winding, over, ended, silent, rows, fetch, reopening, acts>>
    BY <1>3 DEF HandleAnswer
  <2> QED
    BY <1>1, <2>1, <2>3, <2>4, <2>5 DEF TServer, TTab
<1>4. CASE AskedReply
  <2>1. UNCHANGED <<bound, server, rows, budget, unheard>> /\ asked' = None
        /\ (fetch' = fetch \/ fetch' = status) /\ reopening' \subseteq Run
    BY <1>1, <1>4 DEF AskedReply, TTab
  <2> QED
    BY <1>1, <2>1, ServerStays DEF TServer, TTab, budget
<1>5. CASE FetchApply
  <2>1. UNCHANGED <<bound, server, asked, reopening, budget, unheard>> /\ fetch' = None /\ rows' = fetch /\ fetch # None
    BY <1>5 DEF FetchApply, Attach
  <2> QED
    BY <1>1, <2>1, ServerStays DEF TTab, budget
<1>6. CASE LoseAsked
  <2>1. asked' = None \/ asked' \in [kind : {"stop", "answer"}, run : Run, stage : {"sent", "ok", "error"}]
    BY <1>1, <1>6 DEF LoseAsked, TTab
  <2>2. unheard' \subseteq Run
    BY <1>1, <1>6 DEF LoseAsked, TTab
  <2>3. faults' \in 0 .. bound.faults
    BY <1>1, <1>6, BoundFacts DEF LoseAsked, Fault, TTab
  <2>4. UNCHANGED <<bound, server, rows, fetch, reopening, acts>>
    BY <1>6 DEF LoseAsked
  <2> QED
    BY <1>1, <2>1, <2>2, <2>3, <2>4, ServerStays DEF TTab
<1>7. CASE OtherTab
  <2>1. acts' \in 0 .. bound.acts
    BY <1>1, <1>7, BoundFacts DEF OtherTab, Act, TTab
  <2>2. status' \in [Run -> Status \cup {"none"}] /\ unheard' \subseteq Run
    BY <1>1, <1>7, StatusTypes DEF OtherTab, TServer, TTab
  <2>3. UNCHANGED <<bound, log, body, orphan, winding, over, ended, silent, rows, asked, fetch, reopening, faults>>
    BY <1>7 DEF OtherTab
  <2> QED
    BY <1>1, <2>1, <2>2, <2>3 DEF TServer, TTab
<1>8. ASSUME NEW r \in Run, ClickStop(r) \/ Answer(r) PROVE TServer' /\ TTab'
  <2>1. PICK kind \in {"stop", "answer"} : Ask(kind, r)
    BY <1>8 DEF ClickStop, Answer
  <2>2. asked' \in [kind : {"stop", "answer"}, run : Run, stage : {"sent", "ok", "error"}]
    BY <2>1 DEF Ask
  <2>3. acts' \in 0 .. bound.acts
    BY <1>1, <2>1, BoundFacts DEF Ask, Act, TTab
  <2>4. UNCHANGED <<bound, server, rows, fetch, reopening, faults, unheard>>
    BY <2>1 DEF Ask
  <2> QED
    BY <1>1, <2>2, <2>3, <2>4, ServerStays DEF TTab
<1>9. ASSUME NEW r \in Run, Resumed(r) PROVE TServer' /\ TTab'
  <2>1. UNCHANGED <<bound, server, rows, asked, fetch, budget, unheard>> /\ reopening' \subseteq Run
    BY <1>1, <1>9 DEF Resumed, TTab
  <2> QED
    BY <1>1, <2>1, ServerStays DEF TTab, budget
<1> QED
  BY <1>2, <1>3, <1>4, <1>5, <1>6, <1>7, <1>8, <1>9

\* The other steps: of the streams, and of the queue.
LEMMA ClientTypes ==
    ASSUME IInv, \/ Submit \/ FlushQueue \/ RetryEnds \/ \E m \in Msg : RemoveQueued(m)
                 \/ \E r \in Run : Connect(r) \/ ReadEvents(r) \/ Flush(r) \/ ReadStatus(r)
                                   \/ Snapshot(r) \/ Receive(r) \/ Drop(r)
                 \/ \E f \in due : Publish(f)
                 \/ UNCHANGED vars
    PROVE  TServer' /\ TTab'
<1>1. TServer /\ TTab
  BY TypeParts DEF IInv
<1>2. CASE \E r \in Run : Drop(r)
  <2>1. faults' \in 0 .. bound.faults /\ UNCHANGED <<bound, server, rows, asked, fetch, reopening, acts, unheard>>
    BY <1>1, <1>2, BoundFacts DEF Drop, Fault, TTab
  <2> QED
    BY <1>1, <2>1, ServerStays DEF TTab
<1>3. CASE \E m \in Msg : RemoveQueued(m)
  <2>1. acts' \in 0 .. bound.acts /\ UNCHANGED <<bound, server, rows, asked, fetch, reopening, faults, unheard>>
    BY <1>1, <1>3, BoundFacts DEF RemoveQueued, Act, TTab
  <2> QED
    BY <1>1, <2>1, ServerStays DEF TTab
<1>4. CASE \E f \in due : Publish(f)
  BY <1>1, <1>4, ServerStays, TabStays DEF Publish
<1>5. CASE Submit \/ FlushQueue \/ RetryEnds
  BY <1>1, <1>5, ServerStays, TabStays DEF Submit, FlushQueue, RetryEnds
<1>6. CASE \E r \in Run : Connect(r) \/ ReadEvents(r) \/ Flush(r) \/ ReadStatus(r) \/ Snapshot(r) \/ Receive(r)
  <2>1. UNCHANGED <<bound, server>> /\ UNCHANGED <<bound, rows, asked, fetch, reopening, budget, unheard>>
    BY <1>6 DEF Connect, ReadEvents, Flush, ReadStatus, Snapshot, Receive
  <2> QED
    BY <1>1, <2>1, ServerStays, TabStays
<1>7. CASE UNCHANGED vars
  BY <1>1, <1>7, ServerStays, TabStays DEF vars
<1> QED
  BY <1>2, <1>3, <1>4, <1>5, <1>6, <1>7

-----------------------------------------------------------------------------
(* The streams: what keeps their invariant.                                *)

\* What is known of a run and its frames.
LEMMA PublishedFacts ==
    ASSUME TServer, TStreams, DueOK, NEW r \in Run, ended[r] <= Published(r)
    PROVE  /\ Len(log[r]) \in Nat /\ DOMAIN log[r] = 1 .. Len(log[r]) /\ ended[r] \in Nat
           /\ Published(r) \in Nat /\ Published(r) <= Len(log[r])
           /\ silent[r] \in Nat /\ Published(r) <= Len(log[r]) - silent[r]
           /\ (~Unpublished(r) => Published(r) = Len(log[r]) - silent[r])
           /\ conn[r] \in Conns /\ cursor[r] \in Nat /\ status[r] \in Status \cup {"none"}
<1>1. /\ Len(log[r]) \in Nat /\ DOMAIN log[r] = 1 .. Len(log[r]) /\ ended[r] \in Nat /\ silent[r] \in Nat
      /\ conn[r] \in Conns /\ cursor[r] \in Nat /\ status[r] \in Status \cup {"none"}
  BY DEF TServer, TStreams
<1>2. CASE \E f \in due : f.run = r /\ IsEvent(f)
  <2>1. PICK f \in due : f.run = r /\ IsEvent(f)
    BY <1>2
  <2>2. f.seq = Len(log[r]) /\ f.seq > 0 /\ silent[r] = 0
    BY <2>1 DEF DueOK, IsEvent
  <2> QED
    BY <1>1, <1>2, <2>1, <2>2 DEF Published, Unpublished
<1>3. CASE ~ \E f \in due : f.run = r /\ IsEvent(f)
  BY <1>1, <1>3 DEF Published, Unpublished
<1> QED
  BY <1>1, <1>2, <1>3

\* A step of the rows, of what the tab sends, or of a row's status: no stream
\* moves, a settled row stays settled, and what becomes due is no event.
LEMMA StreamsStay ==
    ASSUME TStreams, RInv, UNCHANGED <<log, ended, silent, streams>>,
           \A r \in Run : status[r] = "settled" => status'[r] = "settled",
           \A f \in due' : f \in due \/ (f \in Frames /\ ~IsEvent(f) /\ Says(f, status'[f.run])),
           \A f \in due : IsEvent(f) => f \in due'
    PROVE  TStreams' /\ RInv'
<1>1. TStreams'
  BY DEF TStreams, streams
<1>2. \A f \in due : f.run \in Run
  BY DEF TStreams, Frames
<1>3. DueOK'
  <2> SUFFICES ASSUME NEW f \in due'
               PROVE  Says(f, status'[f.run]) /\ (IsEvent(f) => f.seq = Len(log[f.run]) /\ silent[f.run] = 0)
    BY DEF DueOK
  <2>1. CASE f \in due
    BY <1>2, <2>1 DEF RInv, DueOK, Says
  <2>2. CASE f \notin due
    BY <2>2
  <2> QED
    BY <2>1, <2>2
<1>4. \A r \in Run : Published(r)' = Published(r)
  BY DEF Published
<1>5. ASSUME NEW r \in Run PROVE ConnOK(r)'
  <2>1. Response(conn[r], cursor[r], Published(r), Len(log[r]), ended[r], status[r])
    BY DEF RInv, ConnOK
  <2>2. Response(conn[r], cursor[r], Published(r), Len(log[r]), ended[r], status'[r])
    BY <2>1, ResponseStatus
  <2> QED
    BY <1>4, <2>2 DEF RInv, ConnOK, streams
<1>6. ASSUME NEW r \in Run PROVE TabOK(r)' /\ ended'[r] <= Published(r)'
  BY <1>4 DEF RInv, TabOK, streams
<1> QED
  BY <1>1, <1>3, <1>5, <1>6 DEF RInv

\* A step of the stream of one run.
LEMMA StreamMoves ==
    ASSUME TServer, TStreams, RInv, NEW r \in Run, UNCHANGED <<server, due>>,
           NEW c \in Conns, conn' = [conn EXCEPT ![r] = c],
           live' \in [Run -> Status \cup {"none"}], store' \in [Run -> SUBSET Nat], cursor' \in [Run -> Nat],
           follow' \in [Run -> {"none", "connecting", "open", "closed"}],
           \A x \in Run \ {r} : /\ live'[x] = live[x] /\ store'[x] = store[x]
                                /\ cursor'[x] = cursor[x] /\ follow'[x] = follow[x],
           Response(c, cursor'[r], Published(r), Len(log[r]), ended[r], status[r]),
           follow'[r] # "open" => c = Closed, TabOK(r)'
    PROVE  TStreams' /\ RInv'
<1>1. conn' \in [Run -> Conns] /\ conn'[r] = c /\ \A x \in Run \ {r} : conn'[x] = conn[x]
  BY DEF TStreams
<1>2. /\ DueOK' /\ UNCHANGED <<log, ended, silent, status>>
      /\ \A x \in Run : Published(x)' = Published(x)
  BY DEF RInv, DueOK, server, Published
<1>3. ASSUME NEW x \in Run \ {r} PROVE ConnOK(x)' /\ TabOK(x)'
  BY <1>1, <1>2 DEF RInv, ConnOK, TabOK
<1>4. ConnOK(r)'
  BY <1>1, <1>2 DEF ConnOK
<1>5. \A x \in Run : ended'[x] <= Published(x)'
  BY <1>2 DEF RInv
<1>6. RInv'
  BY <1>2, <1>3, <1>4, <1>5 DEF RInv
<1>7. ASSUME NEW x \in Run
      PROVE  store'[x] \subseteq DOMAIN log'[x] /\ cursor'[x] \in 0 .. Len(log'[x])
  <2>1. Len(log[x]) \in Nat /\ DOMAIN log[x] = 1 .. Len(log[x])
    BY DEF TServer
  <2>2. store'[x] = 1 .. cursor'[x] /\ cursor'[x] <= Len(log'[x]) /\ cursor'[x] \in Nat
    BY <1>3 DEF TabOK
  <2> QED
    BY <1>2, <2>1, <2>2
<1>8. TStreams'
  BY <1>1, <1>7 DEF TStreams
<1> QED
  BY <1>6, <1>8

\* What is stored ends at the cursor.
LEMMA LastOfPrefix ==
    ASSUME NEW n \in Nat
    PROVE  LastSeq(1 .. n) = n
<1>1. n \in (1 .. n) \cup {0} /\ \A y \in (1 .. n) \cup {0} : n >= y
  OBVIOUS
<1>2. \A x, y \in (1 .. n) \cup {0} : x >= y /\ y >= x => x = y
  OBVIOUS
<1> QED
  BY <1>1, <1>2 DEF LastSeq, Max

\* A stream is closed, or opened again behind what is stored.
LEMMA Reopened ==
    ASSUME TServer, TStreams, RInv, NEW r \in Run
    PROVE  /\ LastSeq(store[r]) = cursor[r] /\ cursor[r] \in Nat /\ cursor[r] <= Len(log[r])
           /\ \A pub, e, st : Response(Closed, cursor[r], pub, Len(log[r]), e, st)
           /\ Closed \in Conns
<1>1. store[r] = 1 .. cursor[r] /\ cursor[r] \in Nat /\ cursor[r] <= Len(log[r]) /\ Len(log[r]) \in Nat
  BY PublishedFacts DEF RInv, TabOK
<1>2. ASSUME NEW pub, NEW e, NEW st PROVE Response(Closed, cursor[r], pub, Len(log[r]), e, st)
  BY <1>1, ClosedResponds
<1>3. Closed \in Conns
  <2>1. <<>> \in Seq(Frames)
    OBVIOUS
  <2> QED
    BY <2>1, ClosedConn
<1> QED
  BY <1>1, <1>2, <1>3, LastOfPrefix

-----------------------------------------------------------------------------
(* The steps of one stream.                                                *)

\* The response that has sent what it read and what it buffered.
Flushed(r, c) ==
    LET d == [c EXCEPT !.phase = "look", !.buf = <<>>]
        after == IF d.upto > d.sent THEN d.upto - d.sent ELSE 0
        replayed == [i \in 1 .. after |-> EventFrame(r, d.sent + i)]
    IN EmitAll([d EXCEPT !.upto = 0], replayed \o c.buf)

\* It is a response again.
LEMMA FlushedResponds ==
    ASSUME NEW c \in Conns, NEW cur \in Nat, NEW pub \in Nat, NEW len \in Nat, NEW e \in Nat, NEW st,
           NEW r \in Run, Response(c, cur, pub, len, e, st), c.phase = "read", pub <= len, cur <= len
    PROVE  Flushed(r, c) \in Conns /\ Response(Flushed(r, c), cur, pub, len, e, st)
  BY FlushResponds DEF Flushed

\* The server end: subscribe, read, send, look, close.
LEMMA ServesStreams ==
    ASSUME TServer, TStreams, RInv, NEW r \in Run,
           ReadEvents(r) \/ Flush(r) \/ ReadStatus(r) \/ Snapshot(r)
    PROVE  TStreams' /\ RInv'
<1> DEFINE c == conn[r]  cur == cursor[r]  pub == Published(r)  len == Len(log[r])  e == ended[r]  st == status[r]
<1>1. /\ c \in Conns /\ cur \in Nat /\ pub \in Nat /\ len \in Nat /\ e \in Nat /\ st \in Status \cup {"none"}
      /\ pub <= len
  BY PublishedFacts DEF RInv
<1>2. /\ Response(c, cur, pub, len, e, st) /\ e <= pub /\ cur <= len
      /\ TabOK(r) /\ (follow[r] # "open" => c = Closed)
  BY DEF RInv, ConnOK, TabOK
<1>3. Closed.phase = "off"
  BY DEF Closed
<1>4. UNCHANGED <<server, due>> /\ UNCHANGED <<live, store, cursor, follow>>
  BY DEF ReadEvents, Flush, ReadStatus, Snapshot
<1>5. TabOK(r)'
  BY <1>2, <1>4 DEF TabOK, server
<1>6. c.phase # "off"
  BY DEF ReadEvents, Flush, ReadStatus, Snapshot
<1>7. follow[r] = "open"
  BY <1>2, <1>3, <1>6
<1> HIDE DEF c, cur, pub, len, e, st
<1>8. PICK x \in Conns : conn' = [conn EXCEPT ![r] = x] /\ Response(x, cur, pub, len, e, st)
  <2>1. CASE ReadEvents(r)
    <3> DEFINE x == [c EXCEPT !.phase = "read", !.upto = len]
    <3>1. c.phase = "replay" /\ conn' = [conn EXCEPT ![r].phase = "read", ![r].upto = Len(log[r])]
      BY <2>1 DEF ReadEvents, c
    <3>2. conn' = [conn EXCEPT ![r] = x]
      BY <3>1 DEF TStreams, c, len
    <3>3. x \in Conns /\ Response(x, cur, pub, len, e, st)
      BY <1>1, <1>2, <3>1, ReadResponds
    <3> QED
      BY <3>2, <3>3
  <2>2. CASE Flush(r)
    <3> DEFINE x == Flushed(r, c)
    <3>1. c.phase = "read" /\ conn' = [conn EXCEPT ![r] = x]
      BY <2>2 DEF Flush, Flushed, c
    <3>2. x \in Conns /\ Response(x, cur, pub, len, e, st)
      BY <1>1, <1>2, <3>1, FlushedResponds
    <3> HIDE DEF x
    <3> QED
      BY <3>1, <3>2
  <2>3. CASE ReadStatus(r)
    <3> DEFINE x == [c EXCEPT !.phase = "looked", !.seen = st]
    <3>1. c.phase = "look" /\ conn' = [conn EXCEPT ![r].phase = "looked", ![r].seen = status[r]]
      BY <2>3 DEF ReadStatus, c
    <3>2. conn' = [conn EXCEPT ![r] = x]
      BY <3>1 DEF TStreams, c, st
    <3>3. x \in Conns /\ Response(x, cur, pub, len, e, st)
      BY <1>1, <1>2, <3>1, LookResponds
    <3> QED
      BY <3>2, <3>3
  <2>4. CASE Snapshot(r)
    <3> DEFINE d == [c EXCEPT !.phase = "follow", !.seen = "none"]
               x == IF StreamTerminal(c.seen) THEN Emit(d, StatusFrame(r, c.seen)) ELSE d
    <3>1. c.phase = "looked" /\ conn' = [conn EXCEPT ![r] = x]
      BY <2>4 DEF Snapshot, c
    <3>2. x \in Conns /\ Response(x, cur, pub, len, e, st)
      BY <1>1, <1>2, <3>1, SnapshotResponds
    <3> HIDE DEF x
    <3> QED
      BY <3>1, <3>2
  <2> QED
    BY <2>1, <2>2, <2>3, <2>4
<1>9. Response(x, cursor'[r], Published(r), Len(log[r]), ended[r], status[r])
  BY <1>4, <1>8 DEF cur, pub, len, e, st
<1>10. /\ live' \in [Run -> Status \cup {"none"}] /\ store' \in [Run -> SUBSET Nat] /\ cursor' \in [Run -> Nat]
       /\ follow' \in [Run -> {"none", "connecting", "open", "closed"}]
       /\ \A y \in Run \ {r} : /\ live'[y] = live[y] /\ store'[y] = store[y]
                                /\ cursor'[y] = cursor[y] /\ follow'[y] = follow[y]
       /\ follow'[r] = "open"
  BY <1>4, <1>7 DEF TStreams
<1> QED
  BY <1>4, <1>5, <1>8, <1>9, <1>10, StreamMoves

\* The tab connects, or its connection breaks or is opened again.
LEMMA OpensStreams ==
    ASSUME TServer, TStreams, RInv, NEW r \in Run, UNCHANGED <<server, due>>,
           Connect(r) \/ Drop(r) \/ Reopen(r)
    PROVE  TStreams' /\ RInv'
<1>1. /\ LastSeq(store[r]) = cursor[r] /\ cursor[r] \in Nat /\ cursor[r] <= Len(log[r])
      /\ \A pub, e, st : Response(Closed, cursor[r], pub, Len(log[r]), e, st)
      /\ Closed \in Conns
  BY Reopened
<1>2. /\ Published(r) \in Nat /\ Len(log[r]) \in Nat /\ ended[r] \in Nat
  BY PublishedFacts DEF RInv
<1>3. TabOK(r) /\ UNCHANGED <<live, store, log, status, ended, silent>>
  BY DEF RInv, Connect, Drop, Reopen, server
<1>4. /\ live' \in [Run -> Status \cup {"none"}] /\ store' \in [Run -> SUBSET Nat]
      /\ \A y \in Run \ {r} : live'[y] = live[y] /\ store'[y] = store[y]
  BY <1>3 DEF TStreams
<1>5. CASE Connect(r)
  <2> DEFINE x == [Closed EXCEPT !.phase = "replay", !.sent = cursor[r]]
  <2>1. x \in Conns /\ Response(x, cursor[r], Published(r), Len(log[r]), ended[r], status[r])
    BY <1>1, <1>2, ConnectResponds
  <2>2. conn' = [conn EXCEPT ![r] = x]
    BY <1>5 DEF Connect
  <2>3. cursor' = cursor /\ follow' = [follow EXCEPT ![r] = "open"]
    BY <1>5 DEF Connect
  <2>4. /\ cursor' \in [Run -> Nat] /\ follow' \in [Run -> {"none", "connecting", "open", "closed"}]
        /\ \A y \in Run \ {r} : cursor'[y] = cursor[y] /\ follow'[y] = follow[y]
        /\ follow'[r] = "open" /\ cursor'[r] = cursor[r]
    BY <2>3 DEF TStreams
  <2>5. TabOK(r)'
    BY <1>3, <2>4 DEF TabOK
  <2> HIDE DEF x
  <2> QED
    BY <1>4, <2>1, <2>2, <2>4, <2>5, StreamMoves
<1>6. CASE Drop(r) \/ Reopen(r)
  <2>1. conn' = [conn EXCEPT ![r] = Closed] /\ follow' = [follow EXCEPT ![r] = "connecting"]
    BY <1>6 DEF Drop, Reopen
  <2>2. cursor' = cursor \/ cursor' = [cursor EXCEPT ![r] = cursor[r]]
    BY <1>1, <1>6 DEF Drop, Reopen
  <2>3. /\ cursor' \in [Run -> Nat] /\ follow' \in [Run -> {"none", "connecting", "open", "closed"}]
        /\ \A y \in Run \ {r} : cursor'[y] = cursor[y] /\ follow'[y] = follow[y]
        /\ follow'[r] = "connecting" /\ cursor'[r] = cursor[r]
    BY <1>1, <2>1, <2>2 DEF TStreams
  <2>4. TabOK(r)'
    BY <1>3, <2>3 DEF TabOK
  <2> QED
    BY <1>1, <1>4, <2>1, <2>3, <2>4, StreamMoves
<1> QED
  BY <1>5, <1>6

\* A response with one frame less on its way, at cursor cur2.
Took(c) == [c EXCEPT !.out = Tail(@)]

\* It is a response, to the tab at its new cursor.
LEMMA TookOne ==
    ASSUME NEW c \in Conns, NEW cur \in Nat, NEW cur2 \in Nat, NEW pub, NEW len, NEW e, NEW st,
           c.phase \notin Replaying, Response(c, cur, pub, len, e, st),
           AllSay(Tail(c.out), st), EndsLate(Tail(c.out), cur2, e), Tail(c.out) \in Seq(Frames),
           NEW b \in Nat, b <= len, Carries(Tail(c.out), cur2, b), c.phase \in Sending => b = c.sent
    PROVE  Took(c) \in Conns /\ Response(Took(c), cur2, pub, len, e, st)
<1> DEFINE x == Took(c)
<1>1. /\ x \in Conns /\ x.phase = c.phase /\ x.sent = c.sent /\ x.upto = c.upto /\ x.seen = c.seen
      /\ x.buf = c.buf /\ x.out = Tail(c.out)
  BY DEF Conns, Took
<1> HIDE DEF x
<1>2. b \in 0 .. len \/ len \notin Int
  OBVIOUS
<1>3. c.phase = "off" => \E k \in 0 .. len : TRUE
  BY DEF Response
<1>4. x.phase = "off" => \E k \in 0 .. len : Carries(x.out, cur2, k)
  BY <1>1, <1>2, <1>3 DEF Response
<1>5. Response(x, cur2, pub, len, e, st)
  BY <1>1, <1>4 DEF Response, Replaying, Sending
<1> QED
  BY <1>1, <1>5 DEF x

\* The tab takes the next frame.
LEMMA ReceivesStream ==
    ASSUME TServer, TStreams, RInv, NEW r \in Run, Receive(r)
    PROVE  TStreams' /\ RInv'
<1> DEFINE c == conn[r]  cur == cursor[r]  pub == Published(r)  len == Len(log[r])  e == ended[r]  st == status[r]
           f == Head(c.out)  x == Took(c)
<1>1. /\ c \in Conns /\ cur \in Nat /\ pub \in Nat /\ len \in Nat /\ e \in Nat /\ pub <= len
      /\ Response(c, cur, pub, len, e, st) /\ store[r] = 1 .. cur /\ TabOK(r)
      /\ UNCHANGED <<server, due>>
  BY PublishedFacts DEF RInv, ConnOK, TabOK, Receive
<1>2. c.out # <<>> /\ c.out \in Seq(Frames) /\ c.sent \in Nat /\ follow[r] = "open"
  BY <1>1 DEF Receive, Conns
<1>3. c.phase \notin Replaying
  BY <1>1, <1>2 DEF Response
<1>4. PICK b \in 0 .. len : Carries(c.out, cur, b) /\ (c.phase \in Sending => b = c.sent)
  <2>1. CASE c.phase = "off"
    BY <1>1, <2>1 DEF Response, Sending
  <2>2. CASE c.phase # "off"
    <3>1. c.phase \in Sending
      BY <1>1, <1>3, <2>2 DEF Conns, Replaying, Sending
    <3>2. Carries(c.out, cur, c.sent) /\ c.sent \in pub .. len
      BY <1>1, <3>1 DEF Response
    <3> QED
      BY <1>1, <1>2, <3>2
  <2> QED
    BY <2>1, <2>2
<1>5. EndsLate(c.out, cur, e) /\ AllSay(c.out, st)
  BY <1>1 DEF Response
<1>6. f \in Frames /\ Tail(c.out) \in Seq(Frames)
  BY <1>2, FrameTail
<1> HIDE DEF c, cur, pub, len, e, st, f, x
<1>7. /\ IsEvent(f) => f.seq = cur + 1 /\ cur + 1 <= b /\ Carries(Tail(c.out), cur + 1, b)
      /\ ~IsEvent(f) => Carries(Tail(c.out), cur, b)
  BY <1>1, <1>2, <1>4, CarriesTail DEF f
<1>8. /\ IsEvent(f) => EndsLate(Tail(c.out), cur + 1, e)
      /\ ~IsEvent(f) => EndsLate(Tail(c.out), cur, e)
      /\ f.st = "settled" => e <= cur /\ st = "settled"
      /\ (IsEvent(f) <=> f.st = "event") /\ AllSay(Tail(c.out), st)
  BY <1>1, <1>2, <1>4, <1>5, EndsLateTail DEF f
<1>9. CASE IsEvent(f)
  <2>1. /\ store' = [store EXCEPT ![r] = @ \cup {f.seq}] /\ cursor' = [cursor EXCEPT ![r] = f.seq]
        /\ conn' = [conn EXCEPT ![r] = x] /\ UNCHANGED <<live, follow>>
    BY <1>9 DEF Receive, TStreams, c, f, x, Took
  <2>2. f.seq = cur + 1
    BY <1>7, <1>9
  <2>3. /\ live' \in [Run -> Status \cup {"none"}] /\ store' \in [Run -> SUBSET Nat] /\ cursor' \in [Run -> Nat]
        /\ follow' \in [Run -> {"none", "connecting", "open", "closed"}]
        /\ \A y \in Run \ {r} : /\ live'[y] = live[y] /\ store'[y] = store[y]
                                 /\ cursor'[y] = cursor[y] /\ follow'[y] = follow[y]
        /\ follow'[r] = "open" /\ cursor'[r] = cur + 1 /\ store'[r] = store[r] \cup {cur + 1}
        /\ live'[r] = live[r]
    BY <1>1, <1>2, <2>1, <2>2 DEF TStreams
  <2>4. x \in Conns /\ Response(x, cur + 1, pub, len, e, st)
    <3>1. /\ b \in Nat /\ b <= len /\ cur + 1 \in Nat /\ Carries(Tail(c.out), cur + 1, b)
          /\ EndsLate(Tail(c.out), cur + 1, e)
      BY <1>1, <1>7, <1>8, <1>9
    <3> QED
      BY <1>1, <1>3, <1>4, <1>6, <1>8, <3>1, TookOne DEF x
  <2>5. TabOK(r)'
    <3>1. store'[r] = 1 .. cur + 1
      BY <1>1, <2>3
    <3>2. cur + 1 <= Len(log'[r]) /\ status' = status
      BY <1>1, <1>4, <1>7, <1>9 DEF server, len
    <3> QED
      BY <1>1, <2>3, <3>1, <3>2 DEF TabOK
  <2>6. Response(x, cursor'[r], Published(r), Len(log[r]), ended[r], status[r])
    BY <2>3, <2>4 DEF pub, len, e, st
  <2> QED
    BY <1>1, <2>1, <2>3, <2>4, <2>5, <2>6, StreamMoves
<1>10. CASE ~IsEvent(f)
  <2>1. /\ live' = [live EXCEPT ![r] = f.st] /\ UNCHANGED <<store, cursor>>
        /\ StreamTerminal(f.st) => /\ follow' = [follow EXCEPT ![r] = "closed"]
                                   /\ conn' = [conn EXCEPT ![r] = Closed]
        /\ ~StreamTerminal(f.st) => conn' = [conn EXCEPT ![r] = x] /\ follow' = follow
    BY <1>10 DEF Receive, TStreams, c, f, x, Took
  <2>2. f.st \in Status
    BY <1>6, <1>8, <1>10 DEF Frames
  <2>3. /\ live' \in [Run -> Status \cup {"none"}] /\ store' \in [Run -> SUBSET Nat] /\ cursor' \in [Run -> Nat]
        /\ follow' \in [Run -> {"none", "connecting", "open", "closed"}]
        /\ \A y \in Run \ {r} : /\ live'[y] = live[y] /\ store'[y] = store[y]
                                 /\ cursor'[y] = cursor[y] /\ follow'[y] = follow[y]
        /\ cursor'[r] = cursor[r] /\ store'[r] = store[r] /\ live'[r] = f.st
        /\ follow'[r] # "open" => StreamTerminal(f.st)
    <3>1. follow' \in [Run -> {"none", "connecting", "open", "closed"}]
      BY <2>1 DEF TStreams
    <3>2. \A y \in Run \ {r} : follow'[y] = follow[y]
      BY <2>1 DEF TStreams
    <3>3. follow'[r] # "open" => StreamTerminal(f.st)
      BY <1>2, <2>1
    <3> QED
      BY <2>1, <2>2, <3>1, <3>2, <3>3 DEF TStreams
  <2>4. TabOK(r)'
    <3>1. live'[r] = "settled" => e <= cur /\ st = "settled"
      BY <1>8, <2>3
    <3> QED
      BY <1>1, <2>3, <3>1 DEF TabOK, server, e, cur, st
  <2>5. CASE StreamTerminal(f.st)
    <3>1. Closed \in Conns /\ Response(Closed, cursor[r], pub, len, e, st)
      BY Reopened DEF len
    <3> QED
      BY <1>1, <2>1, <2>3, <2>4, <2>5, <3>1, StreamMoves DEF pub, len, e, st
  <2>6. CASE ~StreamTerminal(f.st)
    <3>1. x \in Conns /\ Response(x, cur, pub, len, e, st)
      <4>1. /\ b \in Nat /\ b <= len /\ Carries(Tail(c.out), cur, b) /\ EndsLate(Tail(c.out), cur, e)
        BY <1>1, <1>7, <1>8, <1>10
      <4> QED
        BY <1>1, <1>3, <1>4, <1>6, <1>8, <4>1, TookOne DEF x
    <3>2. Response(x, cursor'[r], Published(r), Len(log[r]), ended[r], status[r])
      BY <2>3, <3>1 DEF cur, pub, len, e, st
    <3> QED
      BY <1>1, <2>1, <2>3, <2>4, <2>6, <3>1, <3>2, StreamMoves
  <2> QED
    BY <2>5, <2>6
<1> QED
  BY <1>9, <1>10

-----------------------------------------------------------------------------
(* The steps of several streams.                                           *)

\* The session's detail lists other runs.
LEMMA AttachStreams ==
    ASSUME TServer, TStreams, RInv, NEW list, Attach(list), UNCHANGED <<server, due>>
    PROVE  TStreams' /\ RInv'
<1>1. /\ conn' = [r \in Run |-> IF list[r] = "none" THEN Closed ELSE conn[r]]
      /\ cursor' = [r \in Run |-> IF list[r] # "none" /\ follow[r] = "none" THEN LastSeq(store[r]) ELSE cursor[r]]
      /\ follow' = [r \in Run |-> IF list[r] = "none" THEN "none"
                                  ELSE IF list[r] # "none" /\ follow[r] = "none" THEN "connecting" ELSE follow[r]]
      /\ UNCHANGED <<live, store>>
  BY DEF Attach
<1>2. \A r \in Run : /\ LastSeq(store[r]) = cursor[r] /\ cursor[r] \in Nat /\ cursor[r] <= Len(log[r])
                     /\ Response(Closed, cursor[r], Published(r), Len(log[r]), ended[r], status[r])
                     /\ Closed \in Conns
  BY Reopened
<1>3. cursor' = cursor
  BY <1>1, <1>2 DEF TStreams
<1>4. UNCHANGED <<log, ended, silent, status, due>> /\ DueOK' /\ \A r \in Run : Published(r)' = Published(r)
  BY DEF server, RInv, DueOK, Published
<1>5. TStreams'
  <2>1. conn' \in [Run -> Conns]
    BY <1>1, <1>2 DEF TStreams
  <2>2. follow' \in [Run -> {"none", "connecting", "open", "closed"}]
    BY <1>1 DEF TStreams
  <2> QED
    BY <1>1, <1>3, <1>4, <2>1, <2>2 DEF TStreams
<1>6. ASSUME NEW r \in Run PROVE ConnOK(r)' /\ TabOK(r)' /\ ended'[r] <= Published(r)'
  <2>1. ConnOK(r) /\ TabOK(r) /\ ended[r] <= Published(r)
    BY DEF RInv
  <2>2. follow'[r] = "closed" => follow[r] = "closed"
    BY <1>1
  <2>3. TabOK(r)'
    BY <1>1, <1>3, <1>4, <2>1, <2>2 DEF TabOK
  <2>4. Response(conn'[r], cursor[r], Published(r), Len(log[r]), ended[r], status[r])
    BY <1>1, <1>2, <2>1 DEF ConnOK
  <2>5. follow'[r] # "open" => conn'[r] = Closed
    BY <1>1, <2>1 DEF ConnOK
  <2> QED
    BY <1>3, <1>4, <2>1, <2>3, <2>4, <2>5 DEF ConnOK
<1> QED
  BY <1>4, <1>5, <1>6 DEF RInv

\* A frame is published.
LEMMA PublishStreams ==
    ASSUME TServer, TStreams, RInv, NEW f \in due, Publish(f)
    PROVE  TStreams' /\ RInv'
<1> DEFINE r == f.run  c == conn[r]  cur == cursor[r]  pub == Published(r)  len == Len(log[r])
           e == ended[r]  st == status[r]
<1>1. /\ due' = due \ {f} /\ conn' = [conn EXCEPT ![r] = Hear(@, f)]
      /\ UNCHANGED <<log, ended, silent, status, live, store, follow, cursor>>
  BY DEF Publish, server
<1>2. f \in Frames /\ r \in Run /\ Says(f, st) /\ (IsEvent(f) => f.seq = len /\ silent[r] = 0)
  BY DEF TStreams, Frames, RInv, DueOK
<1>3. /\ c \in Conns /\ cur \in Nat /\ pub \in Nat /\ len \in Nat /\ e \in Nat /\ pub <= len
      /\ Response(c, cur, pub, len, e, st) /\ e <= pub /\ TabOK(r) /\ (follow[r] # "open" => c = Closed)
  BY <1>2, PublishedFacts DEF RInv, ConnOK
<1>4. \A x \in Run \ {r} : Published(x)' = Published(x)
  BY <1>1 DEF Published
<1>5. /\ IsEvent(f) => Published(r)' = len /\ pub = len - 1 /\ pub + 1 = len
      /\ ~IsEvent(f) => Published(r)' = pub
  <2>1. CASE IsEvent(f)
    <3>1. ASSUME NEW g \in due', g.run = r, IsEvent(g) PROVE FALSE
      <4>1. g \in due /\ g # f /\ g \in Frames /\ g.seq = len /\ Says(g, st)
        BY <1>1, <3>1 DEF RInv, DueOK, TStreams
      <4>2. g.st = "event" /\ f.st = "event" /\ f.seq = len
        BY <1>2, <2>1, <3>1, <4>1 DEF Says
      <4> QED
        BY <1>2, <3>1, <4>1, <4>2 DEF Frames
    <3>2. Published(r)' = len
      BY <1>1, <1>2, <1>3, <2>1, <3>1 DEF Published
    <3>3. pub = len - 1
      BY <2>1 DEF Published
    <3> QED
      BY <1>3, <2>1, <3>2, <3>3
  <2>2. CASE ~IsEvent(f)
    BY <1>1, <2>2 DEF Published
  <2> QED
    BY <2>1, <2>2
<1>6. DueOK'
  BY <1>1 DEF RInv, DueOK
<1> HIDE DEF r, c, cur, pub, len, e, st
<1>7. Hear(c, f) \in Conns /\ Response(Hear(c, f), cur, Published(r)', len, e, st) /\ e <= Published(r)'
  <2>1. CASE IsEvent(f)
    <3>1. Response(c, cur, pub, pub + 1, e, st) /\ f.seq = pub + 1
      BY <1>2, <1>3, <1>5, <2>1
    <3>2. Hear(c, f) \in Conns /\ Response(Hear(c, f), cur, pub + 1, pub + 1, e, st)
      BY <1>2, <1>3, <2>1, <3>1, HearEvent
    <3> QED
      BY <1>3, <1>5, <2>1, <3>2
  <2>2. CASE ~IsEvent(f)
    BY <1>2, <1>3, <1>5, <2>2, HearStatus
  <2> QED
    BY <2>1, <2>2
<1>8. follow[r] # "open" => Hear(c, f) = Closed
  <2>1. Hear(Closed, f) = Closed
    BY DEF Hear, Emit, Closed
  <2> QED
    BY <1>3, <2>1
<1>9. conn' \in [Run -> Conns] /\ conn'[r] = Hear(c, f) /\ \A x \in Run \ {r} : conn'[x] = conn[x]
  BY <1>1, <1>2, <1>7 DEF TStreams, r, c
<1>10. TStreams'
  BY <1>1, <1>9 DEF TStreams
<1>11. ConnOK(r)' /\ TabOK(r)' /\ ended'[r] <= Published(r)'
  <2>1. ConnOK(r)'
    BY <1>1, <1>7, <1>8, <1>9 DEF ConnOK, cur, len, e, st
  <2> QED
    BY <1>1, <1>3, <1>7, <2>1 DEF TabOK, e
<1>12. ASSUME NEW x \in Run \ {r} PROVE ConnOK(x)' /\ TabOK(x)' /\ ended'[x] <= Published(x)'
  BY <1>1, <1>4, <1>9 DEF RInv, ConnOK, TabOK
<1> QED
  BY <1>6, <1>10, <1>11, <1>12 DEF RInv

\* An event is written, and is due ...
LEMMA WriteStreams ==
    ASSUME TServer, TStreams, RInv, NEW r \in Run, NEW k \in Event, ~Unpublished(r), silent[r] = 0,
           log' = [log EXCEPT ![r] = Append(@, k)], due' = due \cup {EventFrame(r, Len(log[r]) + 1)},
           UNCHANGED <<status, ended, silent, streams>>
    PROVE  TStreams' /\ RInv'
<1> DEFINE g == EventFrame(r, Len(log[r]) + 1)
<1>1. /\ Len(log'[r]) = Len(log[r]) + 1 /\ \A x \in Run : x # r => log'[x] = log[x]
      /\ \A x \in Run : Len(log[x]) \in Nat /\ DOMAIN log[x] = 1 .. Len(log[x])
      /\ \A x \in Run : DOMAIN log[x] \subseteq DOMAIN log'[x] /\ Len(log[x]) <= Len(log'[x])
      /\ log' \in [Run -> Seq(Event)]
  BY LogMore
<1>2. g \in Frames /\ g.run = r /\ g.seq = Len(log[r]) + 1 /\ g.st = "event" /\ IsEvent(g)
  BY <1>1 DEF EventFrame, Frames, IsEvent
<1> HIDE DEF g
<1>3. \A f \in due : f.run # r /\ f.run \in Run
  BY DEF Unpublished, TStreams, Frames
<1>4. DueOK'
  <2> SUFFICES ASSUME NEW f \in due'
               PROVE  Says(f, status[f.run]) /\ (IsEvent(f) => f.seq = Len(log'[f.run]) /\ silent[f.run] = 0)
    BY DEF DueOK
  <2>1. CASE f \in due
    BY <1>1, <1>3, <2>1 DEF RInv, DueOK
  <2>2. CASE f = g
    BY <1>1, <1>2, <2>2 DEF Says
  <2> QED
    BY <2>1, <2>2 DEF g
<1>5. Published(r) = Len(log[r]) /\ Published(r)' = Len(log[r])
  <2>1. Published(r)' = Len(log'[r]) - 1
    BY <1>2 DEF Published, g
  <2> QED
    BY <1>1, <2>1, PublishedFacts DEF RInv
<1>6. \A x \in Run \ {r} : Published(x)' = Published(x)
  BY <1>1, <1>2 DEF Published, g
<1>7. TStreams'
  <2>1. due' \subseteq Frames
    BY <1>2 DEF TStreams, g
  <2>2. ASSUME NEW x \in Run PROVE store'[x] \subseteq DOMAIN log'[x] /\ cursor'[x] \in 0 .. Len(log'[x])
    <3>1. Len(log'[x]) \in Nat
      BY <1>1
    <3> QED
      BY <1>1, <3>1 DEF TStreams, streams
  <2> QED
    BY <2>1, <2>2 DEF TStreams, streams
<1>8. ASSUME NEW x \in Run PROVE ConnOK(x)' /\ TabOK(x)' /\ ended'[x] <= Published(x)'
  <2>1. /\ Response(conn[x], cursor[x], Published(x), Len(log[x]), ended[x], status[x])
        /\ (follow[x] # "open" => conn[x] = Closed) /\ TabOK(x) /\ ended[x] <= Published(x)
    BY DEF RInv, ConnOK
  <2>2. Published(x)' = Published(x)
    BY <1>5, <1>6
  <2>3. Response(conn[x], cursor[x], Published(x), Len(log'[x]), ended[x], status[x])
    <3>1. CASE x = r
      <4>1. conn[r] \in Conns /\ Published(r) \in Nat /\ Len(log[r]) \in Nat
        BY PublishedFacts DEF RInv
      <4> QED
        BY <1>1, <2>1, <3>1, <4>1, ResponseLonger
    <3>2. CASE x # r
      BY <1>1, <2>1, <3>2
    <3> QED
      BY <3>1, <3>2
  <2>4. cursor[x] <= Len(log'[x])
    <3>1. Len(log[x]) \in Nat /\ Len(log'[x]) \in Nat /\ cursor[x] \in Nat
      BY <1>1 DEF TStreams
    <3> QED
      BY <1>1, <2>1, <3>1 DEF TabOK
  <2>5. UNCHANGED <<conn, live, store, follow, cursor, ended, silent, status>>
    BY DEF streams
  <2> QED
    BY <2>1, <2>2, <2>3, <2>4, <2>5 DEF ConnOK, TabOK
<1> QED
  BY <1>4, <1>7, <1>8 DEF RInv

\* ... or is published to nobody, at the end of a run that is over.
LEMMA DrainStreams ==
    ASSUME TServer, TStreams, RInv, NEW r \in Run, NEW k \in Event, ~Unpublished(r),
           log' = [log EXCEPT ![r] = Append(@, k)], silent' = [silent EXCEPT ![r] = @ + 1],
           UNCHANGED <<due, status, ended, streams>>
    PROVE  TStreams' /\ RInv'
<1>1. /\ Len(log'[r]) = Len(log[r]) + 1 /\ \A x \in Run : x # r => log'[x] = log[x]
      /\ \A x \in Run : Len(log[x]) \in Nat /\ DOMAIN log[x] = 1 .. Len(log[x])
      /\ \A x \in Run : DOMAIN log[x] \subseteq DOMAIN log'[x] /\ Len(log[x]) <= Len(log'[x])
      /\ log' \in [Run -> Seq(Event)]
  BY LogMore
<1>2. silent'[r] = silent[r] + 1 /\ silent[r] \in Nat /\ \A x \in Run \ {r} : silent'[x] = silent[x]
  BY DEF TServer
<1>3. UNCHANGED <<conn, live, store, follow, cursor, due, status, ended>>
  BY DEF streams
<1>4. \A f \in due : f.run # r /\ f.run \in Run
  BY DEF Unpublished, TStreams, Frames
<1>5. DueOK'
  BY <1>1, <1>2, <1>3, <1>4 DEF RInv, DueOK
<1>6. Published(r)' = Published(r)
  BY <1>1, <1>2, <1>3, <1>4 DEF Published
<1>7. \A x \in Run : Published(x)' = Published(x)
  BY <1>1, <1>2, <1>3, <1>6 DEF Published
<1>8. TStreams'
  <2>1. ASSUME NEW x \in Run PROVE store'[x] \subseteq DOMAIN log'[x] /\ cursor'[x] \in 0 .. Len(log'[x])
    <3>1. Len(log'[x]) \in Nat
      BY <1>1
    <3> QED
      BY <1>1, <1>3, <3>1 DEF TStreams
  <2> QED
    BY <1>3, <2>1 DEF TStreams
<1>9. ASSUME NEW x \in Run PROVE ConnOK(x)' /\ TabOK(x)' /\ ended'[x] <= Published(x)'
  <2>1. /\ Response(conn[x], cursor[x], Published(x), Len(log[x]), ended[x], status[x])
        /\ (follow[x] # "open" => conn[x] = Closed) /\ TabOK(x) /\ ended[x] <= Published(x)
    BY DEF RInv, ConnOK
  <2>2. Response(conn[x], cursor[x], Published(x), Len(log'[x]), ended[x], status[x])
    <3>1. CASE x = r
      <4>1. conn[r] \in Conns /\ Published(r) \in Nat /\ Len(log[r]) \in Nat
        BY PublishedFacts DEF RInv
      <4> QED
        BY <1>1, <2>1, <3>1, <4>1, ResponseLonger
    <3>2. CASE x # r
      BY <1>1, <2>1, <3>2
    <3> QED
      BY <3>1, <3>2
  <2>3. cursor[x] <= Len(log'[x])
    <3>1. Len(log[x]) \in Nat /\ Len(log'[x]) \in Nat /\ cursor[x] \in Nat
      BY <1>1 DEF TStreams
    <3> QED
      BY <1>1, <2>1, <3>1 DEF TabOK
  <2> QED
    BY <1>3, <1>7, <2>1, <2>2, <2>3 DEF ConnOK, TabOK
<1> QED
  BY <1>5, <1>8, <1>9 DEF RInv

\* A run ends, everything it wrote published.
LEMMA FinishStreams ==
    ASSUME TServer, TStreams, RInv, NEW r \in Run, TailFinish(r), silent[r] = 0
    PROVE  TStreams' /\ RInv'
<1>1. PICK st \in {"waiting", "settled"} :
         /\ status' = [status EXCEPT ![r] = st] /\ due' = due \cup {StatusFrame(r, st)}
  BY DEF TailFinish
<1>2. /\ status[r] = "running" /\ ~Unpublished(r) /\ ended' = [ended EXCEPT ![r] = Len(log[r])]
      /\ UNCHANGED <<log, silent, streams>>
  BY DEF TailFinish, Settleable
<1> DEFINE g == StatusFrame(r, st)
<1>3. g \in Frames /\ g.run = r /\ ~IsEvent(g) /\ g.st = st /\ g.st # "event"
  BY DEF StatusFrame, Frames, IsEvent, Status, Holding
<1> HIDE DEF g
<1>4. /\ status'[r] = st /\ ended'[r] = Len(log[r])
      /\ \A x \in Run \ {r} : status'[x] = status[x] /\ ended'[x] = ended[x]
      /\ \A x \in Run : status[x] = "settled" => status'[x] = "settled"
  BY <1>1, <1>2 DEF TServer
<1>5. DueOK'
  <2> SUFFICES ASSUME NEW f \in due'
               PROVE  Says(f, status'[f.run]) /\ (IsEvent(f) => f.seq = Len(log[f.run]) /\ silent[f.run] = 0)
    BY <1>2 DEF DueOK
  <2>1. CASE f \in due
    <3>1. f.run \in Run
      BY <2>1 DEF TStreams, Frames
    <3> QED
      BY <1>4, <2>1, <3>1 DEF RInv, DueOK, Says
  <2>2. CASE f = g
    BY <1>3, <1>4, <2>2 DEF Says
  <2> QED
    BY <1>1, <2>1, <2>2 DEF g
<1>6. \A x \in Run : Published(x)' = Published(x)
  <2>1. ASSUME NEW x \in Run
        PROVE  (\E f \in due' : f.run = x /\ IsEvent(f)) <=> (\E f \in due : f.run = x /\ IsEvent(f))
    BY <1>1, <1>3 DEF g
  <2> QED
    BY <1>2, <2>1 DEF Published
<1>7. TStreams'
  BY <1>1, <1>2, <1>3 DEF TStreams, streams, g
<1>8. ASSUME NEW x \in Run PROVE ConnOK(x)' /\ TabOK(x)' /\ ended'[x] <= Published(x)'
  <2>1. /\ Response(conn[x], cursor[x], Published(x), Len(log[x]), ended[x], status[x])
        /\ (follow[x] # "open" => conn[x] = Closed) /\ TabOK(x) /\ ended[x] <= Published(x)
    BY DEF RInv, ConnOK
  <2>2. UNCHANGED <<conn, live, store, follow, cursor, log>>
    BY <1>2 DEF streams
  <2>3. CASE x = r
    <3>1. Response(conn[r], cursor[r], Published(r), Len(log[r]), Len(log[r]), "running")
      BY <1>2, <2>1, <2>3, ResponseEnded
    <3>2. Response(conn[r], cursor[r], Published(r), Len(log[r]), Len(log[r]), st)
      BY <3>1, ResponseStatus
    <3>3. Published(r) = Len(log[r]) /\ Len(log[r]) \in Nat
      BY <1>2, PublishedFacts DEF RInv
    <3>4. live[r] # "settled"
      BY <1>2, <2>1, <2>3 DEF TabOK
    <3>5. ConnOK(r)'
      BY <1>4, <1>6, <2>1, <2>2, <2>3, <3>2 DEF ConnOK
    <3>6. TabOK(r)'
      BY <2>1, <2>2, <2>3, <3>4 DEF TabOK
    <3> QED
      BY <1>4, <1>6, <2>3, <3>3, <3>5, <3>6
  <2>4. CASE x # r
    BY <1>4, <1>6, <2>1, <2>2, <2>4 DEF ConnOK, TabOK
  <2> QED
    BY <2>3, <2>4
<1> QED
  BY <1>5, <1>7, <1>8 DEF RInv

\* A restart closes every connection and forgets what was due.
LEMMA CrashStreams ==
    ASSUME TServer, TStreams, RInv, Crash
    PROVE  TStreams' /\ RInv'
<1>1. /\ due' = {} /\ conn' = [r \in Run |-> Closed]
      /\ follow' = [r \in Run |-> IF follow[r] = "open" THEN "connecting" ELSE follow[r]]
      /\ UNCHANGED <<status, log, ended, silent, live, store, cursor>>
  BY DEF Crash
<1>2. \A r \in Run : Published(r)' = Len(log[r]) - silent[r]
  BY <1>1 DEF Published
<1>3. Closed \in Conns
  <2>1. <<>> \in Seq(Frames)
    OBVIOUS
  <2> QED
    BY <2>1, ClosedConn
<1>4. TStreams'
  <2>1. follow' \in [Run -> {"none", "connecting", "open", "closed"}]
    BY <1>1 DEF TStreams
  <2> QED
    BY <1>1, <1>3, <2>1 DEF TStreams
<1>5. ASSUME NEW r \in Run PROVE ConnOK(r)' /\ TabOK(r)' /\ ended'[r] <= Published(r)'
  <2>1. /\ TabOK(r) /\ ended[r] <= Published(r) /\ Published(r) <= Len(log[r]) - silent[r] /\ Published(r) \in Nat
        /\ ended[r] \in Nat /\ Len(log[r]) \in Nat /\ cursor[r] \in Nat /\ silent[r] \in Nat
    BY PublishedFacts DEF RInv
  <2>2. Response(Closed, cursor[r], Len(log[r]) - silent[r], Len(log[r]), ended[r], status[r])
    BY <2>1, ClosedResponds DEF TabOK
  <2>3. conn'[r] = Closed /\ follow'[r] # "open" /\ (follow'[r] = "closed" => follow[r] = "closed")
    BY <1>1
  <2>4. ConnOK(r)'
    BY <1>1, <1>2, <2>2, <2>3 DEF ConnOK
  <2>5. TabOK(r)'
    BY <1>1, <2>1, <2>3 DEF TabOK
  <2> QED
    BY <1>1, <1>2, <2>1, <2>4, <2>5
<1>6. DueOK'
  BY <1>1 DEF DueOK
<1> QED
  BY <1>4, <1>5, <1>6 DEF RInv

-----------------------------------------------------------------------------
(* Every step keeps the streams' invariant.                                *)

\* A status frame is one, and it says what the row says.
LEMMA StatusFrames ==
    ASSUME NEW r \in Run, NEW st \in Status
    PROVE  LET g == StatusFrame(r, st) IN
           g \in Frames /\ ~IsEvent(g) /\ g.run = r /\ Says(g, st)
  BY DEF StatusFrame, Frames, IsEvent, Says, Status, Holding

\* The next run is not settled: it is none.
LEMMA NextIsNone ==
    ASSUME TServer, Numbered
    PROVE  NextRun \in Run => status[NextRun] = "none"
  BY CountUsed DEF Numbered, Used

\* The steps of the tails and of boot.
LEMMA TailStreams ==
    ASSUME IInv, NEW r \in Run, \/ TailStart(r) \/ TailFinish(r) \/ Reconcile(r) \/ \E k \in Event : TailEvent(r, k)
    PROVE  TStreams' /\ RInv'
<1>1. TServer /\ TStreams /\ RInv /\ Adopting /\ (status[r] = "running" => silent[r] = 0)
  BY TypeParts DEF IInv, SInv, Quiet
<1>2. CASE TailStart(r)
  <2>1. /\ UNCHANGED <<log, ended, silent, streams>> /\ status[r] = "queued"
        /\ status' = [status EXCEPT ![r] = "running"] /\ due' = due \cup {StatusFrame(r, "running")}
    BY <1>2 DEF TailStart
  <2>2. LET g == StatusFrame(r, "running") IN g \in Frames /\ ~IsEvent(g) /\ g.run = r /\ Says(g, "running")
    BY StatusFrames, StatusTypes
  <2>3. status'[r] = "running" /\ \A x \in Run : status[x] = "settled" => status'[x] = "settled"
    BY <1>1, <2>1 DEF TServer
  <2>4. \A f \in due' : f \in due \/ (f \in Frames /\ ~IsEvent(f) /\ Says(f, status'[f.run]))
    BY <2>1, <2>2, <2>3
  <2> QED
    BY <1>1, <2>1, <2>3, <2>4, StreamsStay
<1>3. CASE Reconcile(r)
  <2>1. UNCHANGED <<log, ended, silent, streams>> /\ status[r] # "settled" /\ status' \in {[status EXCEPT ![r] = s] : s \in Status}
    BY <1>1, <1>3, StatusTypes DEF Reconcile, Adopting
  <2>2. \A x \in Run : status[x] = "settled" => status'[x] = "settled"
    BY <1>1, <2>1 DEF TServer
  <2>3. \/ due' = due
        \/ due' = due \cup {StatusFrame(r, "running")} /\ status'[r] = "running"
    BY <1>1, <1>3 DEF Reconcile, TServer
  <2>4. LET g == StatusFrame(r, "running") IN g \in Frames /\ ~IsEvent(g) /\ g.run = r /\ Says(g, "running")
    BY StatusFrames, StatusTypes
  <2>5. \A f \in due' : f \in due \/ (f \in Frames /\ ~IsEvent(f) /\ Says(f, status'[f.run]))
    BY <2>3, <2>4
  <2> QED
    BY <1>1, <2>1, <2>2, <2>3, <2>5, StreamsStay
<1>4. ASSUME NEW k \in Event, TailEvent(r, k) PROVE TStreams' /\ RInv'
  <2>1. /\ ~Unpublished(r) /\ silent[r] = 0 /\ log' = [log EXCEPT ![r] = Append(@, k)]
        /\ due' = due \cup {EventFrame(r, Len(log[r]) + 1)} /\ UNCHANGED <<status, ended, silent, streams>>
    BY <1>1, <1>4 DEF TailEvent
  <2> QED
    BY <1>1, <2>1, WriteStreams
<1>5. CASE TailFinish(r)
  BY <1>1, <1>5, FinishStreams DEF TailFinish, Settleable
<1> QED
  BY <1>2, <1>3, <1>4, <1>5

\* The steps of what the tab sends.
LEMMA SendStreams ==
    ASSUME IInv, \/ Submit \/ FlushQueue \/ RetryEnds \/ HandlePost \/ Dispatch \/ LosePost \/ PostReply
                 \/ \E m \in Msg : RemoveQueued(m)
    PROVE  TStreams' /\ RInv'
<1>1. TServer /\ TStreams /\ RInv /\ Numbered
  BY TypeParts DEF IInv, SInv
<1>2. ASSUME UNCHANGED <<log, ended, silent, streams, due>>,
             \A x \in Run : status[x] = "settled" => status'[x] = "settled"
      PROVE  TStreams' /\ RInv'
  BY <1>1, <1>2, StreamsStay
<1>3. CASE Submit \/ FlushQueue \/ RetryEnds \/ LosePost \/ \E m \in Msg : RemoveQueued(m)
  <2>1. UNCHANGED <<server, streams, due>>
    BY <1>3 DEF Submit, FlushQueue, RetryEnds, LosePost, RemoveQueued
  <2> QED
    BY <1>2, <2>1 DEF server
<1>4. CASE HandlePost
  <2>1. UNCHANGED <<log, ended, silent, streams, due>> /\ (status' = status \/ status' = [status EXCEPT ![NextRun] = "queued"])
    BY <1>4 DEF HandlePost
  <2>2. \A x \in Run : status[x] = "settled" => status'[x] = "settled"
    BY <1>1, <2>1, NextIsNone DEF TServer
  <2> QED
    BY <1>2, <2>1, <2>2
<1>5. CASE Dispatch
  <2>1. UNCHANGED <<log, ended, silent, streams, due>> /\ (status' = status \/ status' = [status EXCEPT ![post.run] = "settled"])
    BY <1>5 DEF Dispatch
  <2>2. \A x \in Run : status[x] = "settled" => status'[x] = "settled"
    BY <1>1, <2>1 DEF TServer
  <2> QED
    BY <1>2, <2>1, <2>2
<1>6. CASE PostReply
  <2>1. UNCHANGED <<server, due>>
    BY <1>6 DEF PostReply
  <2>2. CASE Accepted
    BY <1>1, <2>1, <2>2, AttachStreams DEF Accepted
  <2>3. CASE Busy \/ Refused
    <3>1. UNCHANGED streams
      BY <2>3 DEF Busy, Refused
    <3> QED
      BY <1>2, <2>1, <3>1 DEF server
  <2> QED
    BY <1>6, <2>2, <2>3 DEF PostReply
<1> QED
  BY <1>3, <1>4, <1>5, <1>6

\* Requests about a run, and the other tab.
LEMMA AskStreams ==
    ASSUME IInv, \/ HandleStop \/ HandleAnswer \/ AskedReply \/ FetchApply \/ LoseAsked \/ OtherTab
                 \/ \E r \in Run : ClickStop(r) \/ Answer(r) \/ Resumed(r)
    PROVE  TStreams' /\ RInv'
<1>1. TServer /\ TStreams /\ RInv /\ Numbered /\ TTab
  BY TypeParts DEF IInv, SInv
<1>2. \A r \in Run : LET g == StatusFrame(r, "settled") IN
                     g \in Frames /\ ~IsEvent(g) /\ g.run = r /\ Says(g, "settled")
  BY StatusFrames, StatusTypes
<1>3. ASSUME UNCHANGED <<log, ended, silent, streams, due>>,
             \A x \in Run : status[x] = "settled" => status'[x] = "settled"
      PROVE  TStreams' /\ RInv'
  BY <1>1, <1>3, StreamsStay
<1>4. ASSUME NEW r \in Run, UNCHANGED <<log, ended, silent, streams>>, status' = [status EXCEPT ![r] = "settled"],
             due' = due \cup {StatusFrame(r, "settled")}
      PROVE  TStreams' /\ RInv'
  <2>1. status'[r] = "settled" /\ \A x \in Run : status[x] = "settled" => status'[x] = "settled"
    BY <1>1, <1>4 DEF TServer
  <2>2. \A f \in due' : f \in due \/ (f \in Frames /\ ~IsEvent(f) /\ Says(f, status'[f.run]))
    BY <1>2, <1>4, <2>1
  <2> QED
    BY <1>1, <1>4, <2>1, <2>2, StreamsStay
<1>5. CASE HandleStop
  <2>1. asked.run \in Run /\ UNCHANGED <<log, ended, silent, streams>>
    BY <1>1, <1>5 DEF HandleStop, TTab
  <2>2. \/ status' = [status EXCEPT ![asked.run] = "settled"] /\ due' = due \cup {StatusFrame(asked.run, "settled")}
        \/ UNCHANGED <<status, due>>
    BY <1>5 DEF HandleStop, StopRun
  <2> QED
    BY <1>3, <1>4, <2>1, <2>2
<1>6. CASE HandleAnswer
  <2>1. /\ UNCHANGED <<log, ended, silent, streams, due>>
        /\ \/ status' = status
           \/ status[asked.run] = "waiting" /\ \E s \in Status : status' = [status EXCEPT ![asked.run] = s]
    BY <1>6, StatusTypes DEF HandleAnswer
  <2>2. \A x \in Run : status[x] = "settled" => status'[x] = "settled"
    BY <1>1, <2>1 DEF TServer
  <2> QED
    BY <1>3, <2>1, <2>2
<1>7. CASE AskedReply \/ \E r \in Run : Resumed(r)
  <2>1. UNCHANGED <<server, due>> /\ (UNCHANGED streams \/ \E r \in Run : Reopen(r))
    BY <1>7 DEF AskedReply, Resumed
  <2> QED
    BY <1>1, <1>3, <2>1, OpensStreams DEF server
<1>8. CASE FetchApply
  BY <1>1, <1>8, AttachStreams DEF FetchApply
<1>9. CASE LoseAsked \/ \E r \in Run : ClickStop(r) \/ Answer(r)
  <2>1. UNCHANGED <<server, due, streams>>
    BY <1>9 DEF LoseAsked, ClickStop, Answer, Ask
  <2> QED
    BY <1>3, <2>1 DEF server
<1>10. CASE OtherTab
  <2>1. UNCHANGED <<log, ended, silent, streams>>
    BY <1>10 DEF OtherTab
  <2>2. CASE status' = [status EXCEPT ![NextRun] = "queued"] /\ UNCHANGED due
    <3>1. \A x \in Run : status[x] = "settled" => status'[x] = "settled"
      BY <1>1, <2>2, NextIsNone DEF TServer
    <3> QED
      BY <1>3, <2>1, <2>2, <3>1
  <2>3. ASSUME NEW r \in Run, status[r] = "waiting", status' = [status EXCEPT ![r] = "queued"], due' = due
        PROVE  TStreams' /\ RInv'
    <3>1. \A x \in Run : status[x] = "settled" => status'[x] = "settled"
      BY <1>1, <2>3 DEF TServer
    <3> QED
      BY <1>3, <2>1, <2>3, <3>1
  <2>4. ASSUME NEW r \in Run, status' = [status EXCEPT ![r] = "settled"], due' = due \cup {StatusFrame(r, "settled")}
        PROVE  TStreams' /\ RInv'
    BY <1>4, <2>1, <2>4
  <2> QED
    BY <1>10, <2>2, <2>3, <2>4 DEF OtherTab
<1> QED
  BY <1>5, <1>6, <1>7, <1>8, <1>9, <1>10

\* The rest.
LEMMA StreamsKept ==
    ASSUME IInv, [Next]_vars
    PROVE  TStreams' /\ RInv'
<1>1. TServer /\ TStreams /\ RInv
  BY TypeParts DEF IInv
<1>2. CASE Observe
  <2>1. winding \in Run /\ "stopped" \in Event /\ silent[winding] = 0
    BY <1>1, <1>2 DEF Observe, TServer, Event, IInv, Quiet
  <2>2. /\ ~Unpublished(winding) /\ log' = [log EXCEPT ![winding] = Append(@, "stopped")]
        /\ due' = due \cup {EventFrame(winding, Len(log[winding]) + 1)} /\ UNCHANGED <<status, ended, silent, streams>>
    BY <1>2 DEF Observe
  <2> QED
    BY <1>1, <2>1, <2>2, WriteStreams
<1>3. CASE ContextControl
  <2>1. Cardinality(Used) \in Run /\ "text" \in Event
    BY <1>1, <1>3, NewestRun DEF ContextControl, Event, IInv, SInv, Used
  <2>2. LET r == Cardinality(Used) IN
        /\ ~Unpublished(r) /\ log' = [log EXCEPT ![r] = Append(@, "text")]
        /\ silent' = [silent EXCEPT ![r] = @ + 1] /\ UNCHANGED <<due, status, ended, streams>>
    BY <1>3 DEF ContextControl
  <2> QED
    BY <1>1, <2>1, <2>2, DrainStreams
<1>4. ASSUME NEW r \in Run, Connect(r) \/ Drop(r) PROVE TStreams' /\ RInv'
  <2>1. UNCHANGED <<server, due>>
    BY <1>4 DEF Connect, Drop
  <2> QED
    BY <1>1, <1>4, <2>1, OpensStreams
<1>5. CASE UNCHANGED vars
  <2>1. UNCHANGED <<log, ended, silent, streams, due, status>>
    BY <1>5 DEF vars, server
  <2> QED
    BY <1>1, <2>1, StreamsStay
<1>6. CASE System
  BY <1>1, <1>2, <1>4, <1>6, TailStreams, PublishStreams, ServesStreams, ReceivesStream, SendStreams, AskStreams DEF System
<1>7. CASE Environment
  BY <1>1, <1>3, <1>4, <1>7, CrashStreams, SendStreams, AskStreams DEF Environment
<1> QED
  BY <1>5, <1>6, <1>7 DEF Next

\* Only the newest run gets an event nobody is told of, when it is over and its
\* turn is wound down, and no step takes a run back from there.
LEMMA QuietKept ==
    ASSUME IInv, [Next]_vars
    PROVE  Quiet'
<1>1. TServer /\ TTab /\ Quiet /\ Numbered /\ Adopting /\ 0 \notin Run
  BY TypeParts DEF IInv, SInv, Run
<1>2. ASSUME silent' = silent, winding' = winding \/ winding' = 0 \/ status[winding'] # "settled",
             \A x \in Run : status[x] = "settled" => status'[x] = "settled"
      PROVE  Quiet'
  BY <1>1, <1>2 DEF Quiet
<1>3. ASSUME UNCHANGED <<silent, winding>>, NEW r, status[r] # "settled", NEW st,
             status' = [status EXCEPT ![r] = st]
      PROVE  Quiet'
  <2>1. \A x \in Run : status[x] = "settled" => status'[x] = "settled"
    BY <1>1, <1>3 DEF TServer
  <2> QED
    BY <1>2, <1>3, <2>1
<1>4. ASSUME UNCHANGED <<silent, status>>, winding' = winding \/ winding' = 0
      PROVE  Quiet'
  BY <1>2, <1>4
<1>5. ASSUME NEW r \in Run, TailStart(r) \/ TailFinish(r) \/ Reconcile(r) PROVE Quiet'
  <2>1. UNCHANGED <<silent, winding>> /\ status[r] # "settled" /\ \E st : status' = [status EXCEPT ![r] = st]
    BY <1>1, <1>5 DEF TailStart, TailFinish, Settleable, Reconcile, Adopting
  <2> QED
    BY <1>3, <2>1
<1>6. ASSUME \/ Observe \/ Crash \/ \E r \in Run, k \in Event : TailEvent(r, k)
      PROVE  Quiet'
  BY <1>4, <1>6 DEF Observe, Crash, TailEvent
<1>7. ASSUME \/ \E f \in due : Publish(f)
             \/ \E r \in Run : Connect(r) \/ ReadEvents(r) \/ Flush(r) \/ ReadStatus(r) \/ Snapshot(r) \/ Receive(r)
             \/ \E r \in Run : ClickStop(r) \/ Answer(r) \/ Resumed(r) \/ Drop(r)
             \/ FlushQueue \/ RetryEnds \/ PostReply \/ AskedReply \/ FetchApply
             \/ Submit \/ LosePost \/ LoseAsked \/ \E m \in Msg : RemoveQueued(m)
      PROVE  Quiet'
  <2>1. UNCHANGED server
    BY <1>7 DEF Publish, Connect, ReadEvents, Flush, ReadStatus, Snapshot, Receive, ClickStop, Answer, Ask,
                Resumed, Drop, FlushQueue, RetryEnds, PostReply, AskedReply, FetchApply, Submit, LosePost,
                LoseAsked, RemoveQueued
  <2> QED
    BY <1>4, <2>1 DEF server
<1>8. CASE HandlePost \/ OtherTab
  <2>1. NextRun \in Run => status[NextRun] # "settled"
    BY <1>1, NextIsNone
  <2>2. \A x \in Run : status[x] = "settled" => status'[x] = "settled"
    <3>1. \/ status' = status
          \/ status' = [status EXCEPT ![NextRun] = "queued"]
          \/ \E r \in Run : status[r] = "waiting" /\ \E st : status' = [status EXCEPT ![r] = st]
      BY <1>8 DEF HandlePost, OtherTab
    <3> QED
      BY <1>1, <2>1, <3>1 DEF TServer
  <2> QED
    BY <1>2, <1>8, <2>2 DEF HandlePost, OtherTab
<1>9. CASE Dispatch
  <2>1. /\ UNCHANGED <<silent, winding>>
        /\ status' = status \/ status' = [status EXCEPT ![post.run] = "settled"]
    BY <1>9 DEF Dispatch
  <2>2. \A x \in Run : status[x] = "settled" => status'[x] = "settled"
    BY <1>1, <2>1 DEF TServer
  <2> QED
    BY <1>2, <2>1, <2>2
<1>10. CASE HandleStop
  <2>1. /\ silent' = silent
        /\ \/ /\ status' = [status EXCEPT ![asked.run] = "settled"]
              /\ winding' = IF status[asked.run] = "running" THEN asked.run ELSE winding
           \/ UNCHANGED <<status, winding>>
    BY <1>10 DEF HandleStop, StopRun
  <2>2. \A x \in Run : status[x] = "settled" => status'[x] = "settled"
    BY <1>1, <2>1 DEF TServer
  <2>3. winding' = winding \/ status[winding'] # "settled"
    BY <2>1
  <2> QED
    BY <1>2, <2>1, <2>2, <2>3
<1>11. CASE HandleAnswer
  <2>1. /\ UNCHANGED <<silent, winding>>
        /\ status' = status \/ (status[asked.run] = "waiting" /\ \E st : status' = [status EXCEPT ![asked.run] = st])
    BY <1>11 DEF HandleAnswer
  <2> QED
    BY <1>3, <1>4, <2>1
<1>12. CASE ContextControl
  <2> DEFINE r == Cardinality(Used)
  <2>1. r \in Used /\ status[r] = "settled" /\ winding = 0 /\ UNCHANGED <<status, winding>>
    BY <1>1, <1>12, NewestRun DEF ContextControl, Idle
  <2>2. silent' = [silent EXCEPT ![r] = silent[r] + 1]
    BY <1>12 DEF ContextControl
  <2>3. \A x \in Run : x # r => silent'[x] = silent[x]
    BY <1>1, <2>2 DEF TServer
  <2> HIDE DEF r
  <2> QED
    BY <1>1, <2>1, <2>3 DEF Quiet
<1>13. CASE UNCHANGED vars
  BY <1>4, <1>13 DEF vars, server
<1> QED
  BY <1>5, <1>6, <1>7, <1>8, <1>9, <1>10, <1>11, <1>12, <1>13 DEF Next, System, Environment

\* The server's rows and what the tab shows keep their types.
LEMMA TypesKept ==
    ASSUME IInv, [Next]_vars
    PROVE  TServer' /\ TTab'
<1>1. CASE System
  BY <1>1, TailTypes, WritesTypes, SendTypes, AskTypes, ClientTypes DEF System
<1>2. CASE Environment
  BY <1>2, WritesTypes, SendTypes, AskTypes, ClientTypes DEF Environment
<1>3. CASE UNCHANGED vars
  BY <1>3, ClientTypes
<1> QED
  BY <1>1, <1>2, <1>3 DEF Next

-----------------------------------------------------------------------------
(* What the tab sends.                                                     *)

\* The runs a message is in.
LEMMA SentRuns ==
    ASSUME TServer, Numbered, NEW m \in Nat
    PROVE  /\ SentWith(m) \subseteq Used /\ (m \notin 1 .. typed => SentWith(m) = {})
           /\ Cardinality({}) = 0
<1>1. \A r \in Run : m \in ToSet(body[r]) => m \in 1 .. typed /\ r \in Used
  BY DEF Numbered
<1> QED
  BY <1>1, FS_EmptySet DEF SentWith

\* No run begins, and the bound on their number holds.
LEMMA NumberedStays ==
    ASSUME TypeOK, Numbered, Used' = Used, body' = body, bound' = bound, acts' \in Nat, acts <= acts',
           typed' \in Nat, typed <= typed'
    PROVE  Numbered'
<1>1. Sent' = Sent
  BY DEF Sent, SentWith
<1>2. Used = 1 .. Cardinality(Used) /\ Cardinality(Used) \in Nat
  BY CountUsed, TypeParts DEF Numbered
<1>3. Cardinality(Sent) \in Nat /\ acts \in Nat /\ typed \in Nat
  BY CountSent, TypeParts, BoundFacts DEF TTab
<1>4. Cardinality(Used) <= Cardinality(Sent) + IF "other" \in bound.kinds THEN acts' ELSE 0
  <2>1. CASE "other" \in bound.kinds
    BY <1>2, <1>3, <2>1 DEF Numbered
  <2>2. CASE "other" \notin bound.kinds
    BY <1>2, <1>3, <2>2 DEF Numbered
  <2> QED
    BY <2>1, <2>2
<1>5. \A r \in Run : ToSet(body[r]) \subseteq 1 .. typed' /\ (ToSet(body[r]) # {} => r \in Used)
  <2>1. 1 .. typed \subseteq 1 .. typed'
    BY <1>3
  <2>2. \A r \in Run : ToSet(body[r]) \subseteq 1 .. typed /\ (ToSet(body[r]) # {} => r \in Used)
    BY DEF Numbered
  <2> QED
    BY <2>1, <2>2
<1> QED
  BY <1>1, <1>2, <1>4, <1>5 DEF Numbered

\* The message on its way is where it was, or has lost its chance.
SamePost ==
    \/ post' = post
    \/ /\ post # None /\ post' # None
       /\ post'.via = post.via /\ post'.msgs = post.msgs /\ post'.run = post.run
       /\ post'.stage \in {"dispatching", "ok"} => post.stage \in {"dispatching", "ok"}
       /\ post'.stage \in {"sent", "busy"} => post.stage \in {"sent", "busy"}

\* A step of the server, of a stream, or of the network.
LEMMA SendingStays ==
    ASSUME SInv, UNCHANGED <<typed, queue, box, gone, bounced, body>>, Used \subseteq Used',
           Numbered', Adopting', SamePost
    PROVE  SInv'
<1>1. /\ InFlight' = InFlight /\ Fresh' \subseteq Fresh /\ (IsPending' <=> IsPending)
      /\ ToSet(queue)' = ToSet(queue) /\ \A m : SentWith(m)' = SentWith(m)
  BY DEF SamePost, InFlight, Fresh, IsPending, SentWith
<1>2. PostOK'
  BY <1>1 DEF SInv, PostOK, SamePost, IsPending
<1>3. Waiting'
  BY <1>1 DEF SInv, Waiting
<1>4. NoMessageLost'
  BY <1>1 DEF SInv, NoMessageLost
<1>5. SentInOrder'
  BY <1>1 DEF SInv, SentInOrder
<1> QED
  BY <1>2, <1>3, <1>4, <1>5 DEF SInv

\* ... which keeps the types too.
LEMMA SendingTypes ==
    ASSUME TSending, UNCHANGED <<bound, sending>>
    PROVE  TSending'
  BY DEF TSending, sending

\* Nothing changes but what the streams and the bus do.
LEMMA StreamSends ==
    ASSUME IInv, TTab', UNCHANGED <<bound, status, body, orphan, sending>>, acts <= acts'
    PROVE  TSending' /\ SInv'
<1>1. TypeOK /\ TSending /\ Numbered /\ Adopting /\ SInv /\ TServer
  BY TypeParts DEF IInv, SInv
<1>2. UNCHANGED <<typed, queue, post, box, gone, bounced, body>> /\ Used' = Used
  BY SameRuns DEF sending
<1>3. acts' \in Nat /\ typed \in Nat
  <2>1. bound' = bound /\ acts' \in 0 .. bound'.acts
    BY DEF TTab
  <2> QED
    BY <1>1, <2>1, CountSent, BoundFacts
<1>4. Numbered'
  BY <1>1, <1>2, <1>3, NumberedStays
<1>5. Adopting'
  BY <1>1, <1>2 DEF Adopting, IsPending
<1> QED
  BY <1>1, <1>2, <1>4, <1>5, SendingStays, SendingTypes DEF SamePost

-----------------------------------------------------------------------------
(* The steps that send nothing.                                            *)

\* A row changes, no run begins, and what is on its way stays.
LEMMA RowChanges ==
    ASSUME IInv, TTab', UNCHANGED <<bound, body, sending>>, acts <= acts', Used' = Used, Adopting'
    PROVE  TSending' /\ SInv'
<1>1. TypeOK /\ TSending /\ Numbered /\ SInv /\ TServer
  BY TypeParts DEF IInv, SInv
<1>2. acts' \in Nat /\ typed \in Nat /\ UNCHANGED <<typed, queue, post, box, gone, bounced, body>>
  <2>1. bound' = bound /\ acts' \in 0 .. bound'.acts
    BY DEF TTab
  <2> QED
    BY <1>1, <2>1, CountSent, BoundFacts DEF sending
<1>3. Numbered'
  BY <1>1, <1>2, NumberedStays
<1> QED
  BY <1>1, <1>2, <1>3, SendingStays, SendingTypes DEF SamePost

\* The tails and boot.
LEMMA TailSends ==
    ASSUME IInv, TTab', NEW r \in Run, TailStart(r) \/ TailFinish(r) \/ Reconcile(r)
    PROVE  TSending' /\ SInv'
<1>1. TServer /\ TTab /\ Adopting
  BY TypeParts DEF IInv, SInv
<1>2. /\ UNCHANGED <<bound, body, sending, acts>> /\ acts \in Nat
      /\ \E st \in Status : status' = [status EXCEPT ![r] = st]
      /\ status[r] # "none" /\ orphan' \subseteq orphan /\ r \notin orphan'
  <2>1. /\ UNCHANGED <<bound, body, sending, acts>> /\ \E st \in Status : status' = [status EXCEPT ![r] = st]
        /\ orphan' \subseteq orphan /\ r \notin orphan'
    BY StatusTypes DEF TailStart, TailFinish, Settleable, Reconcile, budget
  <2>2. status[r] # "none"
    BY <1>1 DEF TailStart, TailFinish, Settleable, Reconcile, Adopting
  <2>3. acts \in Nat
    BY <1>1, BoundFacts DEF TTab
  <2> QED
    BY <2>1, <2>2, <2>3
<1>3. \A x \in Run \ {r} : status'[x] = status[x]
  BY <1>1, <1>2 DEF TServer
<1>4. Used' = Used
  BY <1>1, <1>2, StatusTypes, SameRuns DEF TServer
<1>5. Adopting'
  BY <1>1, <1>2, <1>3 DEF Adopting, IsPending, sending, TServer
<1> QED
  BY <1>2, <1>4, <1>5, RowChanges

\* Requests about a run, and the other tab.
LEMMA AskSends ==
    ASSUME IInv, TTab', \/ HandleStop \/ HandleAnswer \/ AskedReply \/ FetchApply \/ LoseAsked \/ OtherTab
                        \/ \E r \in Run : ClickStop(r) \/ Answer(r) \/ Resumed(r)
    PROVE  TSending' /\ SInv'
<1>1. TypeOK /\ TServer /\ TTab /\ TSending /\ Adopting /\ Numbered /\ SInv /\ acts \in Nat
  BY TypeParts, BoundFacts DEF IInv, SInv, TTab
<1>2. CASE HandleStop
  <2>1. /\ UNCHANGED <<bound, body, sending, acts>> /\ asked.run \in Run
        /\ orphan' = orphan \ {r \in Run : status'[r] = "settled"}
        /\ \/ status[asked.run] \in Holding /\ status' = [status EXCEPT ![asked.run] = "settled"]
           \/ status' = status
    BY <1>1, <1>2 DEF HandleStop, StopRun, TTab, budget
  <2>2. Used' = Used
    BY <1>1, <2>1, SameRuns DEF TServer, Holding
  <2>3. Adopting'
    BY <1>1, <2>1 DEF Adopting, IsPending, sending, TServer
  <2> QED
    BY <1>1, <2>1, <2>2, <2>3, RowChanges
<1>3. CASE HandleAnswer
  <2>1. /\ UNCHANGED <<bound, body, sending, acts, orphan>>
        /\ \/ status[asked.run] = "waiting" /\ \E s \in {"queued", "settled"} : status' = [status EXCEPT ![asked.run] = s]
           \/ status' = status
    BY <1>3 DEF HandleAnswer
  <2>2. Used' = Used
    BY <1>1, <2>1, SameRuns DEF TServer
  <2>3. Adopting'
    BY <1>1, <2>1 DEF Adopting, IsPending, sending, TServer
  <2> QED
    BY <1>1, <2>1, <2>2, <2>3, RowChanges
<1>4. CASE AskedReply \/ FetchApply \/ LoseAsked \/ \E r \in Run : ClickStop(r) \/ Answer(r) \/ Resumed(r)
  <2>1. UNCHANGED <<bound, server, sending>> /\ (acts' = acts \/ acts' = acts + 1)
    BY <1>4 DEF AskedReply, Resumed, FetchApply, LoseAsked, ClickStop, Answer, Ask, Act, budget
  <2> QED
    BY <1>1, <2>1, StreamSends DEF server
<1>5. CASE OtherTab
  <2>1. UNCHANGED <<bound, body, sending, orphan>> /\ acts' = acts + 1 /\ Act("other") /\ "other" \in bound.kinds
    BY <1>5 DEF OtherTab, Act
  <2>2. CASE status' = [status EXCEPT ![NextRun] = "queued"]
    <3>1. Cardinality(Used) < MaxRuns
      BY <1>1, <2>1, RoomForOther
    <3>2. /\ NextRun \in Run \ Used /\ Used' = Used \cup {NextRun}
          /\ Cardinality(Used') = Cardinality(Used) + 1 /\ Used' = 1 .. Cardinality(Used')
      BY <1>1, <2>2, <3>1, OneMoreRun DEF Numbered
    <3>3. Sent' = Sent
      BY <2>1 DEF Sent, SentWith
    <3>4. Cardinality(Used) <= Cardinality(Sent) + acts
      BY <1>1, <2>1 DEF Numbered
    <3>5. Cardinality(Used) \in Nat /\ Cardinality(Sent) \in Nat
      BY <1>1, CountUsed, CountSent DEF Numbered
    <3>6. Cardinality(Used') <= Cardinality(Sent') + IF "other" \in bound'.kinds THEN acts' ELSE 0
      BY <1>1, <2>1, <3>2, <3>3, <3>4, <3>5
    <3>7. \A r \in Run : ToSet(body[r]) \subseteq 1 .. typed /\ (ToSet(body[r]) # {} => r \in Used)
      BY <1>1 DEF Numbered
    <3>8. Numbered'
      BY <2>1, <3>2, <3>6, <3>7 DEF Numbered, sending
    <3>9. Adopting'
      <4>1. status[NextRun] = "none" /\ \A x \in Run \ {NextRun} : status'[x] = status[x]
        BY <1>1, <2>2, <3>2 DEF Used, TServer
      <4> QED
        BY <1>1, <2>1, <4>1 DEF Adopting, IsPending, sending, TServer
    <3> QED
      BY <1>1, <2>1, <3>2, <3>8, <3>9, SendingStays, SendingTypes DEF SamePost, sending
  <2>3. ASSUME NEW r \in Run, status[r] = "waiting",
               NEW st \in {"queued", "settled"}, status' = [status EXCEPT ![r] = st]
        PROVE  TSending' /\ SInv'
    <3>1. Used' = Used
      BY <1>1, <2>3, SameRuns DEF TServer
    <3>2. Adopting'
      BY <1>1, <2>1, <2>3 DEF Adopting, IsPending, sending, TServer
    <3> QED
      BY <1>1, <2>1, <3>1, <3>2, RowChanges
  <2> QED
    BY <1>5, <2>2, <2>3 DEF OtherTab
<1> QED
  BY <1>2, <1>3, <1>4, <1>5

\* The message on its way changes stage: it is dispatched, lost, or forgotten
\* by a restart.
LEMMA StageChanges ==
    ASSUME IInv, TTab', Dispatch \/ LosePost \/ Crash
    PROVE  TSending' /\ SInv'
<1>1. TypeOK /\ TServer /\ TTab /\ TSending /\ Adopting /\ Numbered /\ PostOK /\ SInv /\ acts \in Nat
  BY TypeParts, BoundFacts DEF IInv, SInv, TTab
<1>2. UNCHANGED <<bound, typed, queue, attempts, retry, box, gone, bounced, body, acts>> /\ retired' = retired
  BY DEF Dispatch, LosePost, Crash, server
<1>3. post # None => post \in Posts
  BY <1>1 DEF TSending
<1>4. \/ post = None /\ post' = None
      \/ post # None /\ \E s \in {"ok", "over", "error"} :
           post' = [post EXCEPT !.stage = s] /\ (s = "ok" => post.stage = "dispatching")
  BY DEF Dispatch, LosePost, Crash, IsPending
<1>5. CASE post = None /\ post' = None
  <2>1. SamePost /\ TSending'
    BY <1>1, <1>2, <1>5 DEF SamePost, TSending
  <2>2. Used' = Used /\ Adopting'
    <3>1. UNCHANGED status /\ (orphan' = orphan \/ orphan' = {r \in Run : status[r] \in {"queued", "running"}})
      BY <1>5 DEF Dispatch, LosePost, Crash, IsPending, server
    <3> QED
      BY <1>1, <1>5, <3>1, SameRuns DEF Adopting, IsPending
  <2>3. Numbered'
    BY <1>1, <1>2, <2>2, NumberedStays, CountSent
  <2> QED
    BY <1>1, <1>2, <2>1, <2>2, <2>3, SendingStays
<1>6. ASSUME post # None, NEW s \in {"ok", "over", "error"},
             post' = [post EXCEPT !.stage = s], s = "ok" => post.stage = "dispatching"
      PROVE  TSending' /\ SInv'
  <2>1. /\ post' \in Posts /\ post' # None
        /\ post'.via = post.via /\ post'.msgs = post.msgs /\ post'.run = post.run /\ post'.stage = s
    BY <1>3, <1>6, NoneAssumption DEF Posts
  <2>2. SamePost
    BY <1>6, <2>1 DEF SamePost
  <2>3. TSending'
    BY <1>1, <1>2, <2>1 DEF TSending
  <2>4. Used' = Used /\ Adopting'
    <3>1. CASE Dispatch
      <4>1. /\ orphan' = orphan /\ post.stage = "dispatching" /\ post.run \in Used /\ post.run \notin orphan
            /\ (status' = status \/ status' = [status EXCEPT ![post.run] = "settled"])
        BY <1>1, <3>1 DEF Dispatch, PostOK, Adopting
      <4>2. Used' = Used
        BY <1>1, <4>1, SameRuns DEF Used, TServer
      <4>3. Adopting'
        BY <1>1, <1>6, <2>1, <4>1 DEF Adopting, TServer
      <4> QED
        BY <4>2, <4>3
    <3>2. CASE LosePost \/ Crash
      <4>1. /\ UNCHANGED status /\ s = "error"
            /\ (orphan' = orphan \/ orphan' = {r \in Run : status[r] \in {"queued", "running"}})
        BY <1>6, <2>1, <3>2, <1>3 DEF LosePost, Crash, IsPending, server, Posts
      <4> QED
        BY <1>1, <2>1, <4>1, SameRuns DEF Adopting, IsPending
    <3> QED
      BY <3>1, <3>2
  <2>5. Numbered'
    BY <1>1, <1>2, <2>4, NumberedStays, CountSent
  <2> QED
    BY <1>1, <1>2, <2>2, <2>3, <2>4, <2>5, SendingStays
<1> QED
  BY <1>4, <1>5, <1>6

-----------------------------------------------------------------------------
(* The steps that send.                                                    *)

\* What is known before one of them.
LEMMA SendingFacts ==
    ASSUME IInv
    PROVE  /\ TypeOK /\ TServer /\ TTab /\ TSending /\ SInv /\ acts \in Nat
           /\ Adopting /\ Numbered /\ PostOK /\ Waiting /\ NoMessageLost /\ SentInOrder
           /\ typed \in Nat /\ typed <= MaxRuns /\ 1 .. typed \subseteq Msg
           /\ queue \in Seq(Msg) /\ ToSet(queue) \subseteq 1 .. typed
           /\ post # None => post \in Posts /\ post.msgs \in Seq(Msg)
<1>1. /\ TypeOK /\ TServer /\ TTab /\ TSending /\ SInv /\ acts \in Nat
      /\ Adopting /\ Numbered /\ PostOK /\ Waiting /\ NoMessageLost /\ SentInOrder
  BY TypeParts, BoundFacts DEF IInv, SInv, TTab
<1>2. typed \in Nat /\ typed <= MaxRuns /\ MaxRuns \in Nat
  BY <1>1, BoundFacts, CountSent
<1>3. post # None => post \in Posts /\ post.msgs \in Seq(Msg)
  BY <1>1 DEF TSending, Posts
<1>4. queue \in Seq(Msg) /\ ToSet(queue) \subseteq 1 .. typed
  BY <1>1 DEF TSending, Waiting
<1>5. 1 .. typed \subseteq Msg
  BY <1>2 DEF Msg
<1> QED
  BY <1>1, <1>2, <1>3, <1>4, <1>5

\* A fresh post.
LEMMA NewPostFacts ==
    ASSUME NEW via \in {"direct", "queue"}, NEW ms \in Seq(Msg), MaxRuns \in Nat
    PROVE  LET p == NewPost(via, ms) IN
           p \in Posts /\ p # None /\ p.via = via /\ p.msgs = ms /\ p.stage = "sent"
<1>1. NewPost(via, ms) \in Posts
  BY DEF NewPost, Posts
<1> QED
  BY <1>1, NoneAssumption DEF NewPost

\* The retry timer.
LEMMA RetrySends ==
    ASSUME IInv, RetryEnds
    PROVE  TSending' /\ SInv'
<1>1. /\ TypeOK /\ TSending /\ SInv /\ Adopting /\ Numbered /\ typed \in Nat /\ acts \in Nat
  BY SendingFacts
<1>2. /\ UNCHANGED <<bound, status, body, orphan, acts, typed, queue, post, attempts, box, gone, retired, bounced>>
      /\ retry' = FALSE
  BY DEF RetryEnds, server, budget
<1>3. Used' = Used /\ Adopting'
  BY <1>1, <1>2, SameRuns DEF Adopting, IsPending
<1>4. Numbered'
  BY <1>1, <1>2, <1>3, NumberedStays
<1>5. TSending'
  BY <1>1, <1>2 DEF TSending
<1> QED
  BY <1>1, <1>2, <1>3, <1>4, <1>5, SendingStays DEF SamePost

\* The user submits a message.
LEMMA SubmitSends ==
    ASSUME IInv, Submit
    PROVE  TSending' /\ SInv'
<1> DEFINE t == typed + 1
<1>1. /\ TypeOK /\ TServer /\ TTab /\ TSending /\ SInv /\ acts \in Nat
      /\ Adopting /\ Numbered /\ PostOK /\ Waiting /\ NoMessageLost /\ SentInOrder
      /\ typed \in Nat /\ queue \in Seq(Msg) /\ ToSet(queue) \subseteq 1 .. typed
      /\ post # None => post \in Posts
  BY SendingFacts
<1>2. /\ UNCHANGED <<bound, status, body, orphan, acts, attempts, retry, box, gone, retired, bounced>>
      /\ typed' = t /\ typed < bound.typed
      /\ \/ queue' = Append(queue, t) /\ post' = post
         \/ post' = NewPost("direct", <<t>>) /\ queue' = queue /\ queue = <<>> /\ post = None
  BY DEF Submit, server, budget, Queueing, IsPending
<1>3. t \in Nat /\ t \in Msg /\ 1 .. t = (1 .. typed) \cup {t} /\ t \notin 1 .. typed /\ bound.typed \in Nat /\ MaxRuns \in Nat
  BY <1>1, <1>2, BoundFacts DEF Msg
<1> HIDE DEF t
<1>4. SentWith(t) = {} /\ \A m : SentWith(m)' = SentWith(m)
  <2>1. SentWith(t) = {}
    BY <1>1, <1>3, SentRuns
  <2> QED
    BY <1>2, <2>1 DEF SentWith
<1>5. Used' = Used /\ Adopting'
  <2>1. Used' = Used
    BY <1>2, SameRuns
  <2>2. \/ post' = post
        \/ post' # None /\ post'.stage = "sent"
    <3>1. <<t>> \in Seq(Msg)
      BY <1>3
    <3>2. NewPost("direct", <<t>>) # None /\ NewPost("direct", <<t>>).stage = "sent"
      BY <1>3, <3>1, NewPostFacts
    <3> QED
      BY <1>2, <3>2
  <2> QED
    BY <1>1, <1>2, <2>1, <2>2 DEF Adopting, IsPending
<1>6. Numbered'
  BY <1>1, <1>2, <1>3, <1>5, NumberedStays DEF t
<1>7. CASE queue' = Append(queue, t) /\ post' = post
  <2>1. ToSet(queue') = ToSet(queue) \cup {t} /\ queue' \in Seq(Msg)
    BY <1>1, <1>3, <1>7, SeqMembers
  <2>2. InFlight' = InFlight /\ Fresh' = Fresh /\ (IsPending' <=> IsPending) /\ Fresh \subseteq InFlight
    BY <1>7 DEF InFlight, Fresh, IsPending
  <2>3. TSending'
    BY <1>1, <1>2, <1>3, <1>7, <2>1 DEF TSending
  <2>4. PostOK'
    <3> SUFFICES ASSUME IsPending
                 PROVE  /\ InFlight # {} /\ InFlight \subseteq 1 .. t
                        /\ InFlight \cap box = {}
                        /\ post.via = "direct" => InFlight \cap ToSet(queue') = {}
                        /\ post.via = "queue" => InFlight \subseteq ToSet(queue') \cup gone
                        /\ post.stage \in {"dispatching", "ok"} => post.run \in Used /\ ToSet(body[post.run]) = InFlight
                        /\ \A a \in InFlight, b \in ToSet(queue') \ InFlight : a < b
      BY <1>2, <1>5, <1>7, <2>2 DEF PostOK
    <3>1. /\ InFlight # {} /\ InFlight \subseteq 1 .. typed
          /\ InFlight \cap box = {}
          /\ post.via = "direct" => InFlight \cap ToSet(queue) = {}
          /\ post.via = "queue" => InFlight \subseteq ToSet(queue) \cup gone
          /\ post.stage \in {"dispatching", "ok"} => post.run \in Used /\ ToSet(body[post.run]) = InFlight
          /\ \A a \in InFlight, b \in ToSet(queue) \ InFlight : a < b
      BY <1>1 DEF PostOK
    <3>2. \A a \in 1 .. typed : a < t
      BY <1>1 DEF t
    <3> QED
      BY <1>3, <2>1, <3>1, <3>2
  <2>5. Waiting'
    <3>1. ToSet(queue') \cup box \cup gone \cup bounced \subseteq 1 .. t
      BY <1>1, <1>3, <2>1 DEF Waiting
    <3>2. ASSUME NEW m1 \in (ToSet(queue') \cup Fresh) \ bounced, NEW m2 \in 1 .. t, m1 < m2, SentWith(m1) = {}
          PROVE  SentWith(m2) = {}
      <4>1. CASE m2 = t
        BY <1>4, <4>1
      <4>2. CASE m2 # t
        <5>1. m1 # t
          BY <1>1, <1>3, <3>2, <4>2 DEF t
        <5> QED
          BY <1>1, <1>3, <2>1, <3>2, <4>2, <5>1 DEF Waiting
      <4> QED
        BY <4>1, <4>2
    <3>3. \A m \in Fresh : SentWith(m) = {}
      BY <1>1 DEF Waiting
    <3> QED
      BY <1>2, <1>4, <2>2, <3>1, <3>2, <3>3 DEF Waiting
  <2>6. NoMessageLost'
    <3>1. t \notin box
      BY <1>1, <1>3 DEF Waiting
    <3>2. Cardinality(SentWith(t)) <= 1
      BY <1>4, FS_EmptySet
    <3> QED
      BY <1>1, <1>2, <1>3, <1>4, <2>1, <2>2, <3>1, <3>2 DEF NoMessageLost
  <2>7. SentInOrder'
    BY <1>1, <1>2, <1>3, <1>4 DEF SentInOrder
  <2> QED
    BY <1>5, <1>6, <2>3, <2>4, <2>5, <2>6, <2>7 DEF SInv
<1>8. CASE post' = NewPost("direct", <<t>>) /\ queue' = queue /\ queue = <<>> /\ post = None
  <2>1. /\ <<t>> \in Seq(Msg) /\ ToSet(<<t>>) = {t} /\ ToSet(queue) = {}
    BY <1>1, <1>3, <1>8, SeqMembers
  <2>2. /\ post' \in Posts /\ post' # None /\ post'.via = "direct" /\ post'.msgs = <<t>> /\ post'.stage = "sent"
    BY <1>3, <1>8, <2>1, NewPostFacts
  <2>3. /\ InFlight' = {t} /\ Fresh' = {t} /\ IsPending' /\ ToSet(queue') = {} /\ InFlight = {} /\ Fresh = {}
    BY <1>8, <2>1, <2>2 DEF InFlight, Fresh, IsPending
  <2>4. TSending'
    BY <1>1, <1>2, <1>3, <1>8, <2>2 DEF TSending
  <2>5. t \notin box /\ t \in 1 .. t
    BY <1>1, <1>3 DEF Waiting
  <2>6. PostOK'
    BY <1>2, <2>2, <2>3, <2>5 DEF PostOK
  <2>7. Waiting'
    <3>1. box \cup gone \cup bounced \subseteq 1 .. t
      BY <1>1, <1>3 DEF Waiting
    <3>2. \A m2 \in 1 .. t : ~(t < m2)
      BY <1>3
    <3> QED
      BY <1>2, <1>4, <2>3, <3>1, <3>2 DEF Waiting
  <2>8. NoMessageLost'
    <3>1. Cardinality(SentWith(t)) <= 1
      BY <1>4, FS_EmptySet
    <3> QED
      BY <1>1, <1>2, <1>3, <1>4, <2>1, <2>3, <3>1 DEF NoMessageLost
  <2>9. SentInOrder'
    BY <1>1, <1>2, <1>3, <1>4 DEF SentInOrder
  <2> QED
    BY <1>5, <1>6, <2>4, <2>6, <2>7, <2>8, <2>9 DEF SInv
<1> QED
  BY <1>2, <1>7, <1>8

\* The queue is flushed.
LEMMA FlushSends ==
    ASSUME IInv, FlushQueue
    PROVE  TSending' /\ SInv'
<1>1. /\ TypeOK /\ TServer /\ TTab /\ TSending /\ SInv /\ acts \in Nat
      /\ Adopting /\ Numbered /\ PostOK /\ Waiting /\ NoMessageLost /\ SentInOrder
      /\ typed \in Nat /\ queue \in Seq(Msg) /\ ToSet(queue) \subseteq 1 .. typed /\ MaxRuns \in Nat
  BY SendingFacts, BoundFacts
<1>2. /\ UNCHANGED <<bound, status, body, orphan, acts, typed, queue, attempts, retry, box, gone, retired, bounced>>
      /\ post = None /\ queue # <<>> /\ post' = NewPost("queue", queue)
  BY DEF FlushQueue, CanFlush, IsPending, server, budget
<1>3. /\ post' \in Posts /\ post' # None /\ post'.via = "queue" /\ post'.msgs = queue /\ post'.stage = "sent"
  BY <1>1, <1>2, NewPostFacts
<1>4. ToSet(queue) # {}
  BY <1>1, <1>2 DEF ToSet
<1>5. /\ InFlight = {} /\ Fresh = {} /\ IsPending' /\ InFlight' = ToSet(queue) /\ Fresh' = ToSet(queue)
      /\ ToSet(queue') = ToSet(queue) /\ \A m : SentWith(m)' = SentWith(m)
  BY <1>2, <1>3 DEF InFlight, Fresh, IsPending, SentWith
<1>6. \A m \in ToSet(queue) : m \notin box /\ SentWith(m) = {}
  BY <1>1, <1>5 DEF NoMessageLost
<1>7. Used' = Used /\ Adopting'
  BY <1>1, <1>2, <1>3, SameRuns DEF Adopting, IsPending
<1>8. Numbered'
  BY <1>1, <1>2, <1>7, NumberedStays
<1>9. TSending'
  BY <1>1, <1>2, <1>3 DEF TSending
<1>10. PostOK'
  BY <1>1, <1>2, <1>3, <1>4, <1>5, <1>6 DEF PostOK
<1>11. Waiting'
  BY <1>1, <1>2, <1>5, <1>6 DEF Waiting
<1>12. NoMessageLost'
  BY <1>1, <1>2, <1>5 DEF NoMessageLost
<1>13. SentInOrder'
  BY <1>1, <1>2, <1>5 DEF SentInOrder
<1> QED
  BY <1>7, <1>8, <1>9, <1>10, <1>11, <1>12, <1>13 DEF SInv

\* The user takes a message out.
LEMMA RemoveSends ==
    ASSUME IInv, NEW m \in Msg, RemoveQueued(m)
    PROVE  TSending' /\ SInv'
<1>1. /\ TypeOK /\ TServer /\ TTab /\ TSending /\ SInv /\ acts \in Nat
      /\ Adopting /\ Numbered /\ PostOK /\ Waiting /\ NoMessageLost /\ SentInOrder
      /\ typed \in Nat /\ queue \in Seq(Msg) /\ ToSet(queue) \subseteq 1 .. typed
  BY SendingFacts
<1>2. /\ UNCHANGED <<bound, status, body, orphan, typed, post, attempts, retry, box, retired, bounced>>
      /\ m \in ToSet(queue) /\ queue' = Without(queue, {m}) /\ gone' = gone \cup {m} /\ acts' = acts + 1
  BY DEF RemoveQueued, Act, server
<1>3. ToSet(queue') = ToSet(queue) \ {m} /\ queue' \in Seq(Msg)
  BY <1>1, <1>2, WithoutMembers
<1>4. /\ InFlight' = InFlight /\ Fresh' = Fresh /\ (IsPending' <=> IsPending) /\ \A x : SentWith(x)' = SentWith(x)
  BY <1>2 DEF InFlight, Fresh, IsPending, SentWith
<1>5. Used' = Used /\ Adopting'
  BY <1>1, <1>2, SameRuns DEF Adopting, IsPending
<1>6. Numbered'
  BY <1>1, <1>2, <1>5, NumberedStays
<1>7. TSending'
  BY <1>1, <1>2, <1>3 DEF TSending
<1>8. PostOK'
  BY <1>1, <1>2, <1>3, <1>4, <1>5 DEF PostOK
<1>9. Waiting'
  BY <1>1, <1>2, <1>3, <1>4 DEF Waiting
<1>10. NoMessageLost'
  BY <1>1, <1>2, <1>3, <1>4 DEF NoMessageLost
<1>11. SentInOrder'
  BY <1>1, <1>2, <1>4 DEF SentInOrder
<1> QED
  BY <1>5, <1>6, <1>7, <1>8, <1>9, <1>10, <1>11 DEF SInv

\* The reply is there.
LEMMA ReplySends ==
    ASSUME IInv, PostReply
    PROVE  TSending' /\ SInv'
<1>1. /\ TypeOK /\ TServer /\ TTab /\ TSending /\ SInv /\ acts \in Nat
      /\ Adopting /\ Numbered /\ PostOK /\ Waiting /\ NoMessageLost /\ SentInOrder
      /\ typed \in Nat /\ queue \in Seq(Msg) /\ ToSet(queue) \subseteq 1 .. typed /\ 1 .. typed \subseteq Msg
      /\ post # None => post \in Posts /\ post.msgs \in Seq(Msg)
  BY SendingFacts
<1>2. /\ UNCHANGED <<bound, status, body, orphan, acts, typed, gone>>
      /\ post # None /\ post' = None
  BY DEF PostReply, IsPending, server, budget
<1>3. /\ InFlight = ToSet(post.msgs) /\ InFlight' = {} /\ Fresh' = {} /\ ~IsPending' /\ IsPending
      /\ \A x : SentWith(x)' = SentWith(x)
      /\ post.stage \in {"sent", "busy"} => Fresh = InFlight
  BY <1>2 DEF InFlight, Fresh, IsPending, SentWith
<1>4. Used' = Used /\ Adopting'
  BY <1>1, <1>2, SameRuns DEF Adopting, IsPending
<1>5. Numbered'
  BY <1>1, <1>2, <1>4, NumberedStays
<1>6. PostOK'
  BY <1>3 DEF PostOK
<1>7. /\ InFlight # {} /\ InFlight \subseteq 1 .. typed
      /\ InFlight \cap box = {}
      /\ post.via = "direct" => InFlight \cap ToSet(queue) = {}
      /\ post.via = "queue" => InFlight \subseteq ToSet(queue) \cup gone
      /\ post.via \in {"direct", "queue"}
      /\ post.stage \in {"dispatching", "ok"} => post.run \in Used /\ ToSet(body[post.run]) = InFlight
  BY <1>1, <1>2, <1>3 DEF PostOK, Posts
<1>8. DropIncluded \in Seq(Msg) /\ ToSet(DropIncluded) = ToSet(queue) \ InFlight
  <2>1. CASE post.via = "queue"
    <3>1. Without(queue, InFlight) \in Seq(Msg) /\ ToSet(Without(queue, InFlight)) = ToSet(queue) \ InFlight
      BY <1>1, WithoutMembers
    <3> QED
      BY <1>3, <2>1, <3>1 DEF DropIncluded
  <2>2. CASE post.via = "direct"
    BY <1>1, <1>7, <2>2 DEF DropIncluded
  <2> QED
    BY <1>7, <2>1, <2>2
<1>9. attempts \in Nat /\ attempts <= MaxBusy - 1 /\ MaxBusy \in Nat \ {0}
  BY <1>1, ChatThreadAssumption DEF TSending
<1>10. ASSUME queue' \in Seq(Msg), attempts' \in 0 .. MaxBusy - 1, retry' \in BOOLEAN, retired' \in BOOLEAN,
              box' \subseteq Msg, bounced' \subseteq Msg
       PROVE  TSending'
  BY <1>1, <1>2, <1>10 DEF TSending
<1>11. /\ attempts \in 0 .. MaxBusy - 1 /\ 0 \in 0 .. MaxBusy - 1 /\ retry \in BOOLEAN /\ retired \in BOOLEAN
       /\ box \subseteq Msg /\ bounced \subseteq Msg /\ InFlight \subseteq Msg
  BY <1>1, <1>7, <1>9 DEF TSending
<1>12. CASE Accepted
  <2>1. /\ post.stage = "ok" /\ queue' = DropIncluded /\ UNCHANGED <<retry, box, retired, bounced>>
        /\ attempts' \in {0, attempts}
    BY <1>12 DEF Accepted
  <2>2. TSending'
    BY <1>8, <1>10, <1>11, <2>1
  <2>3. Waiting'
    BY <1>1, <1>2, <1>3, <1>8, <2>1 DEF Waiting
  <2>4. \A m \in InFlight : SentWith(m) # {}
    BY <1>7, <2>1 DEF SentWith, Used
  <2>5. NoMessageLost'
    BY <1>1, <1>2, <1>3, <1>8, <2>1, <2>4 DEF NoMessageLost
  <2>6. SentInOrder'
    BY <1>1, <1>2, <1>3, <2>1 DEF SentInOrder
  <2> QED
    BY <1>4, <1>5, <1>6, <2>2, <2>3, <2>5, <2>6 DEF SInv
<1>13. CASE Busy
  <2>1. post.stage = "busy" /\ retired' = retired /\ Fresh = InFlight /\ \A m \in InFlight : SentWith(m) = {}
    BY <1>1, <1>3, <1>13 DEF Busy, Waiting
  <2>2. CASE post.via = "direct" /\ queue' = queue \o post.msgs /\ bounced' = bounced \cup ToSet(post.msgs)
             /\ UNCHANGED <<attempts, retry, box>>
    <3>1. queue' \in Seq(Msg) /\ ToSet(queue') = ToSet(queue) \cup InFlight /\ bounced' = bounced \cup InFlight
      <4>1. PICK m \in InFlight : m \in Msg
        BY <1>7, <1>11
      <4> QED
        BY <1>1, <1>2, <1>3, <2>2, <4>1, SeqMembers
    <3>2. TSending'
      BY <1>10, <1>11, <2>1, <2>2, <3>1
    <3>3. Waiting'
      BY <1>1, <1>2, <1>3, <1>7, <2>2, <3>1 DEF Waiting
    <3>4. NoMessageLost'
      BY <1>1, <1>2, <1>3, <1>7, <2>1, <2>2, <3>1 DEF NoMessageLost
    <3>5. SentInOrder'
      BY <1>1, <1>2, <1>3, <3>1 DEF SentInOrder
    <3> QED
      BY <1>4, <1>5, <1>6, <3>2, <3>3, <3>4, <3>5 DEF SInv
  <2>3. CASE post.via = "queue" /\ TryAgain /\ attempts' = attempts + 1 /\ retry' = TRUE
             /\ UNCHANGED <<queue, box, bounced>>
    <3>1. attempts' \in 0 .. MaxBusy - 1
      BY <1>9, <2>3 DEF TryAgain
    <3>2. TSending'
      BY <1>1, <1>10, <1>11, <2>1, <2>3, <3>1
    <3>3. Waiting'
      BY <1>1, <1>2, <1>3, <2>3 DEF Waiting
    <3>4. NoMessageLost'
      BY <1>1, <1>2, <1>3, <1>7, <2>1, <2>3 DEF NoMessageLost
    <3>5. SentInOrder'
      BY <1>1, <1>2, <1>3, <2>3 DEF SentInOrder
    <3> QED
      BY <1>4, <1>5, <1>6, <3>2, <3>3, <3>4, <3>5 DEF SInv
  <2>4. CASE attempts' = 0 /\ box' = box \cup ToSet(post.msgs) /\ queue' = DropIncluded /\ UNCHANGED <<retry, bounced>>
    <3>1. TSending'
      BY <1>3, <1>8, <1>10, <1>11, <2>1, <2>4
    <3>2. Waiting'
      BY <1>1, <1>2, <1>3, <1>7, <1>8, <2>4 DEF Waiting
    <3>3. NoMessageLost'
      BY <1>1, <1>2, <1>3, <1>8, <2>1, <2>4 DEF NoMessageLost
    <3>4. SentInOrder'
      BY <1>1, <1>2, <1>3, <2>4 DEF SentInOrder
    <3> QED
      BY <1>4, <1>5, <1>6, <3>1, <3>2, <3>3, <3>4 DEF SInv
  <2> QED
    BY <1>13, <2>2, <2>3, <2>4 DEF Busy
<1>14. CASE Refused
  <2>1. /\ box' = box \cup InFlight /\ queue' = DropIncluded /\ UNCHANGED <<retry, bounced>>
        /\ attempts' \in {0, attempts} /\ retired' \in BOOLEAN
    BY <1>3, <1>14 DEF Refused
  <2>2. TSending'
    BY <1>8, <1>10, <1>11, <2>1
  <2>3. Waiting'
    BY <1>1, <1>2, <1>3, <1>7, <1>8, <2>1 DEF Waiting
  <2>4. NoMessageLost'
    BY <1>1, <1>2, <1>3, <1>8, <2>1 DEF NoMessageLost
  <2>5. SentInOrder'
    BY <1>1, <1>2, <1>3, <2>1 DEF SentInOrder
  <2> QED
    BY <1>4, <1>5, <1>6, <2>2, <2>3, <2>4, <2>5 DEF SInv
<1> QED
  BY <1>12, <1>13, <1>14 DEF PostReply

\* The server takes a message: a run begins with it, or it is turned away.
LEMMA HandleSends ==
    ASSUME IInv, HandlePost
    PROVE  TSending' /\ SInv'
<1> DEFINE n == NextRun
<1>1. /\ TypeOK /\ TServer /\ TTab /\ TSending /\ SInv /\ acts \in Nat
      /\ Adopting /\ Numbered /\ PostOK /\ Waiting /\ NoMessageLost /\ SentInOrder
      /\ typed \in Nat /\ queue \in Seq(Msg) /\ ToSet(queue) \subseteq 1 .. typed
      /\ post # None => post \in Posts /\ post.msgs \in Seq(Msg)
  BY SendingFacts
<1>2. /\ UNCHANGED <<bound, orphan, acts, typed, queue, attempts, retry, box, gone, retired, bounced>>
      /\ post # None /\ post.stage = "sent"
      /\ \/ /\ post' = [post EXCEPT !.stage = "over"] \/ post' = [post EXCEPT !.stage = "busy"]
            /\ UNCHANGED <<status, body>>
         \/ /\ post' = [post EXCEPT !.stage = "dispatching", !.run = n]
            /\ status' = [status EXCEPT ![n] = "queued"] /\ body' = [body EXCEPT ![n] = post.msgs]
  BY DEF HandlePost, IsPending, budget
<1>3. post \in Posts /\ InFlight = ToSet(post.msgs) /\ Fresh = InFlight /\ IsPending
  BY <1>1, <1>2 DEF InFlight, Fresh, IsPending
<1>4. /\ InFlight # {} /\ InFlight \subseteq 1 .. typed
      /\ InFlight \cap box = {}
      /\ post.via = "direct" => InFlight \cap ToSet(queue) = {}
      /\ post.via = "queue" => InFlight \subseteq ToSet(queue) \cup gone
      /\ \A a \in InFlight, b \in ToSet(queue) \ InFlight : a < b
      /\ \A m \in InFlight : SentWith(m) = {}
  BY <1>1, <1>3 DEF PostOK, Waiting
<1> HIDE DEF n
<1>5. CASE (post' = [post EXCEPT !.stage = "over"] \/ post' = [post EXCEPT !.stage = "busy"]) /\ UNCHANGED <<status, body>>
  <2>1. /\ post' \in Posts /\ post' # None /\ post'.via = post.via /\ post'.msgs = post.msgs /\ post'.run = post.run
        /\ post'.stage \in {"over", "busy"}
    BY <1>3, <1>5, NoneAssumption DEF Posts
  <2>2. SamePost
    BY <1>2, <2>1 DEF SamePost
  <2>3. TSending'
    BY <1>1, <1>2, <2>1 DEF TSending
  <2>4. Used' = Used /\ Adopting'
    BY <1>1, <1>2, <1>5, <2>1, SameRuns DEF Adopting, IsPending
  <2>5. Numbered'
    BY <1>1, <1>2, <1>5, <2>4, NumberedStays
  <2> QED
    BY <1>1, <1>2, <1>5, <2>2, <2>3, <2>4, <2>5, SendingStays
<1>6. CASE /\ post' = [post EXCEPT !.stage = "dispatching", !.run = n]
           /\ status' = [status EXCEPT ![n] = "queued"] /\ body' = [body EXCEPT ![n] = post.msgs]
  <2>1. PICK m0 \in InFlight : m0 \in 1 .. typed /\ SentWith(m0) = {}
    BY <1>4
  <2>2. Cardinality(Used) < MaxRuns /\ m0 \notin Sent
    BY <1>1, <2>1, RoomForPost
  <2>3. /\ n \in Run \ Used /\ Used' = Used \cup {n}
        /\ Cardinality(Used') = Cardinality(Used) + 1 /\ Used' = 1 .. Cardinality(Used')
    BY <1>1, <1>6, <2>2, OneMoreRun DEF n, Numbered
  <2>4. /\ Cardinality(Used) \in Nat /\ n = Cardinality(Used) + 1 /\ Used = 1 .. Cardinality(Used)
        /\ status[n] = "none" /\ n \notin orphan
        /\ \A x \in Run \ {n} : status'[x] = status[x]
    <3>1. Cardinality(Used) \in Nat /\ n = Cardinality(Used) + 1 /\ Used = 1 .. Cardinality(Used)
      BY <1>1, CountUsed DEF n, Numbered
    <3>2. status[n] = "none"
      BY <2>3 DEF Used
    <3>3. n \notin orphan
      BY <1>1, <3>2 DEF Adopting
    <3>4. \A x \in Run \ {n} : status'[x] = status[x]
      BY <1>1, <1>6 DEF TServer
    <3> QED
      BY <3>1, <3>2, <3>3, <3>4
  <2>5. /\ post' \in Posts /\ post' # None /\ post'.via = post.via /\ post'.msgs = post.msgs
        /\ post'.stage = "dispatching" /\ post'.run = n
    <3>1. n \in 0 .. MaxRuns
      BY <2>3, <1>1, BoundFacts DEF Run
    <3> QED
      BY <1>3, <1>6, <3>1, NoneAssumption DEF Posts
  <2>6. body'[n] = post.msgs /\ (\A x \in Run \ {n} : body'[x] = body[x]) /\ ToSet(body[n]) = {}
    <3>1. ToSet(body[n]) = {}
      BY <1>1, <2>3 DEF Numbered
    <3> QED
      BY <1>1, <1>6, <2>3, <3>1 DEF TServer
  <2>7. /\ InFlight' = InFlight /\ Fresh' = {} /\ IsPending' /\ ToSet(queue') = ToSet(queue)
        /\ ToSet(body'[n]) = InFlight
    BY <1>2, <1>3, <2>5, <2>6 DEF InFlight, Fresh, IsPending
  <2>8. /\ \A m \in InFlight : SentWith(m)' = {n}
        /\ \A m : m \notin InFlight => SentWith(m)' = SentWith(m)
    <3>1. ASSUME NEW m, m \in InFlight PROVE SentWith(m)' = {n}
      <4>1. \A x \in Run : m \notin ToSet(body[x])
        BY <1>4, <3>1 DEF SentWith
      <4> QED
        BY <2>3, <2>6, <2>7, <3>1, <4>1 DEF SentWith
    <3>2. ASSUME NEW m, m \notin InFlight PROVE SentWith(m)' = SentWith(m)
      BY <2>3, <2>6, <2>7, <3>2 DEF SentWith
    <3> QED
      BY <3>1, <3>2
  <2>9. \A m \in 1 .. typed : SentWith(m) \subseteq Used
    BY <1>1, SentRuns
  <2>10. TSending'
    BY <1>1, <1>2, <2>5 DEF TSending
  <2>11. Adopting'
    BY <1>1, <1>2, <2>4, <2>5 DEF Adopting, IsPending, TServer
  <2>12. Numbered'
    <3>1. /\ Sent \subseteq 1 .. typed /\ Cardinality(Sent) \in Nat
      BY <1>1, CountSent
    <3>2. Sent' = Sent \cup InFlight
      <4>1. \A m \in Msg : SentWith(m)' # {} <=> (SentWith(m) # {} \/ m \in InFlight)
        BY <1>4, <2>8
      <4>2. InFlight \subseteq Msg
        <5>1. typed <= MaxRuns /\ MaxRuns \in Nat
          BY <1>1, SendingFacts, BoundFacts
        <5> QED
          BY <1>1, <1>4, <5>1 DEF Msg
      <4> QED
        BY <4>1, <4>2 DEF Sent
    <3>3. IsFiniteSet(Sent) /\ IsFiniteSet(Sent') /\ Sent \cup {m0} \subseteq Sent'
      <4>1. IsFiniteSet(1 .. typed)
        BY <1>1, FS_Interval
      <4>2. Sent' \subseteq 1 .. typed
        BY <1>4, <3>1, <3>2
      <4> QED
        BY <2>1, <3>1, <3>2, <4>1, <4>2, FS_Subset
    <3>4. Cardinality(Sent \cup {m0}) = Cardinality(Sent) + 1
      BY <2>2, <3>3, FS_AddElement
    <3>5. Cardinality(Sent) + 1 <= Cardinality(Sent') /\ Cardinality(Sent') \in Nat
      BY <3>3, <3>4, FS_Subset, FS_CardinalityType
    <3>6. Cardinality(Used) <= Cardinality(Sent) + IF "other" \in bound.kinds THEN acts ELSE 0
      BY <1>1 DEF Numbered
    <3>7. Cardinality(Used') <= Cardinality(Sent') + IF "other" \in bound.kinds THEN acts ELSE 0
      BY <1>1, <2>3, <2>4, <3>1, <3>5, <3>6
    <3>8. \A r \in Run : ToSet(body'[r]) \subseteq 1 .. typed /\ (ToSet(body'[r]) # {} => r \in Used')
      <4> SUFFICES ASSUME NEW r \in Run
                   PROVE  ToSet(body'[r]) \subseteq 1 .. typed /\ (ToSet(body'[r]) # {} => r \in Used')
        OBVIOUS
      <4>1. CASE r = n
        BY <1>4, <2>3, <2>7, <4>1
      <4>2. CASE r # n
        BY <1>1, <2>3, <2>6, <4>2 DEF Numbered
      <4> QED
        BY <4>1, <4>2
    <3> QED
      BY <1>2, <2>3, <3>7, <3>8 DEF Numbered
  <2>13. PostOK'
    BY <1>2, <1>4, <2>3, <2>5, <2>7 DEF PostOK
  <2>14. Waiting'
    <3>1. ASSUME NEW m1 \in ToSet(queue) \ bounced, NEW m2 \in 1 .. typed, m1 < m2, SentWith(m1)' = {}
          PROVE  SentWith(m2)' = {}
      <4>1. m1 \notin InFlight /\ SentWith(m1) = {}
        BY <2>8, <3>1
      <4>2. SentWith(m2) = {}
        BY <1>1, <3>1, <4>1 DEF Waiting
      <4>3. m2 \notin InFlight
        <5>1. m2 \in InFlight => m2 < m1
          BY <1>4, <3>1, <4>1
        <5> QED
          BY <1>1, <3>1, <5>1
      <4> QED
        BY <2>8, <4>2, <4>3
    <3> QED
      BY <1>1, <1>2, <2>7, <3>1 DEF Waiting
  <2>15. NoMessageLost'
    <3> SUFFICES ASSUME NEW m \in 1 .. typed
                 PROVE  /\ m \in ToSet(queue) \cup InFlight \cup box \cup gone \/ SentWith(m)' # {}
                        /\ Cardinality(SentWith(m)') <= 1
                        /\ m \in ToSet(queue) => m \notin box /\ (SentWith(m)' = {} \/ m \in InFlight)
      BY <1>2, <2>7 DEF NoMessageLost
    <3>1. CASE m \in InFlight
      <4>1. Cardinality({n}) = 1
        BY FS_Singleton
      <4> QED
        BY <1>4, <2>8, <3>1, <4>1
    <3>2. CASE m \notin InFlight
      BY <1>1, <2>8, <3>2 DEF NoMessageLost
    <3> QED
      BY <3>1, <3>2
  <2>16. SentInOrder'
    <3> SUFFICES ASSUME NEW m1 \in 1 .. typed, NEW m2 \in 1 .. typed,
                        NEW r1 \in SentWith(m1)', NEW r2 \in SentWith(m2)', m1 < m2, m1 \notin bounced
                 PROVE  r1 <= r2
      BY <1>2 DEF SentInOrder
    <3>1. \A m \in 1 .. typed : \A r \in SentWith(m)' : r \in Nat /\ r <= n /\ (m \in InFlight => r = n)
      BY <2>3, <2>4, <2>8, <2>9
    <3>2. CASE m2 \in InFlight
      BY <3>1, <3>2
    <3>3. CASE m1 \in InFlight /\ m2 \notin InFlight
      <4>1. SentWith(m1) = {} /\ SentWith(m2) # {}
        BY <1>4, <2>8, <3>3
      <4> QED
        BY <1>1, <1>3, <3>3, <4>1 DEF Waiting
    <3>4. CASE m1 \notin InFlight /\ m2 \notin InFlight
      BY <1>1, <2>8, <3>4 DEF SentInOrder
    <3> QED
      BY <3>2, <3>3, <3>4
  <2> QED
    BY <2>10, <2>11, <2>12, <2>13, <2>14, <2>15, <2>16 DEF SInv
<1> QED
  BY <1>2, <1>5, <1>6

\* Every step keeps what is known of the messages.
LEMMA SendingKept ==
    ASSUME IInv, TTab', [Next]_vars
    PROVE  TSending' /\ SInv'
<1>1. ASSUME UNCHANGED <<bound, status, body, orphan, sending>>, acts' = acts \/ acts' = acts + 1
      PROVE  TSending' /\ SInv'
  <2>1. acts \in Nat
    BY SendingFacts
  <2> QED
    BY <1>1, <2>1, StreamSends
<1>2. CASE \/ Observe \/ \E f \in due : Publish(f)
           \/ \E r \in Run : \/ Connect(r) \/ ReadEvents(r) \/ Flush(r) \/ ReadStatus(r) \/ Snapshot(r)
                             \/ Receive(r) \/ Drop(r) \/ \E k \in Event : TailEvent(r, k)
  <2>1. UNCHANGED <<bound, status, body, orphan, sending, acts>>
    BY <1>2 DEF Observe, Publish, Connect, ReadEvents, Flush, ReadStatus, Snapshot, Receive, Drop, TailEvent,
                server, budget
  <2> QED
    BY <1>1, <2>1
<1>3. CASE ContextControl
  <2>1. UNCHANGED <<bound, status, body, orphan, sending>> /\ acts' = acts + 1
    BY <1>3 DEF ContextControl, Act
  <2> QED
    BY <1>1, <2>1
<1>4. CASE UNCHANGED vars
  <2>1. UNCHANGED <<bound, status, body, orphan, sending, acts>>
    BY <1>4 DEF vars, server, budget
  <2> QED
    BY <1>1, <2>1
<1>5. CASE System
  BY <1>2, <1>5, TailSends, FlushSends, RetrySends, HandleSends, StageChanges, ReplySends, AskSends DEF System
<1>6. CASE Environment
  BY <1>2, <1>3, <1>6, SubmitSends, AskSends, RemoveSends, StageChanges DEF Environment
<1> QED
  BY <1>4, <1>5, <1>6 DEF Next

-----------------------------------------------------------------------------
(* The theorems.                                                           *)

\* It holds at the start: no run, no message and no stream.
LEMMA Initially == Init => IInv
<1> SUFFICES ASSUME Init PROVE IInv
  OBVIOUS
<1>1. /\ bound \in Bounds /\ MaxRuns \in Nat /\ MaxBusy \in Nat \ {0} /\ bound.typed \in Nat
      /\ bound.acts \in Nat /\ bound.faults \in Nat
  BY ChatThreadAssumption DEF Init
<1>2. <<>> \in Seq(Event) /\ <<>> \in Seq(Msg) /\ <<>> \in Seq(Frames) /\ Len(<<>>) = 0
      /\ DOMAIN <<>> = 1 .. 0 /\ 1 .. 0 = {}
  OBVIOUS
<1>3. Closed \in Conns
  BY <1>2, ClosedConn
<1>4. TServer
  BY <1>1, <1>2 DEF Init, TServer
<1>5. TStreams
  <2>1. \A r \in Run : store[r] \subseteq DOMAIN log[r] /\ cursor[r] \in 0 .. Len(log[r])
    BY <1>2 DEF Init
  <2> QED
    BY <1>2, <1>3, <2>1 DEF Init, TStreams
<1>6. TSending
  <2>1. 0 \in 0 .. bound.typed /\ 0 \in 0 .. MaxBusy - 1
    BY <1>1
  <2> QED
    BY <1>2, <2>1 DEF Init, TSending
<1>7. TTab
  BY <1>1 DEF Init, TTab
<1>8. ToSet(<<>>) = {} /\ Cardinality({}) = 0
  BY <1>2, FS_EmptySet DEF ToSet
<1>9. /\ Used = {} /\ InFlight = {} /\ Fresh = {} /\ ~IsPending /\ ToSet(queue) = {} /\ 1 .. typed = {}
      /\ \A r \in Run : ToSet(body[r]) = {}
  BY <1>8 DEF Init, Used, InFlight, Fresh, IsPending
<1>10. \A m : SentWith(m) = {}
  BY <1>9 DEF SentWith
<1>11. Numbered
  <2>1. Sent = {} /\ acts = 0
    BY <1>10 DEF Sent, Init
  <2>2. Used = 1 .. Cardinality(Used)
    BY <1>8, <1>9
  <2>3. Cardinality(Used) <= Cardinality(Sent) + IF "other" \in bound.kinds THEN acts ELSE 0
    BY <1>8, <1>9, <2>1
  <2>4. \A r \in Run : ToSet(body[r]) \subseteq 1 .. typed /\ (ToSet(body[r]) # {} => r \in Used)
    BY <1>9
  <2> QED
    BY <2>2, <2>3, <2>4 DEF Numbered
<1>12. SInv
  <2>1. Adopting
    BY <1>9 DEF Init, Adopting
  <2>2. PostOK /\ NoMessageLost /\ SentInOrder
    BY <1>9 DEF PostOK, NoMessageLost, SentInOrder
  <2>3. Waiting
    BY <1>9 DEF Init, Waiting
  <2> QED
    BY <1>11, <2>1, <2>2, <2>3 DEF SInv
<1>13. RInv
  <2> SUFFICES ASSUME NEW r \in Run PROVE ConnOK(r) /\ TabOK(r) /\ ended[r] <= Published(r)
    BY DEF RInv, DueOK, Init
  <2>1. /\ conn[r] = Closed /\ cursor[r] = 0 /\ Len(log[r]) = 0 /\ ended[r] = 0 /\ store[r] = {} /\ follow[r] = "none"
        /\ live[r] = "none" /\ silent[r] = 0 /\ Published(r) = 0
    BY <1>2 DEF Init, Published
  <2>2. Response(Closed, 0, 0, 0, 0, status[r])
    BY ClosedResponds
  <2>3. ConnOK(r)
    BY <2>1, <2>2 DEF ConnOK
  <2>4. TabOK(r)
    BY <1>2, <2>1 DEF TabOK
  <2> QED
    BY <2>1, <2>3, <2>4
<1>14. Quiet
  BY DEF Init, Quiet
<1> QED
  BY <1>4, <1>5, <1>6, <1>7, <1>12, <1>13, <1>14, TypeParts DEF IInv

\* The invariant is inductive ...
LEMMA Inductive ==
    ASSUME IInv, [Next]_vars
    PROVE  IInv'
<1>1. TServer' /\ TTab'
  BY TypesKept
<1>2. TStreams' /\ RInv'
  BY StreamsKept
<1>3. TSending' /\ SInv'
  BY <1>1, SendingKept
<1>4. TypeOK'
  BY <1>1, <1>2, <1>3 DEF TypeOK, TServer, TStreams, TSending, TTab
<1>5. Quiet'
  BY QuietKept
<1> QED
  BY <1>2, <1>3, <1>4, <1>5 DEF IInv

\* ... and so it always holds, whatever the numbers of runs and messages, the
\* faults and the acts of the user and the other tab.
THEOREM InvariantHolds == Spec => []IInv
<1>1. Init => IInv
  BY Initially
<1>2. IInv /\ [Next]_vars => IInv'
  BY Inductive
<1> QED
  BY <1>1, <1>2, PTL DEF Spec

\* Every variable keeps its type: among others, the numbers of a session's
\* runs never pass the bound (createRun).
THEOREM TypeCorrect == Spec => []TypeOK
<1>1. IInv => TypeOK
  BY DEF IInv
<1> QED
  BY <1>1, InvariantHolds, PTL

\* "No gap, no double-send": what a tab has stored is a prefix of the run's log,
\* nothing on its way to it is there already, and a stream that ended with its
\* run has brought all that was persisted before the end (createRunSseResponse,
\* consume and reopen).
THEOREM Faithful == Spec => []TranscriptFaithful
<1>1. IInv => TranscriptFaithful
  <2> SUFFICES ASSUME IInv, NEW r \in Run
               PROVE  /\ store[r] = 1 .. Cardinality(store[r])
                      /\ \A i \in DOMAIN conn[r].out :
                             IsEvent(conn[r].out[i]) => conn[r].out[i].seq \notin store[r]
                      /\ follow[r] = "closed" /\ live[r] = "settled" => 1 .. ended[r] \subseteq store[r]
    BY DEF TranscriptFaithful
  <2>1. TServer /\ TStreams /\ RInv
    BY TypeParts DEF IInv
  <2>2. /\ cursor[r] \in Nat /\ ended[r] \in Nat /\ conn[r] \in Conns /\ Published(r) \in Nat /\ Len(log[r]) \in Nat
        /\ store[r] = 1 .. cursor[r]
        /\ Response(conn[r], cursor[r], Published(r), Len(log[r]), ended[r], status[r])
        /\ (follow[r] = "closed" /\ live[r] = "settled" => ended[r] <= cursor[r])
    BY <2>1, PublishedFacts DEF RInv, ConnOK, TabOK
  <2>3. store[r] = 1 .. Cardinality(store[r])
    <3> DEFINE n == cursor[r]
    <3>1. Cardinality(1 .. n) = n
      <4>1. n \in Nat
        BY <2>2
      <4> HIDE DEF n
      <4>2. Cardinality(1 .. n) = IF 1 > n THEN 0 ELSE n - 1 + 1
        BY <4>1, FS_Interval
      <4> QED
        BY <4>1, <4>2
    <3> QED
      BY <2>2, <3>1
  <2>4. follow[r] = "closed" /\ live[r] = "settled" => 1 .. ended[r] \subseteq store[r]
    BY <2>2
  <2>5. ASSUME NEW i \in DOMAIN conn[r].out, IsEvent(conn[r].out[i]) PROVE conn[r].out[i].seq \notin store[r]
    <3>1. \E b \in Nat : Carries(conn[r].out, cursor[r], b)
      <4>1. CASE conn[r].phase = "off"
        BY <2>2, <4>1 DEF Response
      <4>2. CASE conn[r].phase \in Replaying
        BY <2>2, <2>5, <4>2 DEF Response
      <4>3. CASE conn[r].phase \in Sending
        BY <2>2, <4>3 DEF Response
      <4> QED
        BY <2>2, <4>1, <4>2, <4>3 DEF Conns, Replaying, Sending
    <3>2. conn[r].out[i].seq > cursor[r]
      BY <2>2, <2>5, <3>1 DEF Carries
    <3> QED
      BY <2>2, <3>2
  <2> QED
    BY <2>3, <2>4, <2>5
<1> QED
  BY <1>1, InvariantHolds, PTL

\* No message is lost, and none is sent twice by the tab or kept queued once it
\* is back in the box or acknowledged (useMessageQueue, dropIncluded).
THEOREM Lossless == Spec => []NoMessageLost
<1>1. IInv => NoMessageLost
  BY DEF IInv, SInv
<1> QED
  BY <1>1, InvariantHolds, PTL

\* Messages reach the agent in the order they were typed, but for one whose
\* direct send was refused (onSubmit, the flush effect and session_busy).
THEOREM InOrder == Spec => []SentInOrder
<1>1. IInv => SentInOrder
  BY DEF IInv, SInv
<1> QED
  BY <1>1, InvariantHolds, PTL

=============================================================================
