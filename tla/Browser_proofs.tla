--------------------------- MODULE Browser_proofs ---------------------------
(***************************************************************************)
(* The events that were emitted and not handled yet, as a queue of whatever  *)
(* records; and the smallest of a set of numbers, which the proofs by         *)
(* induction use.                                                           *)
(***************************************************************************)
EXTENDS Browser, WellFoundedInduction, TLAPS

Elements(q) == {q[i] : i \in DOMAIN q}
Queue(q) == q \in Seq(Elements(q))

LEMMA QueueFacts ==
  ASSUME NEW S, NEW q \in Seq(S)
  PROVE  Queue(q) /\ Elements(q) \subseteq S
<1>1. DOMAIN q = 1..Len(q) /\ Len(q) \in Nat /\ \A i \in DOMAIN q : q[i] \in S
  OBVIOUS
<1>2. q = [i \in 1..Len(q) |-> q[i]]
  OBVIOUS
<1>3. q \in [1..Len(q) -> Elements(q)]
  BY <1>1, <1>2 DEF Elements
<1>4. q \in Seq(Elements(q))
  BY <1>1, <1>3
<1> QED BY <1>1, <1>4 DEF Elements, Queue

\* An event that is emitted joins the others, one that is taken was there.
LEMMA QueueSteps ==
  ASSUME NEW q, Queue(q)
  PROVE  /\ \A e : Queue(Append(q, e)) /\ Elements(Append(q, e)) \subseteq Elements(q) \cup {e}
         /\ q # <<>> => /\ Queue(Tail(q)) /\ Elements(Tail(q)) \subseteq Elements(q)
                        /\ Head(q) \in Elements(q)
<1> DEFINE S == Elements(q)
<1>0. q \in Seq(S)
  BY DEF Queue
<1> HIDE DEF S
<1>1. ASSUME NEW e PROVE Queue(Append(q, e)) /\ Elements(Append(q, e)) \subseteq S \cup {e}
  <2>1. q \in Seq(S \cup {e})
    BY <1>0
  <2>2. Append(q, e) \in Seq(S \cup {e})
    BY <2>1
  <2> QED BY <2>2, QueueFacts
<1>2. ASSUME q # <<>> PROVE Queue(Tail(q)) /\ Head(q) \in S /\ Elements(Tail(q)) \subseteq S
  <2>1. Tail(q) \in Seq(S) /\ Head(q) \in S
    BY <1>0, <1>2
  <2> QED BY <2>1, QueueFacts
<1> QED BY <1>1, <1>2 DEF S

LEMMA NoEvents == Queue(<<>>) /\ Elements(<<>>) = {}
<1>1. <<>> \in Seq({})
  OBVIOUS
<1>2. Elements(<<>>) = {}
  BY DEF Elements
<1> QED BY <1>1, <1>2 DEF Queue

\* The places of the events in the queue.
LEMMA AppendFacts ==
  ASSUME NEW q, Queue(q), NEW e
  PROVE  /\ Len(q) \in Nat /\ DOMAIN q = 1..Len(q) /\ (Len(q) = 0 => q = <<>>)
         /\ Len(Append(q, e)) = Len(q) + 1 /\ DOMAIN Append(q, e) = 1..(Len(q) + 1)
         /\ \A j \in DOMAIN q : Append(q, e)[j] = q[j]
         /\ Append(q, e)[Len(q) + 1] = e
         /\ Append(q, e) # <<>>
<1> DEFINE S == Elements(q) \cup {e}
<1>1. q \in Seq(S) /\ e \in S
  <2>1. q \in Seq(Elements(q))
    BY DEF Queue
  <2> HIDE DEF Queue, Elements
  <2> QED BY <2>1
<1> HIDE DEF S
<1> QED BY <1>1

LEMMA TailFacts ==
  ASSUME NEW q, Queue(q), q # <<>>
  PROVE  /\ Len(q) \in Nat /\ DOMAIN q = 1..Len(q) /\ Len(q) > 0 /\ q[1] = Head(q)
         /\ Len(Tail(q)) = Len(q) - 1 /\ DOMAIN Tail(q) = 1..(Len(q) - 1)
         /\ \A j \in DOMAIN Tail(q) : Tail(q)[j] = q[j + 1]
         /\ (Len(q) = 1 => Tail(q) = <<>>)
<1> DEFINE S == Elements(q)
<1>1. q \in Seq(S)
  BY DEF Queue
<1> HIDE DEF S
<1>2. Len(q) = 1 => Tail(q) = <<>>
  <2> DEFINE r == Tail(q)
  <2>1. Len(r) = Len(q) - 1 /\ r \in Seq(S)
    BY <1>1
  <2> HIDE DEF r
  <2>2. Len(r) = 0 => r = <<>>
    BY <2>1
  <2> QED BY <1>1, <2>1, <2>2 DEF r
<1> QED BY <1>1, <1>2

\* The last event of the kind op asks for v, or a later one makes the question
\* void; or there is none and it is done.
LastAsked(q, op, field, v, resets, done) ==
  \/ \E k \in DOMAIN q :
       /\ q[k].op \in resets \/ (q[k].op = op /\ q[k][field] = v)
       /\ \A j \in DOMAIN q : j > k => q[j].op # op
  \/ done /\ \A j \in DOMAIN q : q[j].op # op

LEMMA LastAskedGrows ==
  ASSUME NEW q, Queue(q), NEW op, NEW field, NEW v, NEW resets, NEW done, NEW e,
         \/ e.op # op /\ LastAsked(q, op, field, v, resets, done)
         \/ e.op \in resets \/ (e.op = op /\ e[field] = v)
  PROVE  LastAsked(Append(q, e), op, field, v, resets, done)
<1> DEFINE r == Append(q, e)
<1>1. /\ Len(q) \in Nat /\ DOMAIN q = 1..Len(q) /\ DOMAIN r = 1..(Len(q) + 1)
      /\ \A j \in DOMAIN q : r[j] = q[j]
      /\ r[Len(q) + 1] = e
  BY AppendFacts
<1> HIDE DEF r
<1>2. CASE e.op \in resets \/ (e.op = op /\ e[field] = v)
  <2>1. /\ Len(q) + 1 \in DOMAIN r
        /\ \A j \in DOMAIN r : ~(j > Len(q) + 1)
    BY <1>1
  <2> QED BY <1>1, <1>2, <2>1 DEF LastAsked, r
<1>3. CASE e.op # op /\ LastAsked(q, op, field, v, resets, done)
  <2>1. ASSUME NEW k \in DOMAIN q, \A j \in DOMAIN q : j > k => q[j].op # op
        PROVE  k \in DOMAIN r /\ r[k] = q[k] /\ \A j \in DOMAIN r : j > k => r[j].op # op
    <3>1. ASSUME NEW j \in DOMAIN r, j > k PROVE r[j].op # op
      <4>1. j \in DOMAIN q \/ j = Len(q) + 1
        BY <1>1
      <4> QED BY <1>1, <1>3, <2>1, <3>1, <4>1
    <3> QED BY <1>1, <3>1
  <2>2. (\A j \in DOMAIN q : q[j].op # op) => \A j \in DOMAIN r : r[j].op # op
    BY <1>1, <1>3
  <2> QED BY <1>3, <2>1, <2>2 DEF LastAsked, r
<1> QED BY <1>2, <1>3

LEMMA LastAskedServed ==
  ASSUME NEW q, Queue(q), q # <<>>, NEW op, NEW field, NEW v, NEW resets, NEW done, NEW now,
         LastAsked(q, op, field, v, resets, done),
         Head(q).op \in resets \/ (Head(q).op = op /\ Head(q)[field] = v) => now,
         Head(q).op # op /\ done => now
  PROVE  LastAsked(Tail(q), op, field, v, resets, now)
<1> DEFINE r == Tail(q)
           e == Head(q)
<1>1. /\ Len(q) \in Nat /\ DOMAIN q = 1..Len(q) /\ Len(q) > 0 /\ q[1] = e
      /\ DOMAIN r = 1..(Len(q) - 1) /\ \A j \in DOMAIN r : r[j] = q[j + 1]
  BY TailFacts
<1>2. /\ e.op \in resets \/ (e.op = op /\ e[field] = v) => now
      /\ e.op # op /\ done => now
  OBVIOUS
<1> HIDE DEF r, e
<1>3. ASSUME NEW k \in DOMAIN q, q[k].op \in resets \/ (q[k].op = op /\ q[k][field] = v),
             \A j \in DOMAIN q : j > k => q[j].op # op
      PROVE  LastAsked(r, op, field, v, resets, now)
  <2>1. CASE k = 1
    <3>1. \A j \in DOMAIN r : r[j].op # op
      BY <1>1, <1>3, <2>1
    <3>2. now
      BY <1>1, <1>2, <1>3, <2>1
    <3> QED BY <3>1, <3>2 DEF LastAsked
  <2>2. CASE k > 1
    <3>1. k - 1 \in DOMAIN r /\ r[k - 1] = q[k]
      BY <1>1, <2>2
    <3>2. \A j \in DOMAIN r : j > k - 1 => r[j].op # op
      BY <1>1, <1>3, <2>2
    <3> QED BY <1>3, <3>1, <3>2 DEF LastAsked
  <2> QED BY <1>1, <2>1, <2>2
<1>4. ASSUME done, \A j \in DOMAIN q : q[j].op # op PROVE LastAsked(r, op, field, v, resets, now)
  <2>1. now /\ \A j \in DOMAIN r : r[j].op # op
    BY <1>1, <1>2, <1>4
  <2> QED BY <2>1 DEF LastAsked
<1> QED BY <1>3, <1>4 DEF LastAsked, r
-----------------------------------------------------------------------------
(* Numbers.                                                                 *)

\* A set of numbers has a smallest.
LEMMA SmallestOne ==
  ASSUME NEW T, T \subseteq Nat, T # {}
  PROVE  \E m \in T : \A k \in T : m <= k
<1>1. PICK m \in T : \A k \in T : <<k, m>> \notin OpToRel(<, Nat)
  BY WFMin, NatLessThanWellFounded, Zenon
<1>2. ASSUME NEW k \in T PROVE ~(k < m)
  <2>1. <<k, m>> \in Nat \X Nat /\ <<k, m>>[1] = k /\ <<k, m>>[2] = m
    OBVIOUS
  <2> QED BY <1>1, <2>1, Zenon DEF OpToRel
<1>3. \A k \in T : m <= k
  BY <1>2
<1> QED BY <1>3
=============================================================================
