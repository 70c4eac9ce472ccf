------------------------ MODULE TurnSchedulerProofs -------------------------
(***************************************************************************)
(* Proofs about the turn scheduler, for any turns, sessions and agents:    *)
(* two turns never execute in one session, and the scheduler's books name  *)
(* what executes. The pass over the queue is a recursion over its turns;   *)
(* what it keeps is shown by induction, from the least number principle.   *)
(***************************************************************************)
EXTENDS TurnScheduler, FiniteSetTheorems, TLAPS

-----------------------------------------------------------------------------
(* The inductive invariant                                                 *)

Books == [active    : [Sessions -> Turns \cup {"none"}],
          slots     : [Agents -> SUBSET Sessions],
          exclusive : [Agents -> Turns \cup {"none"}]]

(* A turn is named in the places that are its own, and every slot is one   *)
(* of a session that is taken.                                             *)
Named(b) ==
  /\ \A s \in Sessions : b.active[s] # "none" =>
       ~Exclusive(b.active[s]) /\ SessionOf[b.active[s]] = s
  /\ \A a \in Agents : b.exclusive[a] # "none" =>
       Exclusive(b.exclusive[a]) /\ Agent(b.exclusive[a]) = a
  /\ \A a \in Agents : \A s \in b.slots[a] : AgentOf[s] = a /\ b.active[s] # "none"

InBooks(b, t) == t \in {b.active[SessionOf[t]], b.exclusive[Agent(t)]}

(* The slots in use are those of the sessions that are taken.              *)
Exact(b) ==
  \A a \in Agents : b.slots[a] = {s \in Sessions : AgentOf[s] = a /\ b.active[s] # "none"}

(* An agent's slots are within its maximum, and free under a reservation of *)
(* the agent.                                                              *)
Bounded(b) ==
  \A a \in Agents :
    /\ IsFiniteSet(b.slots[a]) /\ Cardinality(b.slots[a]) <= MaxActive
    /\ b.exclusive[a] # "none" => b.slots[a] = {}

Occurs(q, t) == \E i \in DOMAIN q : q[i] = t
Distinct(q) == \A i, j \in DOMAIN q : q[i] = q[j] => i = j

(* The places of those that hold a slot, and of those that may.            *)
MustHold == {"submit", "running", "leaving", "granted", "defers", "leaked"}
MayHold == MustHold \cup {"expired", "raised"}

OthersTyped ==
  /\ runtime \in [Sessions -> Turns \cup {"none"}]
  /\ pc \in [Turns -> Places]
  /\ frames \in [Turns -> Nat]
  /\ dequeued \subseteq Turns /\ clearing \subseteq Turns /\ stray \subseteq Turns
  /\ failures \in 0..MaxFailures /\ defers \in 0..MaxDefers

BooksTyped == books \in Books /\ Named(books) /\ Bounded(books)

(* Whoever waits holds nothing.                                            *)
QueuesTyped ==
  /\ queue \in [Agents -> Seq(Turns)]
  /\ \A a \in Agents :
       /\ Distinct(queue[a])
       /\ \A u \in Turns : Occurs(queue[a], u) =>
            Agent(u) = a /\ pc[u] \in {"queued", "expired"} /\ ~Holds(u)

PlacesMatch ==
  \A u \in Turns : (pc[u] \in MustHold => Holds(u)) /\ (Holds(u) => pc[u] \in MayHold)

SlotsExact == stray = {} => Exact(books)

(* A reservation that waits is in the queue, until it is granted too late. *)
ReservationsWait ==
  \A u \in Turns :
    /\ pc[u] = "expired" => ~Chat(u)
    /\ ~Chat(u) /\ pc[u] \in {"queued", "expired"} =>
         Occurs(queue[Agent(u)], u) \/ (pc[u] = "expired" /\ Holds(u))

IInv ==
  /\ OthersTyped /\ BooksTyped /\ QueuesTyped
  /\ PlacesMatch /\ SlotsExact /\ ReservationsWait

-----------------------------------------------------------------------------
(* Induction, from the least number principle                              *)

LEMMA LeastNatural ==
  ASSUME NEW S \in SUBSET Nat, S # {}
  PROVE  \E n \in S : \A m \in S : n <= m
<1> DEFINE R == OpToRel(<, Nat)
<1>1. IsWellFoundedOn(R, Nat)
  BY NatLessThanWellFounded
<1>2. PICK n \in S : \A m \in S : ~(<<m, n>> \in R)
  <2> HIDE DEF R
  <2> QED BY <1>1, WFMin
<1>3. \A m \in S : ~(m < n)
  BY <1>2 DEF OpToRel
<1> QED BY <1>3

LEMMA Induction ==
  ASSUME NEW S, 0 \in S, \A n \in Nat : n \in S => n + 1 \in S
  PROVE  Nat \subseteq S
<1> SUFFICES ASSUME Nat \ S # {} PROVE FALSE
  OBVIOUS
<1>1. PICK n \in Nat \ S : \A m \in Nat \ S : n <= m
  BY LeastNatural
<1>2. n - 1 \in Nat /\ n - 1 \notin Nat \ S
  BY <1>1
<1> QED BY <1>1, <1>2

-----------------------------------------------------------------------------
(* Sequences                                                               *)

LEMMA AppendFacts ==
  ASSUME NEW q \in Seq(Turns), NEW t \in Turns
  PROVE  /\ Append(q, t) \in Seq(Turns)
         /\ \A u : Occurs(Append(q, t), u) <=> Occurs(q, u) \/ u = t
         /\ Distinct(q) /\ ~Occurs(q, t) => Distinct(Append(q, t))
<1>1. /\ Append(q, t) \in Seq(Turns)
      /\ DOMAIN q = 1..Len(q) /\ Len(q) \in Nat
      /\ DOMAIN Append(q, t) = 1..(Len(q) + 1)
      /\ \A i \in 1..Len(q) : Append(q, t)[i] = q[i]
      /\ Append(q, t)[Len(q) + 1] = t
  OBVIOUS
<1> DEFINE r == Append(q, t)
<1> HIDE DEF r
<1> QED BY <1>1 DEF Occurs, Distinct, r

LEMMA InsertFacts ==
  ASSUME NEW q \in Seq(Turns), NEW t \in Turns, NEW at \in 1..(Len(q) + 1)
  PROVE  /\ InsertAt(q, at, t) \in Seq(Turns)
         /\ \A u : Occurs(InsertAt(q, at, t), u) <=> Occurs(q, u) \/ u = t
         /\ Distinct(q) /\ ~Occurs(q, t) => Distinct(InsertAt(q, at, t))
<1> DEFINE A == SubSeq(q, 1, at - 1)
           B == SubSeq(q, at, Len(q))
           C == A \o <<t>>
           D == C \o B
<1>1. /\ A \in Seq(Turns) /\ Len(A) = at - 1
      /\ \A i \in 1..(at - 1) : A[i] = q[i]
  OBVIOUS
<1>2. /\ B \in Seq(Turns) /\ Len(B) = Len(q) - at + 1
      /\ \A i \in 1..(Len(q) - at + 1) : B[i] = q[at + i - 1]
  OBVIOUS
<1>3. /\ C \in Seq(Turns) /\ Len(C) = at
      /\ \A i \in 1..at : C[i] = IF i < at THEN q[i] ELSE t
  <2>1. <<t>> \in Seq(Turns) /\ Len(<<t>>) = 1 /\ <<t>>[1] = t
    OBVIOUS
  <2> HIDE DEF A
  <2> QED BY <1>1, <2>1
<1>4. /\ D \in Seq(Turns) /\ DOMAIN D = 1..(Len(q) + 1)
      /\ \A i \in 1..(Len(q) + 1) :
           D[i] = IF i < at THEN q[i] ELSE IF i = at THEN t ELSE q[i - 1]
  <2> HIDE DEF B, C
  <2> QED BY <1>2, <1>3
<1>5. InsertAt(q, at, t) = D
  BY DEF InsertAt
<1>6. DOMAIN q = 1..Len(q) /\ Len(q) \in Nat
  OBVIOUS
<1> HIDE DEF D
<1>7. ASSUME NEW u PROVE Occurs(D, u) <=> Occurs(q, u) \/ u = t
  <2>1. Occurs(D, u) => Occurs(q, u) \/ u = t
    BY <1>4, <1>6 DEF Occurs
  <2>2. ASSUME NEW i \in 1..Len(q) PROVE Occurs(D, q[i])
    <3>1. CASE i < at
      BY <1>4, <3>1 DEF Occurs
    <3>2. CASE i >= at
      <4>1. i + 1 \in 1..(Len(q) + 1) /\ D[i + 1] = q[i]
        BY <1>4, <1>6, <3>2
      <4> QED BY <1>4, <4>1 DEF Occurs
    <3> QED BY <3>1, <3>2, <1>6
  <2>3. D[at] = t /\ at \in DOMAIN D
    BY <1>4
  <2>4. Occurs(D, t)
    BY <2>3 DEF Occurs
  <2> QED BY <2>1, <2>2, <2>4, <1>6 DEF Occurs
<1>8. ASSUME Distinct(q), ~Occurs(q, t) PROVE Distinct(D)
  <2>1. \A i \in 1..Len(q) : q[i] # t
    BY <1>8, <1>6 DEF Occurs
  <2>2. \A i, j \in 1..Len(q) : q[i] = q[j] => i = j
    BY <1>8, <1>6 DEF Distinct
  <2>3. SUFFICES ASSUME NEW i \in 1..(Len(q) + 1), NEW j \in 1..(Len(q) + 1), D[i] = D[j]
                 PROVE  i = j
    BY <1>4 DEF Distinct
  <2>4. i = at \/ (i < at /\ i \in 1..Len(q)) \/ (i > at /\ i - 1 \in 1..Len(q))
    BY <1>6
  <2>5. j = at \/ (j < at /\ j \in 1..Len(q)) \/ (j > at /\ j - 1 \in 1..Len(q))
    BY <1>6
  <2> QED BY <1>4, <1>6, <2>1, <2>2, <2>3, <2>4, <2>5
<1> QED BY <1>4, <1>5, <1>7, <1>8

LEMMA EnqueuedFacts ==
  ASSUME NEW q \in Seq(Turns), NEW t \in Turns
  PROVE  /\ Enqueued(q, t) \in Seq(Turns)
         /\ \A u : Occurs(Enqueued(q, t), u) <=> Occurs(q, u) \/ u = t
         /\ Distinct(q) /\ ~Occurs(q, t) => Distinct(Enqueued(q, t))
<1> DEFINE low == {i \in DOMAIN q : Kind[q[i]] = "proactive"}
           at  == IF Kind[t] = "user" /\ low # {} THEN Min(low) ELSE Len(q) + 1
<1>1. DOMAIN q = 1..Len(q) /\ Len(q) \in Nat
  OBVIOUS
<1>2. low # {} => Min(low) \in low
  <2> SUFFICES ASSUME low # {} PROVE Min(low) \in low
    OBVIOUS
  <2>1. low \in SUBSET Nat
    BY <1>1
  <2>2. \E n \in low : \A m \in low : n <= m
    <3> HIDE DEF low
    <3> QED BY <2>1, LeastNatural
  <2> QED BY <2>2 DEF Min
<1>3. at \in 1..(Len(q) + 1)
  BY <1>1, <1>2
<1>4. Enqueued(q, t) = InsertAt(q, at, t)
  BY DEF Enqueued
<1> HIDE DEF at
<1> QED BY <1>3, <1>4, InsertFacts

LEMMA WithoutFacts ==
  ASSUME NEW q \in Seq(Turns), NEW t \in Turns, Distinct(q)
  PROVE  /\ WithoutTurn(q, t) \in Seq(Turns)
         /\ \A u : Occurs(WithoutTurn(q, t), u) <=> Occurs(q, u) /\ u # t
         /\ Distinct(WithoutTurn(q, t))
<1>1. DOMAIN q = 1..Len(q) /\ Len(q) \in Nat
  OBVIOUS
<1>2. CASE ~Occurs(q, t)
  BY <1>2 DEF WithoutTurn, Occurs
<1>3. CASE Occurs(q, t)
  <2> DEFINE at == CHOOSE i \in DOMAIN q : q[i] = t
             A  == SubSeq(q, 1, at - 1)
             B  == SubSeq(q, at + 1, Len(q))
             D  == A \o B
  <2>1. at \in 1..Len(q) /\ q[at] = t
    BY <1>1, <1>3 DEF Occurs
  <2>2. WithoutTurn(q, t) = D
    BY <1>3 DEF WithoutTurn, RemoveAt, Occurs
  <2> HIDE DEF at
  <2>3. /\ A \in Seq(Turns) /\ Len(A) = at - 1
        /\ \A i \in 1..(at - 1) : A[i] = q[i]
    BY <2>1
  <2>4. /\ B \in Seq(Turns) /\ Len(B) = Len(q) - at
        /\ \A i \in 1..(Len(q) - at) : B[i] = q[at + i]
    BY <2>1
  <2>5. /\ D \in Seq(Turns) /\ DOMAIN D = 1..(Len(q) - 1)
        /\ \A i \in 1..(Len(q) - 1) : D[i] = IF i < at THEN q[i] ELSE q[i + 1]
    <3> HIDE DEF A, B
    <3>1. D \in Seq(Turns) /\ Len(D) = Len(A) + Len(B)
      BY <2>3, <2>4
    <3>2. Len(D) = Len(q) - 1 /\ DOMAIN D = 1..(Len(q) - 1)
      <4>1. Len(D) = Len(q) - 1
        BY <1>1, <2>1, <2>3, <2>4, <3>1
      <4>2. DOMAIN D = 1..Len(D)
        <5> HIDE DEF D
        <5> QED BY <3>1
      <4> QED BY <4>1, <4>2
    <3>3. ASSUME NEW i \in 1..(Len(q) - 1), i < at PROVE D[i] = q[i]
      BY <1>1, <2>1, <2>3, <2>4, <3>3
    <3>4. ASSUME NEW i \in 1..(Len(q) - 1), i >= at PROVE D[i] = q[i + 1]
      <4>1. i > Len(A) /\ i - Len(A) \in 1..Len(B) /\ i - Len(A) = i + 1 - at
        BY <1>1, <2>1, <2>3, <2>4, <3>4
      <4>2. D[i] = B[i - Len(A)]
        BY <2>3, <2>4, <3>1, <3>2, <4>1
      <4>3. B[i + 1 - at] = q[at + (i + 1 - at)]
        BY <2>1, <2>4, <4>1
      <4> QED BY <2>1, <4>1, <4>2, <4>3
    <3> QED BY <2>1, <3>1, <3>2, <3>3, <3>4
  <2> HIDE DEF D
  <2>6. \A i, j \in 1..Len(q) : q[i] = q[j] => i = j
    BY <1>1 DEF Distinct
  <2>7. ASSUME NEW u PROVE Occurs(D, u) <=> Occurs(q, u) /\ u # t
    <3>1. ASSUME NEW i \in 1..(Len(q) - 1), D[i] = u PROVE Occurs(q, u) /\ u # t
      <4>1. CASE i < at
        BY <1>1, <2>1, <2>5, <2>6, <3>1, <4>1 DEF Occurs
      <4>2. CASE i >= at
        <5>1. i + 1 \in 1..Len(q) /\ q[i + 1] = u /\ i + 1 # at
          BY <1>1, <2>1, <2>5, <3>1, <4>2
        <5> QED BY <1>1, <2>1, <2>6, <5>1 DEF Occurs
      <4> QED BY <4>1, <4>2, <2>1
    <3>2. ASSUME NEW i \in 1..Len(q), q[i] = u, u # t PROVE Occurs(D, u)
      <4>1. CASE i < at
        <5>1. i \in 1..(Len(q) - 1) /\ D[i] = u
          BY <1>1, <2>1, <2>5, <3>2, <4>1
        <5> QED BY <2>5, <5>1 DEF Occurs
      <4>2. CASE i > at
        <5>1. i - 1 \in 1..(Len(q) - 1) /\ D[i - 1] = u
          BY <1>1, <2>1, <2>5, <3>2, <4>2
        <5> QED BY <2>5, <5>1 DEF Occurs
      <4> QED BY <2>1, <3>2, <4>1, <4>2
    <3> QED BY <1>1, <2>5, <3>1, <3>2 DEF Occurs
  <2>8. Distinct(D)
    <3> SUFFICES ASSUME NEW i \in 1..(Len(q) - 1), NEW j \in 1..(Len(q) - 1), D[i] = D[j]
                 PROVE  i = j
      BY <2>5 DEF Distinct
    <3>1. i \in 1..Len(q) /\ i + 1 \in 1..Len(q) /\ j \in 1..Len(q) /\ j + 1 \in 1..Len(q)
      BY <1>1
    <3> QED BY <1>1, <2>1, <2>5, <2>6, <3>1
  <2> QED BY <2>2, <2>5, <2>7, <2>8
<1> QED BY <1>2, <1>3

-----------------------------------------------------------------------------
(* The books                                                               *)

(* A turn that is free to take its place is the only one to enter the      *)
(* books.                                                                  *)
LEMMA ActivatedFacts ==
  ASSUME NEW b \in Books, NEW t \in Turns, Named(b),
         b.exclusive[Agent(t)] = "none",
         Exclusive(t) \/ b.active[SessionOf[t]] = "none"
  PROVE  /\ Activated(b, t) \in Books /\ Named(Activated(b, t))
         /\ \A u \in Turns : InBooks(Activated(b, t), u) <=> InBooks(b, u) \/ u = t
         /\ Exact(b) => Exact(Activated(b, t))
<1> DEFINE n == Activated(b, t)
<1>1. /\ "none" \notin Turns
      /\ \A u \in Turns : SessionOf[u] \in Sessions /\ Agent(u) \in Agents
                         /\ Agent(u) = AgentOf[SessionOf[u]]
  BY SchedulerAssumption DEF Agent
<1>2. CASE Exclusive(t)
  <2>1. /\ n \in Books /\ n.active = b.active /\ n.slots = b.slots
        /\ n.exclusive = [b.exclusive EXCEPT ![Agent(t)] = t]
    BY <1>1, <1>2 DEF Activated, Books
  <2>2. b.exclusive \in [Agents -> Turns \cup {"none"}]
    BY DEF Books
  <2>3. n.exclusive[Agent(t)] = t
        /\ \A a \in Agents : a # Agent(t) => n.exclusive[a] = b.exclusive[a]
    BY <1>1, <2>1, <2>2
  <2> HIDE DEF n
  <2>4. Named(n)
    BY <1>1, <1>2, <2>1, <2>3 DEF Named
  <2>5. ASSUME NEW u \in Turns PROVE InBooks(n, u) <=> InBooks(b, u) \/ u = t
    BY <1>1, <2>1, <2>3 DEF InBooks
  <2>6. Exact(b) => Exact(n)
    BY <2>1 DEF Exact
  <2> QED BY <2>1, <2>4, <2>5, <2>6 DEF n
<1>3. CASE ~Exclusive(t)
  <2>1. /\ n \in Books /\ n.exclusive = b.exclusive
        /\ n.active = [b.active EXCEPT ![SessionOf[t]] = t]
        /\ n.slots = [b.slots EXCEPT ![Agent(t)] = @ \cup {SessionOf[t]}]
    BY <1>1, <1>3 DEF Activated, Books
  <2>2. b.active \in [Sessions -> Turns \cup {"none"}] /\ b.slots \in [Agents -> SUBSET Sessions]
    BY DEF Books
  <2>3. n.active[SessionOf[t]] = t
        /\ \A s \in Sessions : s # SessionOf[t] => n.active[s] = b.active[s]
    BY <1>1, <2>1, <2>2
  <2>4. n.slots[Agent(t)] = b.slots[Agent(t)] \cup {SessionOf[t]}
        /\ \A a \in Agents : a # Agent(t) => n.slots[a] = b.slots[a]
    BY <1>1, <2>1, <2>2
  <2> HIDE DEF n
  <2>5. Named(n)
    BY <1>1, <1>3, <2>1, <2>3 DEF Named
  <2>6. ASSUME NEW u \in Turns PROVE InBooks(n, u) <=> InBooks(b, u) \/ u = t
    BY <1>1, <1>3, <2>1, <2>3 DEF InBooks
  <2>7. ASSUME Exact(b) PROVE Exact(n)
    <3>1. ASSUME NEW a \in Agents
          PROVE  n.slots[a] = {s \in Sessions : AgentOf[s] = a /\ n.active[s] # "none"}
      <4>1. b.slots[a] = {s \in Sessions : AgentOf[s] = a /\ b.active[s] # "none"}
        BY <2>7 DEF Exact
      <4> QED BY <1>1, <2>3, <2>4, <4>1
    <3> QED BY <3>1 DEF Exact
  <2> QED BY <2>1, <2>5, <2>6, <2>7 DEF n
<1> QED BY <1>2, <1>3

LEMMA DeactivatedFacts ==
  ASSUME NEW b \in Books, NEW t \in Turns, Named(b)
  PROVE  /\ Deactivated(b, t) \in Books /\ Named(Deactivated(b, t))
         /\ \A u \in Turns : InBooks(Deactivated(b, t), u) <=> InBooks(b, u) /\ u # t
         /\ Exact(b) /\ InBooks(b, t) => Exact(Deactivated(b, t))
<1> DEFINE n == Deactivated(b, t)
<1>1. /\ "none" \notin Turns
      /\ \A u \in Turns : SessionOf[u] \in Sessions /\ Agent(u) \in Agents
                         /\ Agent(u) = AgentOf[SessionOf[u]]
  BY SchedulerAssumption DEF Agent
<1>2. /\ b.active \in [Sessions -> Turns \cup {"none"}] /\ b.slots \in [Agents -> SUBSET Sessions]
      /\ b.exclusive \in [Agents -> Turns \cup {"none"}]
  BY DEF Books
<1>3. \A u \in Turns : InBooks(b, u) => IF Exclusive(u) THEN b.exclusive[Agent(u)] = u
                                                       ELSE b.active[SessionOf[u]] = u
  BY <1>1 DEF Named, InBooks
<1>4. CASE Exclusive(t)
  <2>1. /\ n \in Books /\ n.active = b.active /\ n.slots = b.slots
        /\ n.exclusive = [b.exclusive EXCEPT ![Agent(t)] = IF @ = t THEN "none" ELSE @]
    BY <1>1, <1>4 DEF Deactivated, Books
  <2>2. /\ n.exclusive[Agent(t)] = IF b.exclusive[Agent(t)] = t THEN "none"
                                                              ELSE b.exclusive[Agent(t)]
        /\ \A a \in Agents : a # Agent(t) => n.exclusive[a] = b.exclusive[a]
    BY <1>1, <1>2, <2>1
  <2> HIDE DEF n
  <2>3. Named(n)
    BY <1>1, <1>4, <2>1, <2>2 DEF Named
  <2>4. ASSUME NEW u \in Turns PROVE InBooks(n, u) <=> InBooks(b, u) /\ u # t
    BY <1>1, <1>3, <1>4, <2>1, <2>2 DEF InBooks, Named
  <2>5. Exact(b) => Exact(n)
    BY <2>1 DEF Exact
  <2> QED BY <2>1, <2>3, <2>4, <2>5 DEF n
<1>5. CASE ~Exclusive(t)
  <2>1. /\ n \in Books /\ n.exclusive = b.exclusive
        /\ n.active = [b.active EXCEPT ![SessionOf[t]] = IF @ = t THEN "none" ELSE @]
        /\ n.slots = [b.slots EXCEPT ![Agent(t)] = @ \ {SessionOf[t]}]
    BY <1>1, <1>5 DEF Deactivated, Books
  <2>2. /\ n.active[SessionOf[t]] = IF b.active[SessionOf[t]] = t THEN "none"
                                                                ELSE b.active[SessionOf[t]]
        /\ \A s \in Sessions : s # SessionOf[t] => n.active[s] = b.active[s]
    BY <1>1, <1>2, <2>1
  <2>3. n.slots[Agent(t)] = b.slots[Agent(t)] \ {SessionOf[t]}
        /\ \A a \in Agents : a # Agent(t) => n.slots[a] = b.slots[a]
    BY <1>1, <1>2, <2>1
  <2> HIDE DEF n
  <2>4. Named(n)
    <3>1. \A a \in Agents : \A s \in n.slots[a] : AgentOf[s] = a /\ n.active[s] # "none"
      BY <1>1, <1>2, <2>2, <2>3 DEF Named
    <3> QED BY <1>1, <1>5, <2>1, <2>2, <3>1 DEF Named
  <2>5. ASSUME NEW u \in Turns PROVE InBooks(n, u) <=> InBooks(b, u) /\ u # t
    BY <1>1, <1>3, <1>5, <2>1, <2>2 DEF InBooks, Named
  <2>6. ASSUME Exact(b), InBooks(b, t) PROVE Exact(n)
    <3>1. n.active[SessionOf[t]] = "none"
      BY <1>3, <1>5, <2>2, <2>6
    <3>2. ASSUME NEW a \in Agents
          PROVE  n.slots[a] = {s \in Sessions : AgentOf[s] = a /\ n.active[s] # "none"}
      <4>1. b.slots[a] = {s \in Sessions : AgentOf[s] = a /\ b.active[s] # "none"}
        BY <2>6 DEF Exact
      <4> QED BY <1>1, <2>2, <2>3, <3>1, <4>1
    <3> QED BY <3>2 DEF Exact
  <2> QED BY <2>1, <2>4, <2>5, <2>6 DEF n
<1> QED BY <1>4, <1>5

LEMMA ActivatedBounded ==
  ASSUME NEW b \in Books, NEW t \in Turns, Bounded(b), ~Blocked(b, t)
  PROVE  Bounded(Activated(b, t))
<1> DEFINE n == Activated(b, t)
<1>1. SessionOf[t] \in Sessions /\ Agent(t) \in Agents
  BY SchedulerAssumption DEF Agent
<1>2. b.exclusive \in [Agents -> Turns \cup {"none"}] /\ b.slots \in [Agents -> SUBSET Sessions]
  BY DEF Books
<1>3. b.exclusive[Agent(t)] = "none"
  BY DEF Blocked
<1>4. CASE Exclusive(t)
  <2>1. n.slots = b.slots /\ n.exclusive = [b.exclusive EXCEPT ![Agent(t)] = t]
    BY <1>4 DEF Activated, Books
  <2>2. b.slots[Agent(t)] = {}
    BY <1>4 DEF Blocked
  <2>3. \A a \in Agents : a # Agent(t) => n.exclusive[a] = b.exclusive[a]
    BY <1>2, <2>1
  <2> HIDE DEF n
  <2>4. Bounded(n)
    BY <2>1, <2>2, <2>3 DEF Bounded
  <2> QED BY <2>4 DEF n
<1>5. CASE ~Exclusive(t)
  <2> DEFINE old == b.slots[Agent(t)]
  <2>1. /\ n.exclusive = b.exclusive
        /\ n.slots = [b.slots EXCEPT ![Agent(t)] = @ \cup {SessionOf[t]}]
    BY <1>5 DEF Activated, Books
  <2>2. /\ n.slots[Agent(t)] = old \cup {SessionOf[t]}
        /\ \A a \in Agents : a # Agent(t) => n.slots[a] = b.slots[a]
    BY <1>1, <1>2, <2>1
  <2>3. ~(Cardinality(old) >= MaxActive) /\ IsFiniteSet(old)
    BY <1>1, <1>5 DEF Blocked, Bounded
  <2> HIDE DEF n, old
  <2>4. /\ IsFiniteSet(old \cup {SessionOf[t]}) /\ Cardinality(old) \in Nat
        /\ Cardinality(old \cup {SessionOf[t]}) \in {Cardinality(old), Cardinality(old) + 1}
    BY <2>3, FS_AddElement, FS_CardinalityType
  <2>5. Cardinality(old \cup {SessionOf[t]}) <= MaxActive
    BY <2>3, <2>4, SchedulerAssumption
  <2>6. Bounded(n)
    BY <1>3, <2>1, <2>2, <2>4, <2>5 DEF Bounded
  <2> QED BY <2>6 DEF n
<1> QED BY <1>4, <1>5

LEMMA DeactivatedBounded ==
  ASSUME NEW b \in Books, NEW t \in Turns, Bounded(b)
  PROVE  Bounded(Deactivated(b, t))
<1> DEFINE n == Deactivated(b, t)
<1>1. SessionOf[t] \in Sessions /\ Agent(t) \in Agents
  BY SchedulerAssumption DEF Agent
<1>2. b.exclusive \in [Agents -> Turns \cup {"none"}] /\ b.slots \in [Agents -> SUBSET Sessions]
  BY DEF Books
<1>3. /\ \A a \in Agents : n.slots[a] \in SUBSET b.slots[a]
      /\ \A a \in Agents : n.exclusive[a] \in {b.exclusive[a], "none"}
  <2>1. CASE Exclusive(t)
    <3>1. /\ n.slots = b.slots
          /\ n.exclusive = [b.exclusive EXCEPT ![Agent(t)] = IF @ = t THEN "none" ELSE @]
      BY <2>1 DEF Deactivated, Books
    <3> QED BY <1>2, <3>1
  <2>2. CASE ~Exclusive(t)
    <3>1. /\ n.exclusive = b.exclusive
          /\ n.slots = [b.slots EXCEPT ![Agent(t)] = @ \ {SessionOf[t]}]
      BY <2>2 DEF Deactivated, Books
    <3> QED BY <1>2, <3>1
  <2> QED BY <2>1, <2>2
<1> HIDE DEF n
<1>4. ASSUME NEW a \in Agents
      PROVE  /\ IsFiniteSet(n.slots[a]) /\ Cardinality(n.slots[a]) <= MaxActive
             /\ n.exclusive[a] # "none" => n.slots[a] = {}
  <2>1. /\ IsFiniteSet(b.slots[a]) /\ Cardinality(b.slots[a]) <= MaxActive
        /\ b.exclusive[a] # "none" => b.slots[a] = {}
    BY DEF Bounded
  <2>2. IsFiniteSet(n.slots[a]) /\ Cardinality(n.slots[a]) <= Cardinality(b.slots[a])
    BY <1>3, <2>1, FS_Subset
  <2>3. Cardinality(n.slots[a]) \in Nat /\ Cardinality(b.slots[a]) \in Nat
    BY <2>1, <2>2, FS_CardinalityType
  <2>4. Cardinality(n.slots[a]) <= MaxActive
    BY <2>1, <2>2, <2>3, SchedulerAssumption
  <2> QED BY <1>3, <2>1, <2>2, <2>4
<1> QED BY <1>4 DEF Bounded, n

-----------------------------------------------------------------------------
(* The pass over the queue                                                 *)

Passes == [books : Books, kept : Seq(Turns), started : SUBSET Turns,
           dropped : SUBSET Turns, over : BOOLEAN]

(* What the pass has made of the first i turns of q and of the books b.    *)
Sound(p, b, q, i) ==
  /\ p \in Passes /\ Named(p.books) /\ Distinct(p.kept)
  /\ \A u \in Turns : InBooks(p.books, u) <=> InBooks(b, u) \/ u \in p.started
  /\ Exact(b) => Exact(p.books)
  /\ Bounded(b) => Bounded(p.books)
  /\ \A u \in Turns : Occurs(p.kept, u) \/ u \in p.started \/ u \in p.dropped
                       <=> \E j \in 1..i : q[j] = u
  /\ p.started \cap p.dropped = {}
  /\ \A u \in p.started \cup p.dropped : ~Occurs(p.kept, u)
  /\ \A u \in p.dropped : Kind[u] = "user"

(* A turn stays in the queue, is dropped from it, or starts. It stays only *)
(* if something is in its way, and ends the pass only as an agent's.       *)
LEMMA ConsideredCases ==
  ASSUME NEW p \in Passes, NEW t \in Turns
  PROVE  \E o \in BOOLEAN :
           \/ /\ (o = p.over /\ (p.over \/ Blocked(p.books, t))) \/ Exclusive(t)
              /\ Considered(p, t) = [p EXCEPT !.kept = Append(@, t), !.over = o]
           \/ /\ Kind[t] = "user"
              /\ Considered(p, t) = [p EXCEPT !.dropped = @ \cup {t}]
           \/ /\ ~Blocked(p.books, t) /\ (o = p.over \/ Exclusive(t))
              /\ Considered(p, t) = [p EXCEPT !.books = Activated(@, t),
                                              !.started = @ \cup {t}, !.over = o]
<1> DEFINE starts == [p EXCEPT !.books = Activated(@, t), !.started = @ \cup {t}]
           stays  == [p EXCEPT !.kept = Append(@, t)]
<1>1. /\ starts = [p EXCEPT !.books = Activated(@, t), !.started = @ \cup {t}, !.over = p.over]
      /\ [starts EXCEPT !.over = TRUE]
           = [p EXCEPT !.books = Activated(@, t), !.started = @ \cup {t}, !.over = TRUE]
      /\ stays = [p EXCEPT !.kept = Append(@, t), !.over = p.over]
      /\ [stays EXCEPT !.over = TRUE] = [p EXCEPT !.kept = Append(@, t), !.over = TRUE]
      /\ p.over \in BOOLEAN
  BY DEF Passes
<1> DEFINE first == p.kept = <<>> /\ p.started = {}
           free  == ~Blocked(p.books, t)
<1>2. Considered(p, t) =
        CASE p.over -> stays
          [] ~p.over /\ Stale(t) -> [p EXCEPT !.dropped = @ \cup {t}]
          [] ~p.over /\ Exclusive(t) ->
               [(IF first /\ free THEN starts ELSE stays) EXCEPT !.over = TRUE]
          [] OTHER -> IF free THEN starts ELSE stays
  BY DEF Considered
<1>3. Stale(t) => Kind[t] = "user" /\ ~Exclusive(t)
  BY DEF Stale, Exclusive
<1> HIDE DEF starts, stays, first
<1>4. CASE p.over
  BY <1>1, <1>2, <1>4
<1>5. CASE ~p.over /\ Stale(t)
  <2>1. Considered(p, t) = [p EXCEPT !.dropped = @ \cup {t}]
    BY <1>2, <1>3, <1>5
  <2> QED BY <2>1, <1>3, <1>5
<1>6. CASE ~p.over /\ ~Stale(t) /\ Exclusive(t)
  <2>1. Considered(p, t) = [(IF first /\ free THEN starts ELSE stays) EXCEPT !.over = TRUE]
    BY <1>2, <1>6
  <2>2. CASE first /\ free
    <3>1. Considered(p, t) = [starts EXCEPT !.over = TRUE]
      BY <2>1, <2>2
    <3> QED BY <1>1, <1>6, <2>2, <3>1
  <2>3. CASE ~(first /\ free)
    <3>1. Considered(p, t) = [stays EXCEPT !.over = TRUE]
      BY <2>1, <2>3
    <3> QED BY <1>1, <1>6, <3>1
  <2> QED BY <2>2, <2>3
<1>7. CASE ~p.over /\ ~Stale(t) /\ ~Exclusive(t)
  <2>1. Considered(p, t) = IF free THEN starts ELSE stays
    BY <1>2, <1>7
  <2> QED BY <1>1, <2>1
<1> QED BY <1>4, <1>5, <1>6, <1>7

LEMMA ConsideredSound ==
  ASSUME NEW b \in Books, NEW q \in Seq(Turns), Distinct(q),
         NEW i \in Nat, i + 1 \in DOMAIN q,
         NEW p, Sound(p, b, q, i)
  PROVE  Sound(Considered(p, q[i + 1]), b, q, i + 1)
<1> DEFINE t == q[i + 1]
           n == Considered(p, t)
<1>1. DOMAIN q = 1..Len(q) /\ Len(q) \in Nat /\ t \in Turns
  OBVIOUS
<1>2. \A u : (\E j \in 1..(i + 1) : q[j] = u) <=> (\E j \in 1..i : q[j] = u) \/ u = t
  BY <1>1
<1>3. /\ \A j \in 1..i : q[j] # t
      /\ ~Occurs(p.kept, t) /\ t \notin p.started /\ t \notin p.dropped
  <2>1. \A j \in 1..i : q[j] # t
    BY <1>1 DEF Distinct
  <2> QED BY <1>1, <2>1 DEF Sound
<1>4. /\ p \in Passes /\ p.kept \in Seq(Turns) /\ p.books \in Books
      /\ p.started \in SUBSET Turns /\ p.dropped \in SUBSET Turns
  BY DEF Sound, Passes
<1>5. PICK o \in BOOLEAN :
           \/ n = [p EXCEPT !.kept = Append(@, t), !.over = o]
           \/ /\ Kind[t] = "user"
              /\ n = [p EXCEPT !.dropped = @ \cup {t}]
           \/ /\ ~Blocked(p.books, t)
              /\ n = [p EXCEPT !.books = Activated(@, t), !.started = @ \cup {t}, !.over = o]
  BY <1>1, <1>4, ConsideredCases
<1> HIDE DEF t, n
<1>6. CASE n = [p EXCEPT !.kept = Append(@, t), !.over = o]
  <2>1. /\ Append(p.kept, t) \in Seq(Turns) /\ Distinct(Append(p.kept, t))
        /\ \A u : Occurs(Append(p.kept, t), u) <=> Occurs(p.kept, u) \/ u = t
    BY <1>1, <1>3, <1>4, AppendFacts DEF Sound
  <2>2. /\ n \in Passes /\ n.kept = Append(p.kept, t) /\ n.books = p.books
        /\ n.started = p.started /\ n.dropped = p.dropped
    BY <1>4, <1>6, <2>1 DEF Passes
  <2> QED BY <1>2, <1>3, <2>1, <2>2 DEF Sound, t, n
<1>7. CASE Kind[t] = "user" /\ n = [p EXCEPT !.dropped = @ \cup {t}]
  <2>1. /\ n \in Passes /\ n.kept = p.kept /\ n.books = p.books
        /\ n.started = p.started /\ n.dropped = p.dropped \cup {t}
    BY <1>1, <1>4, <1>7 DEF Passes
  <2> QED BY <1>2, <1>3, <1>7, <2>1 DEF Sound, t, n
<1>8. CASE /\ ~Blocked(p.books, t)
           /\ n = [p EXCEPT !.books = Activated(@, t), !.started = @ \cup {t}, !.over = o]
  <2>1. /\ p.books.exclusive[Agent(t)] = "none"
        /\ Exclusive(t) \/ p.books.active[SessionOf[t]] = "none"
    BY <1>8 DEF Blocked
  <2>2. Named(p.books)
    BY DEF Sound
  <2>3. /\ Activated(p.books, t) \in Books /\ Named(Activated(p.books, t))
        /\ \A u \in Turns : InBooks(Activated(p.books, t), u) <=> InBooks(p.books, u) \/ u = t
        /\ Exact(p.books) => Exact(Activated(p.books, t))
    BY <1>1, <1>4, <2>1, <2>2, ActivatedFacts
  <2>5. Bounded(p.books) => Bounded(Activated(p.books, t))
    BY <1>1, <1>4, <1>8, ActivatedBounded
  <2>4. /\ n \in Passes /\ n.kept = p.kept /\ n.books = Activated(p.books, t)
        /\ n.started = p.started \cup {t} /\ n.dropped = p.dropped
    BY <1>1, <1>4, <1>8, <2>3 DEF Passes
  <2> QED BY <1>2, <1>3, <2>3, <2>4, <2>5 DEF Sound, t, n
<1> QED BY <1>5, <1>6, <1>7, <1>8 DEF t, n

LEMMA PassOverDefined ==
  ASSUME NEW b, NEW q, Len(q) \in Nat
  PROVE  PassOver(b, q) =
           [i \in 0..Len(q) |->
              IF i = 0
                THEN [books |-> b, kept |-> <<>>, started |-> {}, dropped |-> {}, over |-> FALSE]
                ELSE Considered(PassOver(b, q)[i - 1], q[i])]
<1> DEFINE base == [books |-> b, kept |-> <<>>, started |-> {}, dropped |-> {}, over |-> FALSE]
           Is(f, n) == f = [i \in 0..n |-> IF i = 0 THEN base ELSE Considered(f[i - 1], q[i])]
           S == {n \in Nat : \E f : Is(f, n)}
<1> HIDE DEF base
<1>1. 0 \in S
  <2> DEFINE f == [i \in {0} |-> base]
  <2>1. Is(f, 0)
    OBVIOUS
  <2> QED BY <2>1
<1>2. ASSUME NEW n \in Nat, n \in S PROVE n + 1 \in S
  <2>1. PICK f : Is(f, n)
    BY <1>2
  <2> DEFINE g == [i \in 0..(n + 1) |-> IF i <= n THEN f[i] ELSE Considered(f[n], q[n + 1])]
  <2>2. ASSUME NEW i \in 0..(n + 1)
        PROVE  g[i] = IF i = 0 THEN base ELSE Considered(g[i - 1], q[i])
    <3>1. CASE i = 0
      BY <2>1, <3>1
    <3>2. CASE i # 0 /\ i <= n
      <4>1. i \in 0..n /\ i - 1 \in 0..(n + 1) /\ i - 1 <= n
        BY <3>2
      <4>2. g[i] = f[i] /\ g[i - 1] = f[i - 1]
        BY <3>2, <4>1
      <4>3. f[i] = Considered(f[i - 1], q[i])
        BY <2>1, <3>2, <4>1
      <4> QED BY <3>2, <4>2, <4>3
    <3>3. CASE i = n + 1
      <4>1. g[i] = Considered(f[n], q[n + 1]) /\ g[i - 1] = f[n] /\ i # 0
        BY <3>3
      <4> QED BY <3>3, <4>1
    <3> QED BY <3>1, <3>2, <3>3
  <2>3. Is(g, n + 1)
    <3>1. g = [i \in 0..(n + 1) |-> g[i]]
      OBVIOUS
    <3> HIDE DEF g
    <3> QED BY <2>2, <3>1
  <2>4. \E h : Is(h, n + 1)
    <3> HIDE DEF g, Is
    <3> QED BY <2>3
  <2> QED BY <2>4
<1>3. Nat \subseteq S
  <2> HIDE DEF S
  <2> QED BY <1>1, <1>2, Induction
<1>4. \E f : Is(f, Len(q))
  BY <1>3
<1>5. PassOver(b, q) = CHOOSE f : Is(f, Len(q))
  BY DEF PassOver, base
<1>6. Is(PassOver(b, q), Len(q))
  BY <1>4, <1>5
<1> QED BY <1>6 DEF base

LEMMA PassOverSteps ==
  ASSUME NEW b, NEW q \in Seq(Turns)
  PROVE  /\ PassOver(b, q)[0]
              = [books |-> b, kept |-> <<>>, started |-> {}, dropped |-> {}, over |-> FALSE]
         /\ \A i \in Nat : i + 1 \in DOMAIN q =>
              PassOver(b, q)[i + 1] = Considered(PassOver(b, q)[i], q[i + 1])
<1> DEFINE P == PassOver(b, q)
           base == [books |-> b, kept |-> <<>>, started |-> {}, dropped |-> {}, over |-> FALSE]
<1>1. DOMAIN q = 1..Len(q) /\ Len(q) \in Nat
  OBVIOUS
<1>2. P = [i \in 0..Len(q) |-> IF i = 0 THEN base ELSE Considered(P[i - 1], q[i])]
  BY <1>1, PassOverDefined
<1> HIDE DEF P, base
<1>3. P[0] = base
  BY <1>1, <1>2
<1>4. ASSUME NEW i \in Nat, i + 1 \in DOMAIN q
      PROVE  P[i + 1] = Considered(P[i], q[i + 1])
  <2>1. i + 1 \in 0..Len(q) /\ i + 1 # 0 /\ (i + 1) - 1 = i
    BY <1>1, <1>4
  <2> QED BY <1>2, <2>1
<1> QED BY <1>3, <1>4 DEF base, P

LEMMA PassBegins ==
  ASSUME NEW b \in Books, Named(b), NEW q
  PROVE  Sound([books |-> b, kept |-> <<>>, started |-> {}, dropped |-> {}, over |-> FALSE],
               b, q, 0)
<1> DEFINE p == [books |-> b, kept |-> <<>>, started |-> {}, dropped |-> {}, over |-> FALSE]
<1>1. p \in Passes
  BY DEF Passes
<1>2. p.books = b /\ p.kept = <<>> /\ p.started = {} /\ p.dropped = {}
  OBVIOUS
<1>3. Distinct(p.kept) /\ \A u : ~Occurs(p.kept, u)
  BY <1>2 DEF Distinct, Occurs
<1> HIDE DEF p
<1>4. Sound(p, b, q, 0)
  BY <1>1, <1>2, <1>3 DEF Sound
<1> QED BY <1>4 DEF p

LEMMA PassSound ==
  ASSUME NEW b \in Books, Named(b), NEW q \in Seq(Turns), Distinct(q)
  PROVE  Sound(Pass(b, q), b, q, Len(q))
<1> DEFINE P == PassOver(b, q)
           S == {i \in Nat : i \in 0..Len(q) => Sound(P[i], b, q, i)}
<1>1. DOMAIN q = 1..Len(q) /\ Len(q) \in Nat
  OBVIOUS
<1>2. \A i \in Nat : i + 1 \in DOMAIN q => P[i + 1] = Considered(P[i], q[i + 1])
  BY PassOverSteps
<1>3. Sound(P[0], b, q, 0)
  BY PassOverSteps, PassBegins
<1> HIDE DEF P
<1>4. ASSUME NEW i \in Nat, i \in S PROVE i + 1 \in S
  <2> SUFFICES ASSUME i + 1 \in 0..Len(q) PROVE Sound(P[i + 1], b, q, i + 1)
    OBVIOUS
  <2>1. i \in 0..Len(q) /\ i + 1 \in DOMAIN q
    BY <1>1
  <2> QED BY <1>2, <1>4, <2>1, ConsideredSound
<1>5. Nat \subseteq S
  <2>1. 0 \in S
    BY <1>3
  <2> HIDE DEF S
  <2> QED BY <1>4, <2>1, Induction
<1> QED BY <1>1, <1>5 DEF Pass, P

-----------------------------------------------------------------------------
(* Steps                                                                   *)

LEMMA ConstantFacts ==
  /\ "none" \notin Turns
  /\ \A u \in Turns : SessionOf[u] \in Sessions /\ Agent(u) \in Agents
                     /\ Agent(u) = AgentOf[SessionOf[u]]
  /\ \A u \in Turns : Exclusive(u) => ~Chat(u)
BY SchedulerAssumption DEF Agent, Exclusive, Chat

LEMMA BooksFacts ==
  \A b \in Books : b = [active |-> b.active, slots |-> b.slots, exclusive |-> b.exclusive]
BY DEF Books

LEMMA HoldsFacts == \A u \in Turns : Holds(u) <=> InBooks(books, u)
BY DEF Holds, InBooks, books

LEMMA QueuedFacts == \A u \in Turns : Queued(u) <=> Occurs(queue[Agent(u)], u)
BY DEF Queued, Occurs

(* A step that leaves the books, the queue and every place alone.          *)
LEMMA NothingMoves ==
  ASSUME IInv, OthersTyped', UNCHANGED <<bookVars, queue, pc, stray>>
  PROVE  IInv'
<1>1. /\ active' = active /\ slots' = slots /\ exclusive' = exclusive /\ queue' = queue
      /\ pc' = pc /\ stray' = stray /\ books' = books
  BY DEF bookVars, books
<1>2. \A u : Holds(u)' <=> Holds(u)
  BY <1>1 DEF Holds
<1>3. BooksTyped' /\ SlotsExact'
  BY <1>1 DEF IInv, BooksTyped, SlotsExact
<1>4. PlacesMatch'
  BY <1>1, <1>2 DEF IInv, PlacesMatch
<1>5. QueuesTyped'
  BY <1>1, <1>2 DEF IInv, QueuesTyped
<1>6. ReservationsWait'
  BY <1>1, <1>2 DEF IInv, ReservationsWait
<1> QED BY <1>3, <1>4, <1>5, <1>6 DEF IInv

(* A step that leaves the books and the queue alone, and moves a turn that *)
(* is in no queue, or a reservation that is.                               *)
LEMMA OneMoves ==
  ASSUME IInv, OthersTyped', UNCHANGED <<bookVars, queue, stray>>,
         NEW t \in Turns, NEW place, pc' = [pc EXCEPT ![t] = place],
         place \in MustHold => Holds(t), Holds(t) => place \in MayHold,
         \/ place = "expired" /\ pc[t] = "queued" /\ ~Chat(t)
         \/ place \notin {"queued", "expired"} /\ pc[t] \notin {"queued", "expired"}
  PROVE  IInv'
<1>1. /\ active' = active /\ slots' = slots /\ exclusive' = exclusive /\ queue' = queue
      /\ stray' = stray /\ books' = books
  BY DEF bookVars, books
<1>2. \A u : Holds(u)' <=> Holds(u)
  BY <1>1 DEF Holds
<1>3. pc'[t] = place /\ \A u \in Turns : u # t => pc'[u] = pc[u]
  BY DEF IInv, OthersTyped
<1>4. BooksTyped' /\ SlotsExact'
  BY <1>1 DEF IInv, BooksTyped, SlotsExact
<1>5. PlacesMatch'
  BY <1>2, <1>3 DEF IInv, PlacesMatch
<1>6. QueuesTyped'
  BY <1>1, <1>2, <1>3 DEF IInv, QueuesTyped
<1>7. ReservationsWait'
  BY <1>1, <1>2, <1>3 DEF IInv, ReservationsWait
<1> QED BY <1>4, <1>5, <1>6, <1>7 DEF IInv

(* A turn leaves the queue, if it is there, and goes to a place.           *)
LEMMA OneLeavesQueue ==
  ASSUME IInv, OthersTyped', UNCHANGED <<bookVars, stray>>,
         NEW t \in Turns, NEW place, pc' = [pc EXCEPT ![t] = place],
         queue' = [queue EXCEPT ![Agent(t)] = WithoutTurn(@, t)],
         place \in MustHold => Holds(t), Holds(t) => place \in MayHold,
         place \notin {"queued", "expired"}
  PROVE  IInv'
<1>1. /\ active' = active /\ slots' = slots /\ exclusive' = exclusive
      /\ stray' = stray /\ books' = books
  BY DEF bookVars, books
<1>2. \A u : Holds(u)' <=> Holds(u)
  BY <1>1 DEF Holds
<1>3. pc'[t] = place /\ \A u \in Turns : u # t => pc'[u] = pc[u]
  BY DEF IInv, OthersTyped
<1>4. /\ Agent(t) \in Agents /\ queue \in [Agents -> Seq(Turns)]
      /\ queue[Agent(t)] \in Seq(Turns) /\ Distinct(queue[Agent(t)])
  BY ConstantFacts DEF IInv, QueuesTyped
<1>5. /\ WithoutTurn(queue[Agent(t)], t) \in Seq(Turns)
      /\ \A u : Occurs(WithoutTurn(queue[Agent(t)], t), u)
                <=> Occurs(queue[Agent(t)], u) /\ u # t
      /\ Distinct(WithoutTurn(queue[Agent(t)], t))
  BY <1>4, WithoutFacts
<1>6. /\ queue' \in [Agents -> Seq(Turns)]
      /\ queue'[Agent(t)] = WithoutTurn(queue[Agent(t)], t)
      /\ \A a \in Agents : a # Agent(t) => queue'[a] = queue[a]
  BY <1>4, <1>5
<1>7. BooksTyped' /\ SlotsExact'
  BY <1>1 DEF IInv, BooksTyped, SlotsExact
<1>8. PlacesMatch'
  BY <1>2, <1>3 DEF IInv, PlacesMatch
<1>9. QueuesTyped'
  <2>1. ASSUME NEW a \in Agents
        PROVE  /\ Distinct(queue'[a])
               /\ \A u \in Turns : Occurs(queue'[a], u) => u # t /\ Occurs(queue[a], u)
    BY <1>4, <1>5, <1>6 DEF IInv, QueuesTyped
  <2> QED BY <1>2, <1>3, <1>6, <2>1 DEF IInv, QueuesTyped
<1>10. ReservationsWait'
  <2>1. ASSUME NEW u \in Turns, u # t, Occurs(queue[Agent(u)], u)
        PROVE  Occurs(queue'[Agent(u)], u)
    BY <1>4, <1>5, <1>6, <2>1, ConstantFacts
  <2> QED BY <1>2, <1>3, <2>1 DEF IInv, ReservationsWait
<1> QED BY <1>7, <1>8, <1>9, <1>10 DEF IInv

LEMMA WaitsKeepsIInv ==
  ASSUME IInv, OthersTyped', NEW t \in Turns, Waits(t)
  PROVE  IInv'
<1>1. /\ active' = active /\ slots' = slots /\ exclusive' = exclusive
      /\ stray' = stray /\ books' = books
      /\ queue' = [queue EXCEPT ![Agent(t)] = Enqueued(@, t)]
  BY DEF Waits, bookVars, books
<1>2. \A u : Holds(u)' <=> Holds(u)
  BY <1>1 DEF Holds
<1>3. pc'[t] = "queued" /\ (\A u \in Turns : u # t => pc'[u] = pc[u])
      /\ pc[t] \in {"new", "admitted", "redo"}
  BY DEF IInv, OthersTyped, Waits, Goes, Ready
<1>4. ~Holds(t) /\ ~Occurs(queue[Agent(t)], t)
  BY <1>3, ConstantFacts DEF IInv, PlacesMatch, MayHold, MustHold, QueuesTyped
<1>5. /\ Agent(t) \in Agents /\ queue \in [Agents -> Seq(Turns)]
      /\ queue[Agent(t)] \in Seq(Turns) /\ Distinct(queue[Agent(t)])
  BY ConstantFacts DEF IInv, QueuesTyped
<1>6. /\ Enqueued(queue[Agent(t)], t) \in Seq(Turns)
      /\ \A u : Occurs(Enqueued(queue[Agent(t)], t), u)
                <=> Occurs(queue[Agent(t)], u) \/ u = t
      /\ Distinct(Enqueued(queue[Agent(t)], t))
  BY <1>4, <1>5, EnqueuedFacts
<1>7. /\ queue' \in [Agents -> Seq(Turns)]
      /\ queue'[Agent(t)] = Enqueued(queue[Agent(t)], t)
      /\ \A a \in Agents : a # Agent(t) => queue'[a] = queue[a]
  BY <1>1, <1>5, <1>6
<1>8. BooksTyped' /\ SlotsExact'
  BY <1>1 DEF IInv, BooksTyped, SlotsExact
<1>9. PlacesMatch'
  BY <1>2, <1>3, <1>4 DEF IInv, PlacesMatch, MustHold
<1>10. QueuesTyped'
  <2>1. ASSUME NEW a \in Agents
        PROVE  /\ Distinct(queue'[a])
               /\ \A u \in Turns : Occurs(queue'[a], u) =>
                    Occurs(queue[a], u) \/ (u = t /\ a = Agent(t))
    BY <1>5, <1>6, <1>7 DEF IInv, QueuesTyped
  <2> QED BY <1>2, <1>3, <1>4, <1>7, <2>1 DEF IInv, QueuesTyped
<1>11. ReservationsWait'
  <2>1. ASSUME NEW u \in Turns, u = t \/ Occurs(queue[Agent(u)], u)
        PROVE  Occurs(queue'[Agent(u)], u)
    BY <1>5, <1>6, <1>7, <2>1, ConstantFacts
  <2> QED BY <1>2, <1>3, <2>1 DEF IInv, ReservationsWait
<1> QED BY <1>8, <1>9, <1>10, <1>11 DEF IInv

LEMMA StartsKeepsIInv ==
  ASSUME IInv, OthersTyped', NEW t \in Turns, Starts(t)
  PROVE  IInv'
<1> DEFINE b == Activated(books, t)
<1>1. /\ active' = b.active /\ slots' = b.slots /\ exclusive' = b.exclusive
      /\ queue' = queue /\ stray' = stray /\ ~Blocked(books, t)
  BY DEF Starts, MustWait
<1>2. books \in Books /\ Named(books)
  BY DEF IInv, BooksTyped
<1>3. /\ b \in Books /\ Named(b) /\ (Exact(books) => Exact(b))
      /\ \A u \in Turns : InBooks(b, u) <=> InBooks(books, u) \/ u = t
  <2>1. books.exclusive[Agent(t)] = "none" /\ (Exclusive(t) \/ books.active[SessionOf[t]] = "none")
    BY <1>1 DEF Blocked
  <2> QED BY <1>2, <2>1, ActivatedFacts
<1>3a. Bounded(b)
  BY <1>1, <1>2, ActivatedBounded DEF IInv, BooksTyped
<1> HIDE DEF b
<1>4. books' = b
  BY <1>1, <1>3, BooksFacts DEF books
<1>5. \A u \in Turns : Holds(u)' <=> Holds(u) \/ u = t
  <2>1. \A u \in Turns : Holds(u)' <=> InBooks(b, u)
    BY <1>1 DEF Holds, InBooks
  <2> QED BY <1>3, <2>1, HoldsFacts
<1>6. pc'[t] \in {"submit", "running"} /\ (\A u \in Turns : u # t => pc'[u] = pc[u])
      /\ pc[t] \in {"new", "admitted", "redo"}
  BY DEF IInv, OthersTyped, Starts, Goes, Ready
<1>7. BooksTyped' /\ SlotsExact'
  <2>1. books' \in Books /\ Named(books)' /\ Bounded(books)'
    BY <1>3, <1>3a, <1>4 DEF Named, Bounded
  <2>2. Exact(books) => Exact(books)'
    BY <1>3, <1>4 DEF Exact
  <2> QED BY <1>1, <2>1, <2>2 DEF IInv, BooksTyped, SlotsExact
<1>8. PlacesMatch'
  BY <1>5, <1>6 DEF IInv, PlacesMatch, MustHold, MayHold
<1>9. QueuesTyped'
  BY <1>1, <1>5, <1>6 DEF IInv, QueuesTyped
<1>10. ReservationsWait'
  BY <1>1, <1>5, <1>6 DEF IInv, ReservationsWait
<1> QED BY <1>7, <1>8, <1>9, <1>10 DEF IInv

(* A release, wherever the turn and those it starts go.                    *)
LEMMA ReleaseKeepsIInv ==
  ASSUME IInv, NEW t \in Turns, pc[t] \notin {"queued", "expired"},
         NEW place, NEW depth, NEW raisedPlace, NEW raisedDepth,
         {place, raisedPlace} \subseteq {"redo", "ended", "raised"},
         {depth, raisedDepth} \subseteq Nat,
         clearing' \subseteq Turns,
         Release(t, place, depth, raisedPlace, raisedDepth)
  PROVE  IInv'
<1> DEFINE d == Deactivated(books, t)
           q == queue[Agent(t)]
           r == Pass(d, q)
           chats == {x \in r.started : Chat(x)}
<1>1. /\ active' = r.books.active /\ slots' = r.books.slots
      /\ exclusive' = r.books.exclusive
      /\ queue' = [queue EXCEPT ![Agent(t)] = r.kept]
      /\ stray' = IF Holds(t) THEN stray ELSE stray \cup {t}
      /\ runtime' = runtime /\ defers' = defers
  BY DEF Release
<1>2. \E lost \in SUBSET {x \in Turns : pc[x] = "submit" /\ x # t}, to \in {"submit", "leaked"},
         p \in {"redo", "ended", "raised"}, n \in Nat : Moves(t, r, lost, to, p, n)
  <2>1. NotYetSubmitted(t) \subseteq {x \in Turns : pc[x] = "submit" /\ x # t}
    BY DEF NotYetSubmitted, IInv, OthersTyped
  <2>2. \/ Moves(t, r, {}, "submit", place, depth)
        \/ \E lost \in SUBSET NotYetSubmitted(t) :
             Moves(t, r, lost, "leaked", raisedPlace, raisedDepth)
    BY DEF Release
  <2> HIDE DEF r
  <2> QED BY <2>1, <2>2
<1>3. failures' \in 0..MaxFailures
  BY SchedulerAssumption DEF Release, IInv, OthersTyped
<1>4. PICK lost \in SUBSET {x \in Turns : pc[x] = "submit" /\ x # t}, to \in {"submit", "leaked"},
           p \in {"redo", "ended", "raised"}, n \in Nat : Moves(t, r, lost, to, p, n)
  BY <1>2
<1>5. /\ Agent(t) \in Agents /\ queue \in [Agents -> Seq(Turns)]
      /\ q \in Seq(Turns) /\ Distinct(q) /\ DOMAIN q = 1..Len(q)
      /\ \A u \in Turns : Occurs(q, u) =>
           Agent(u) = Agent(t) /\ pc[u] \in {"queued", "expired"} /\ ~Holds(u)
  BY ConstantFacts DEF IInv, QueuesTyped
<1>6. /\ d \in Books /\ Named(d)
      /\ \A u \in Turns : InBooks(d, u) <=> Holds(u) /\ u # t
      /\ Exact(books) /\ Holds(t) => Exact(d)
      /\ Bounded(d)
  BY DeactivatedFacts, DeactivatedBounded, HoldsFacts DEF IInv, BooksTyped
<1> HIDE DEF d, q
<1>7. Sound(r, d, q, Len(q))
  BY <1>5, <1>6, PassSound
<1> HIDE DEF r
<1>8. /\ r \in Passes /\ Named(r.books) /\ Distinct(r.kept)
      /\ r.books \in Books /\ r.kept \in Seq(Turns)
      /\ r.started \subseteq Turns /\ r.dropped \subseteq Turns
      /\ Exact(d) => Exact(r.books)
      /\ Bounded(r.books)
      /\ \A u \in Turns : InBooks(r.books, u) <=> (Holds(u) /\ u # t) \/ u \in r.started
      /\ \A u \in Turns : Occurs(r.kept, u) \/ u \in r.started \/ u \in r.dropped
                           <=> Occurs(q, u)
      /\ \A u \in r.started \cup r.dropped : ~Occurs(r.kept, u)
      /\ r.started \cap r.dropped = {}
      /\ \A u \in r.dropped : Kind[u] = "user"
  <2>1. \A u \in Turns : (\E j \in 1..Len(q) : q[j] = u) <=> Occurs(q, u)
    BY <1>5 DEF Occurs
  <2> QED BY <1>6, <1>7, <2>1 DEF Sound, Passes
<1>9. books' = r.books
  BY <1>1, <1>8, BooksFacts DEF books
<1>10. \A u \in Turns : Holds(u)' <=> (Holds(u) /\ u # t) \/ u \in r.started
  BY <1>1, <1>8 DEF Holds, InBooks
<1>11. \A u \in Turns : pc'[u] = IF u = t THEN p
                                ELSE IF u \in r.dropped THEN "ended"
                                ELSE IF u \in chats \cup lost THEN to
                                ELSE IF u \in r.started /\ pc[u] = "queued" THEN "granted"
                                ELSE pc[u]
  BY <1>4 DEF Moves
<1>12. /\ queue' \in [Agents -> Seq(Turns)] /\ queue'[Agent(t)] = r.kept
       /\ \A a \in Agents : a # Agent(t) => queue'[a] = queue[a]
  BY <1>1, <1>5, <1>8
<1>13. ~Occurs(q, t) /\ t \notin r.started
  BY <1>5, <1>8
<1>14. OthersTyped'
  <2>1. pc' \in [Turns -> Places]
    BY <1>4 DEF IInv, OthersTyped, Places, Moves
  <2>2. frames' \in [Turns -> Nat] /\ dequeued' \subseteq Turns
    BY <1>4, <1>8 DEF IInv, OthersTyped, Moves
  <2> QED BY <1>1, <1>3, <2>1, <2>2 DEF IInv, OthersTyped
<1>15. BooksTyped' /\ SlotsExact'
  <2>1. books' \in Books /\ Named(books)' /\ Bounded(books)'
    BY <1>8, <1>9 DEF Named, Bounded
  <2>2. Exact(books) /\ Holds(t) => Exact(books)'
    BY <1>6, <1>8, <1>9 DEF Exact
  <2>3. stray' = {} => stray = {} /\ Holds(t)
    BY <1>1
  <2> QED BY <2>1, <2>2, <2>3 DEF IInv, BooksTyped, SlotsExact
<1>16. PlacesMatch'
  <2> SUFFICES ASSUME NEW u \in Turns
               PROVE  (pc'[u] \in MustHold => Holds(u)') /\ (Holds(u)' => pc'[u] \in MayHold)
    BY DEF PlacesMatch
  <2>1. (pc[u] \in MustHold => Holds(u)) /\ (Holds(u) => pc[u] \in MayHold)
    BY DEF IInv, PlacesMatch
  <2>2. CASE u = t
    BY <1>10, <1>11, <1>13, <2>2 DEF MustHold
  <2>3. CASE u # t /\ Occurs(q, u)
    BY <1>5, <1>8, <1>10, <1>11, <2>3 DEF MustHold, MayHold
  <2>4. CASE u # t /\ ~Occurs(q, u)
    BY <1>8, <1>10, <1>11, <2>1, <2>4 DEF MustHold, MayHold
  <2> QED BY <2>2, <2>3, <2>4
<1>17. QueuesTyped'
  <2>1. ASSUME NEW a \in Agents
        PROVE  /\ Distinct(queue'[a])
               /\ \A u \in Turns : Occurs(queue'[a], u) =>
                    /\ Occurs(queue[a], u) /\ u # t
                    /\ u \notin r.started \cup r.dropped
    <3>1. CASE a = Agent(t)
      BY <1>5, <1>8, <1>12, <1>13, <3>1 DEF q
    <3>2. CASE a # Agent(t)
      BY <1>5, <1>8, <1>12, <3>2 DEF IInv, QueuesTyped
    <3> QED BY <3>1, <3>2
  <2>2. ASSUME NEW a \in Agents, NEW u \in Turns, Occurs(queue'[a], u)
        PROVE  Agent(u) = a /\ pc'[u] \in {"queued", "expired"} /\ ~Holds(u)'
    <3>1. Agent(u) = a /\ pc[u] \in {"queued", "expired"} /\ ~Holds(u)
      BY <2>1, <2>2 DEF IInv, QueuesTyped
    <3> QED BY <1>10, <1>11, <2>1, <2>2, <3>1
  <2> QED BY <1>12, <2>1, <2>2 DEF QueuesTyped
<1>18. ReservationsWait'
  <2>0. \A u \in Turns : pc'[u] = "expired" => pc[u] = "expired"
    BY <1>11
  <2> SUFFICES ASSUME NEW u \in Turns, ~Chat(u), pc'[u] \in {"queued", "expired"}
               PROVE  Occurs(queue'[Agent(u)], u) \/ (pc'[u] = "expired" /\ Holds(u)')
    BY <2>0 DEF IInv, ReservationsWait, Chat
  <2>1. u # t /\ u \notin r.dropped /\ pc'[u] = pc[u]
    BY <1>8, <1>11 DEF Chat
  <2>2. u \in r.started => pc[u] = "expired" /\ Holds(u)'
    BY <1>10, <1>11, <2>1
  <2>3. CASE Occurs(queue[Agent(u)], u)
    BY <1>8, <1>12, <2>1, <2>2, <2>3, ConstantFacts DEF q
  <2>4. CASE ~Occurs(queue[Agent(u)], u)
    BY <1>10, <2>1, <2>4 DEF IInv, ReservationsWait
  <2> QED BY <2>3, <2>4
<1> QED BY <1>14, <1>15, <1>16, <1>17, <1>18 DEF IInv

-----------------------------------------------------------------------------
(* Invariance                                                              *)

LEMMA InitIInv == Init => IInv
<1> SUFFICES ASSUME Init PROVE IInv
  OBVIOUS
<1>1. OthersTyped
  BY SchedulerAssumption DEF Init, OthersTyped, Places
<1>2. /\ active = [s \in Sessions |-> "none"] /\ slots = [a \in Agents |-> {}]
      /\ exclusive = [a \in Agents |-> "none"] /\ queue = [a \in Agents |-> <<>>]
      /\ pc = [t \in Turns |-> "new"]
  BY DEF Init
<1>3. BooksTyped
  <2>1. books \in Books /\ Named(books)
    BY <1>2 DEF Books, books, Named
  <2>2. Bounded(books)
    BY <1>2, FS_EmptySet, SchedulerAssumption DEF books, Bounded
  <2> QED BY <2>1, <2>2 DEF BooksTyped
<1>4. \A u \in Turns : ~Holds(u)
  BY <1>2, ConstantFacts DEF Holds
<1>5. PlacesMatch
  BY <1>2, <1>4 DEF PlacesMatch, MustHold
<1>6. QueuesTyped
  BY <1>2 DEF QueuesTyped, Distinct, Occurs
<1>7. SlotsExact
  BY <1>2 DEF SlotsExact, Exact, books
<1>8. ReservationsWait
  BY <1>2 DEF ReservationsWait
<1> QED BY <1>1, <1>3, <1>5, <1>6, <1>7, <1>8 DEF IInv

LEMMA StutterIInv == IInv /\ UNCHANGED vars => IInv'
<1> SUFFICES ASSUME IInv, UNCHANGED vars PROVE IInv'
  OBVIOUS
<1>1. OthersTyped' /\ UNCHANGED <<bookVars, queue, pc, stray>>
  BY DEF IInv, OthersTyped, vars, stackVars
<1> QED BY <1>1, NothingMoves

(* The steps that release nothing                                          *)
LEMMA QuietSteps ==
  ASSUME IInv, NEW t \in Turns,
         \/ Admits(t) \/ SubmitsUser(t) \/ SubmitsProactive(t) \/ DefersProactive(t)
         \/ SubmitRaises(t) \/ UnwindsRuntime(t) \/ ClearsRuntime(t) \/ Finishes(t)
         \/ EndsCancelled(t) \/ Superseded(t) \/ SeesGrant(t) \/ Expires(t)
  PROVE  IInv'
<1> USE ConstantFacts
<1>1. OthersTyped /\ PlacesMatch /\ pc \in [Turns -> Places]
  BY DEF IInv, OthersTyped
<1>2. (pc[t] \in MustHold => Holds(t)) /\ (Holds(t) => pc[t] \in MayHold)
  BY <1>1 DEF PlacesMatch
<1>3. CASE Admits(t)
  <2>1. OthersTyped'
    BY <1>1, <1>3 DEF Admits, Goes, OthersTyped, Places, stackVars
  <2>2. /\ UNCHANGED <<bookVars, queue, stray>> /\ pc' = [pc EXCEPT ![t] = "admitted"]
        /\ pc[t] = "new"
    BY <1>3 DEF Admits, Goes
  <2> QED BY <1>2, <2>1, <2>2, OneMoves DEF MustHold, MayHold
<1>4. CASE SubmitsUser(t)
  <2>1. OthersTyped'
    BY <1>1, <1>4 DEF SubmitsUser, Goes, OthersTyped, Places, stackVars
  <2>2. /\ UNCHANGED <<bookVars, queue, stray>> /\ pc' = [pc EXCEPT ![t] = "running"]
        /\ pc[t] = "submit"
    BY <1>4 DEF SubmitsUser, Goes
  <2> QED BY <1>2, <2>1, <2>2, OneMoves DEF MustHold, MayHold
<1>5. CASE SubmitsProactive(t)
  <2>1. OthersTyped'
    BY <1>1, <1>5 DEF SubmitsProactive, Goes, OthersTyped, Places, stackVars
  <2>2. /\ UNCHANGED <<bookVars, queue, stray>> /\ pc' = [pc EXCEPT ![t] = "running"]
        /\ pc[t] = "submit"
    BY <1>5 DEF SubmitsProactive, Goes
  <2> QED BY <1>2, <2>1, <2>2, OneMoves DEF MustHold, MayHold
<1>6. CASE DefersProactive(t)
  <2>1. OthersTyped'
    BY <1>1, <1>6, SchedulerAssumption DEF DefersProactive, Goes, OthersTyped, Places, stackVars
  <2>2. /\ UNCHANGED <<bookVars, queue, stray>> /\ pc' = [pc EXCEPT ![t] = "defers"]
        /\ pc[t] = "submit"
    BY <1>6 DEF DefersProactive, Goes
  <2> QED BY <1>2, <2>1, <2>2, OneMoves DEF MustHold, MayHold
<1>7. CASE SubmitRaises(t)
  <2>1. OthersTyped'
    BY <1>1, <1>7, SchedulerAssumption DEF SubmitRaises, Goes, OthersTyped, Places, stackVars
  <2>2. /\ UNCHANGED <<bookVars, queue, stray>> /\ pc' = [pc EXCEPT ![t] = "raised"]
        /\ pc[t] = "submit"
    BY <1>7 DEF SubmitRaises, Goes
  <2> QED BY <1>2, <2>1, <2>2, OneMoves DEF MustHold, MayHold
<1>8. CASE UnwindsRuntime(t) \/ ClearsRuntime(t) \/ Superseded(t)
  <2>1. OthersTyped'
    BY <1>1, <1>8 DEF UnwindsRuntime, ClearsRuntime, Superseded, SessionFreed, OthersTyped,
                      stackVars
  <2>2. UNCHANGED <<bookVars, queue, pc, stray>>
    BY <1>8 DEF UnwindsRuntime, ClearsRuntime, Superseded
  <2> QED BY <2>1, <2>2, NothingMoves
<1>9. CASE Finishes(t)
  <2>1. OthersTyped'
    BY <1>1, <1>9 DEF Finishes, SessionFreed, Goes, OthersTyped, Places, stackVars
  <2>2. /\ UNCHANGED <<bookVars, queue, stray>> /\ pc' = [pc EXCEPT ![t] = "leaving"]
        /\ pc[t] = "running"
    BY <1>9 DEF Finishes, Goes
  <2> QED BY <1>2, <2>1, <2>2, OneMoves DEF MustHold, MayHold
<1>10. CASE EndsCancelled(t)
  <2>1. OthersTyped'
    BY <1>1, <1>10 DEF EndsCancelled, SessionFreed, Goes, OthersTyped, Places, stackVars
  <2>2. /\ UNCHANGED <<bookVars, queue, stray>> /\ pc' = [pc EXCEPT ![t] = "ended"]
        /\ pc[t] = "cancelled"
    BY <1>10 DEF EndsCancelled, Goes
  <2> QED BY <1>2, <2>1, <2>2, OneMoves DEF MustHold, MayHold
<1>11. CASE SeesGrant(t)
  <2>1. OthersTyped'
    BY <1>1, <1>11 DEF SeesGrant, Goes, OthersTyped, Places, stackVars
  <2>2. /\ UNCHANGED <<bookVars, queue, stray>> /\ pc' = [pc EXCEPT ![t] = "running"]
        /\ pc[t] = "granted"
    BY <1>11 DEF SeesGrant, Goes
  <2> QED BY <1>2, <2>1, <2>2, OneMoves DEF MustHold, MayHold
<1>12. CASE Expires(t)
  <2>1. OthersTyped'
    BY <1>1, <1>12 DEF Expires, Goes, OthersTyped, Places, stackVars
  <2>2. /\ UNCHANGED <<bookVars, queue, stray>> /\ pc' = [pc EXCEPT ![t] = "expired"]
        /\ pc[t] = "queued" /\ ~Chat(t)
    BY <1>12 DEF Expires, Goes
  <2> QED BY <1>2, <2>1, <2>2, OneMoves DEF MustHold, MayHold
<1> QED BY <1>3, <1>4, <1>5, <1>6, <1>7, <1>8, <1>9, <1>10, <1>11, <1>12

(* The steps that take a turn out of the queue                             *)
LEMMA LeavingSteps ==
  ASSUME IInv, NEW t \in Turns, CancelsQueued(t) \/ GivesUp(t) \/ CancelsReservation(t)
  PROVE  IInv'
<1>1. OthersTyped /\ pc \in [Turns -> Places]
  BY DEF IInv, OthersTyped
<1>2. Holds(t) => pc[t] \in MayHold
  BY DEF IInv, PlacesMatch
<1>3. Queued(t) => ~Holds(t)
  BY ConstantFacts, QueuedFacts DEF IInv, QueuesTyped
<1>4. CASE CancelsQueued(t)
  <2>1. OthersTyped'
    BY <1>1, <1>4 DEF CancelsQueued, Goes, OthersTyped, Places, stackVars
  <2>2. /\ UNCHANGED <<bookVars, stray>> /\ pc' = [pc EXCEPT ![t] = "cancelled"]
        /\ queue' = [queue EXCEPT ![Agent(t)] = WithoutTurn(@, t)] /\ Queued(t)
    BY <1>4 DEF CancelsQueued, Goes
  <2>3. /\ "cancelled" \notin {"queued", "expired"}
        /\ "cancelled" \in MustHold => Holds(t)
        /\ Holds(t) => "cancelled" \in MayHold
    BY <1>3, <2>2 DEF MustHold
  <2> QED BY <2>1, <2>2, <2>3, OneLeavesQueue
<1>5. CASE GivesUp(t)
  <2> DEFINE place == IF Queued(t) THEN "ended" ELSE "leaked"
  <2>1. OthersTyped'
    BY <1>1, <1>5 DEF GivesUp, Goes, OthersTyped, Places, stackVars
  <2>2. /\ UNCHANGED <<bookVars, stray>> /\ pc' = [pc EXCEPT ![t] = place]
        /\ queue' = [queue EXCEPT ![Agent(t)] = WithoutTurn(@, t)] /\ pc[t] = "expired"
    BY <1>5 DEF GivesUp, Goes
  <2>3. ~Queued(t) => Holds(t)
    BY <2>2, QueuedFacts DEF IInv, ReservationsWait
  <2>4. /\ place \notin {"queued", "expired"}
        /\ place \in MustHold => Holds(t)
        /\ Holds(t) => place \in MayHold
    BY <1>3, <2>3 DEF MustHold, MayHold
  <2> HIDE DEF place
  <2> QED BY <2>1, <2>2, <2>4, OneLeavesQueue
<1>6. CASE CancelsReservation(t)
  <2>1. OthersTyped'
    BY <1>1, <1>6 DEF CancelsReservation, Goes, OthersTyped, Places, stackVars
  <2>2. /\ UNCHANGED <<bookVars, stray>> /\ pc' = [pc EXCEPT ![t] = "ended"]
        /\ queue' = [queue EXCEPT ![Agent(t)] = WithoutTurn(@, t)] /\ pc[t] = "queued"
    BY <1>6 DEF CancelsReservation, Goes
  <2> QED BY <1>2, <2>1, <2>2, OneLeavesQueue DEF MustHold, MayHold
<1> QED BY <1>4, <1>5, <1>6

(* The steps that release a turn                                           *)
LEMMA ReleasingSteps ==
  ASSUME IInv, NEW t \in Turns,
         ReleasesDeferred(t) \/ DropsProactive(t) \/ Unwinds(t) \/ Leaves(t)
  PROVE  IInv'
<1>1. OthersTyped /\ frames[t] \in Nat /\ clearing \subseteq Turns
  BY DEF IInv, OthersTyped
<1>2. CASE ReleasesDeferred(t)
  <2>1. /\ pc[t] = "defers" /\ clearing' = clearing
        /\ Release(t, "redo", frames[t], "raised", frames[t])
    BY <1>2 DEF ReleasesDeferred
  <2> QED BY <1>1, <2>1, ReleaseKeepsIInv
<1>3. CASE DropsProactive(t)
  <2>1. /\ pc[t] = "submit" /\ clearing' = clearing
        /\ Release(t, "ended", 0, "raised", frames[t])
    BY <1>3 DEF DropsProactive
  <2> QED BY <1>1, <2>1, ReleaseKeepsIInv
<1>4. CASE Unwinds(t)
  <2> DEFINE place == IF frames[t] > 1 THEN "raised" ELSE "ended"
  <2>1. /\ pc[t] = "raised" /\ clearing' \subseteq Turns /\ frames[t] - 1 \in Nat
        /\ Release(t, place, frames[t] - 1, place, frames[t] - 1)
    BY <1>1, <1>4 DEF Unwinds
  <2>2. place \in {"redo", "ended", "raised"}
    OBVIOUS
  <2> HIDE DEF place
  <2> QED BY <2>1, <2>2, ReleaseKeepsIInv
<1>5. CASE Leaves(t)
  <2>1. /\ pc[t] \in {"leaving", "running"} /\ clearing' = clearing
        /\ Release(t, "ended", 0, "ended", 0)
    BY <1>5 DEF Leaves
  <2> QED BY <1>1, <2>1, ReleaseKeepsIInv
<1> QED BY <1>2, <1>3, <1>4, <1>5

LEMMA NextIInv == IInv /\ [Next]_vars => IInv'
<1> SUFFICES ASSUME IInv, [Next]_vars PROVE IInv'
  OBVIOUS
<1>1. CASE UNCHANGED vars
  BY <1>1, StutterIInv
<1>2. ASSUME NEW t \in Turns, Starts(t) PROVE IInv'
  <2>1. OthersTyped'
    BY <1>2 DEF IInv, OthersTyped, Starts, Goes, Places
  <2> QED BY <1>2, <2>1, StartsKeepsIInv
<1>3. ASSUME NEW t \in Turns, Waits(t) PROVE IInv'
  <2>1. OthersTyped'
    BY <1>3, SchedulerAssumption DEF IInv, OthersTyped, Waits, Goes, Places
  <2> QED BY <1>3, <2>1, WaitsKeepsIInv
<1> QED
  BY <1>1, <1>2, <1>3, QuietSteps, LeavingSteps, ReleasingSteps DEF Next, Works

(* Whatever the turns do, and whatever raises, times out or is stopped     *)
(* (release(), 314-424 of session_turn_scheduler.py), the invariant holds. *)
THEOREM Invariance == Spec => []IInv
<1>1. Init => IInv
  BY InitIInv
<1>2. IInv /\ [Next]_vars => IInv'
  BY NextIInv
<1> QED BY <1>1, <1>2, PTL DEF Spec

(* The variables keep their types, and a turn waits at most once, in its   *)
(* own agent's queue, while its caller waits too.                          *)
THEOREM TypesHold == Spec => []TypeOK
<1>1. IInv => TypeOK
  <2> SUFFICES ASSUME IInv PROVE TypeOK
    OBVIOUS
  <2>1. /\ active \in [Sessions -> Turns \cup {"none"}] /\ slots \in [Agents -> SUBSET Sessions]
        /\ exclusive \in [Agents -> Turns \cup {"none"}]
    BY DEF IInv, BooksTyped, Books, books
  <2>2. ASSUME NEW a \in Agents, NEW i \in DOMAIN queue[a], NEW j \in DOMAIN queue[a]
        PROVE  /\ Agent(queue[a][i]) = a /\ pc[queue[a][i]] \in {"queued", "expired"}
               /\ queue[a][i] = queue[a][j] => i = j
    <3>1. queue[a] \in Seq(Turns) /\ Distinct(queue[a])
      BY DEF IInv, QueuesTyped
    <3>2. queue[a][i] \in Turns /\ Occurs(queue[a], queue[a][i])
      BY <3>1 DEF Occurs
    <3> QED BY <3>1, <3>2 DEF IInv, QueuesTyped, Distinct
  <2> QED BY <2>1, <2>2 DEF IInv, OthersTyped, QueuesTyped, TypeOK
<1> QED BY <1>1, Invariance, PTL

(* What executes or is about to is named in the books that the queue       *)
(* reasons of _chat_queue_reason_locked read, and nothing else is, but     *)
(* what was leaked.                                                        *)
THEOREM TheBooksMatch == Spec => []BooksMatch
<1>1. IInv => BooksMatch
  BY DEF IInv, PlacesMatch, SlotsExact, Exact, books, BooksMatch, MustHold, MayHold
<1> QED BY <1>1, Invariance, PTL

(* No two turns execute in one session.                                    *)
THEOREM SessionsSerialized == Spec => []SessionSerialized
<1>1. IInv => SessionSerialized
  <2> SUFFICES ASSUME IInv, NEW t \in Turns, Executes(t), ~Exclusive(t)
               PROVE  active[SessionOf[t]] = t
    BY DEF SessionSerialized
  <2>1. Holds(t)
    BY DEF IInv, PlacesMatch, MustHold, Executes
  <2>2. exclusive[Agent(t)] # t
    BY ConstantFacts DEF IInv, BooksTyped, Named, books
  <2> QED BY <2>1, <2>2 DEF Holds
<1> QED BY <1>1, Invariance, PTL

(* An agent executes within its maximum, and alone under a reservation of  *)
(* the agent, as long as no turn was released that held nothing.           *)
THEOREM AgentsBounded == Spec => []BoundedUnlessReleasedTwice
<1>1. IInv => BoundedUnlessReleasedTwice
  <2> SUFFICES ASSUME IInv, stray = {}, NEW a \in Agents
               PROVE  /\ Cardinality(Executing(a)) <= MaxActive
                      /\ \A t \in Executing(a) : Exclusive(t) => Executing(a) = {t}
    BY DEF BoundedUnlessReleasedTwice, AgentBounded
  <2>1. /\ IsFiniteSet(slots[a]) /\ Cardinality(slots[a]) <= MaxActive
        /\ exclusive[a] # "none" => slots[a] = {}
        /\ slots[a] = {s \in Sessions : AgentOf[s] = a /\ active[s] # "none"}
    BY DEF IInv, BooksTyped, Bounded, SlotsExact, Exact, books
  <2>2. ASSUME NEW t \in Executing(a)
        PROVE  /\ t \in Turns /\ t # "none" /\ SessionOf[t] \in Sessions
               /\ AgentOf[SessionOf[t]] = a
               /\ exclusive[a] = t \/ active[SessionOf[t]] = t
               /\ Exclusive(t) => exclusive[a] = t
    <3>1. Holds(t) /\ t \in Turns /\ Agent(t) = a
      BY DEF IInv, PlacesMatch, MustHold, Executing, Executes
    <3>2. active[SessionOf[t]] = t => ~Exclusive(t)
      BY <3>1, ConstantFacts DEF IInv, BooksTyped, Named, books
    <3> QED BY <3>1, <3>2, ConstantFacts DEF Holds
  <2>3. CASE exclusive[a] # "none"
    <3>1. \A t \in Executing(a) : t = exclusive[a]
      BY <2>1, <2>2, <2>3
    <3>2. Executing(a) \in SUBSET {exclusive[a]}
      BY <3>1
    <3>3. IsFiniteSet({exclusive[a]}) /\ Cardinality({exclusive[a]}) = 1
      BY FS_Singleton
    <3>4. /\ Cardinality(Executing(a)) <= 1
          /\ Cardinality(Executing(a)) \in Nat
      <4>1. /\ IsFiniteSet(Executing(a))
            /\ Cardinality(Executing(a)) <= Cardinality({exclusive[a]})
        BY <3>2, <3>3, FS_Subset
      <4> QED BY <3>3, <4>1, FS_CardinalityType
    <3> QED BY <3>1, <3>4, SchedulerAssumption
  <2>4. CASE exclusive[a] = "none"
    <3> DEFINE f == [t \in Executing(a) |-> SessionOf[t]]
    <3>1. f \in [Executing(a) -> slots[a]]
      BY <2>1, <2>2, <2>4
    <3>2. \A t, u \in Executing(a) : f[t] = f[u] => t = u
      BY <2>2, <2>4
    <3>3. f \in Injection(Executing(a), slots[a])
      BY <3>1, <3>2 DEF Injection, IsInjective
    <3>4. IsFiniteSet(Executing(a)) /\ Cardinality(Executing(a)) <= Cardinality(slots[a])
      BY <2>1, <3>3, FS_Injection
    <3>5. Cardinality(Executing(a)) \in Nat /\ Cardinality(slots[a]) \in Nat
      BY <2>1, <3>4, FS_CardinalityType
    <3>6. \A t \in Executing(a) : ~Exclusive(t)
      BY <2>2, <2>4
    <3> QED BY <2>1, <3>4, <3>5, <3>6, SchedulerAssumption
  <2> QED BY <2>3, <2>4
<1> QED BY <1>1, Invariance, PTL

-----------------------------------------------------------------------------
(* What it takes for an agent to go beyond its maximum                     *)

(* Nobody releases what it does not hold, before something has raised.     *)
CalmReleases ==
  failures = 0 => stray = {} /\ \A t \in Turns : pc[t] # "raised"

BoundedWithoutFailures == failures = 0 => AgentBounded

LEMMA FailuresGrow == IInv /\ [Next]_vars => (failures' = 0 => failures = 0)
<1> SUFFICES ASSUME IInv, [Next]_vars PROVE failures' = 0 => failures = 0
  OBVIOUS
<1>1. failures \in Nat /\ failures + 1 # 0
  BY SchedulerAssumption DEF IInv, OthersTyped
<1>2. failures' = failures \/ failures' = failures + 1
  <2>1. ASSUME NEW t \in Turns,
               ReleasesDeferred(t) \/ DropsProactive(t) \/ Unwinds(t) \/ Leaves(t)
        PROVE  failures' = failures \/ failures' = failures + 1
    BY <2>1 DEF ReleasesDeferred, DropsProactive, Unwinds, Leaves, Release
  <2> QED
    BY <2>1 DEF Next, Works, Admits, Starts, Waits, SubmitsUser, SubmitsProactive, Expires,
                DefersProactive, SubmitRaises, UnwindsRuntime, ClearsRuntime, Finishes,
                EndsCancelled, SeesGrant, GivesUp, CancelsQueued, Superseded,
                CancelsReservation, vars
<1> QED BY <1>1, <1>2

(* A release whose caller holds its slot, where nothing has raised         *)
LEMMA CalmRelease ==
  ASSUME IInv, CalmReleases, failures' = 0, failures = 0, NEW t \in Turns,
         pc[t] \in MustHold,
         NEW place, place # "raised", NEW depth, NEW raisedPlace, NEW raisedDepth,
         Release(t, place, depth, raisedPlace, raisedDepth)
  PROVE  stray' = {} /\ \A u \in Turns : pc'[u] # "raised"
<1>1. Holds(t)
  BY DEF IInv, PlacesMatch
<1>2. PICK r \in {Pass(Deactivated(books, t), queue[Agent(t)])} :
           /\ stray' = stray
           /\ \/ Moves(t, r, {}, "submit", place, depth)
              \/ failures' = failures + 1
  BY <1>1 DEF Release
<1>3. Moves(t, r, {}, "submit", place, depth)
  BY <1>2
<1>4. \A u \in Turns : pc'[u] \in {place, "ended", "submit", "granted", pc[u]}
  BY <1>3 DEF Moves
<1> QED BY <1>2, <1>4 DEF CalmReleases

LEMMA CalmSteps == IInv /\ CalmReleases /\ [Next]_vars => CalmReleases'
<1> SUFFICES ASSUME IInv, CalmReleases, [Next]_vars, failures' = 0
             PROVE  stray' = {} /\ \A u \in Turns : pc'[u] # "raised"
  BY DEF CalmReleases
<1>1. failures = 0 /\ stray = {} /\ \A u \in Turns : pc[u] # "raised"
  BY FailuresGrow DEF CalmReleases
<1>2. pc \in [Turns -> Places]
  BY DEF IInv, OthersTyped
<1>3. CASE UNCHANGED vars
  BY <1>1, <1>3 DEF vars
<1>4. ASSUME NEW t \in Turns,
             \/ Admits(t) \/ Starts(t) \/ Waits(t) \/ SubmitsUser(t) \/ SubmitsProactive(t)
             \/ DefersProactive(t) \/ UnwindsRuntime(t) \/ ClearsRuntime(t) \/ Finishes(t)
             \/ EndsCancelled(t) \/ Superseded(t) \/ SeesGrant(t) \/ Expires(t)
             \/ CancelsQueued(t) \/ GivesUp(t) \/ CancelsReservation(t)
      PROVE  stray' = {} /\ \A u \in Turns : pc'[u] # "raised"
  <2>1. stray' = stray
    BY <1>4 DEF Admits, Starts, Waits, SubmitsUser, SubmitsProactive, Expires, DefersProactive,
                UnwindsRuntime, ClearsRuntime, Finishes, EndsCancelled, SeesGrant, GivesUp,
                CancelsQueued, Superseded, CancelsReservation
  <2>2. \/ pc' = pc
        \/ \E place \in Places \ {"raised"} : pc' = [pc EXCEPT ![t] = place]
    BY <1>4 DEF Admits, Starts, Waits, SubmitsUser, SubmitsProactive, Expires, DefersProactive,
                UnwindsRuntime, ClearsRuntime, Finishes, EndsCancelled, SeesGrant, GivesUp,
                CancelsQueued, Superseded, CancelsReservation, Goes, Places
  <2> QED BY <1>1, <1>2, <2>1, <2>2
<1>5. ASSUME NEW t \in Turns, ReleasesDeferred(t) \/ DropsProactive(t) \/ Leaves(t)
      PROVE  stray' = {} /\ \A u \in Turns : pc'[u] # "raised"
  <2>1. PICK place, depth, raisedPlace, raisedDepth :
             /\ place \in {"redo", "ended"}
             /\ Release(t, place, depth, raisedPlace, raisedDepth)
    BY <1>5 DEF ReleasesDeferred, DropsProactive, Leaves
  <2>2. pc[t] \in MustHold
    BY <1>5 DEF ReleasesDeferred, DropsProactive, Leaves, MustHold
  <2> QED BY <1>1, <2>1, <2>2, CalmRelease
<1>6. ASSUME NEW t \in Turns, Unwinds(t) \/ SubmitRaises(t) PROVE FALSE
  <2>1. ~Unwinds(t)
    BY <1>1 DEF Unwinds
  <2>2. ~SubmitRaises(t)
    BY <1>1 DEF SubmitRaises
  <2> QED BY <1>6, <2>1, <2>2
<1> QED BY <1>3, <1>4, <1>5, <1>6 DEF Next, Works

(* An agent goes beyond its maximum only after something has raised: a     *)
(* submission, or marking a turn queued or dequeued. No timeout, stop,     *)
(* supersession or deferral does it; it takes a turn released twice, by    *)
(* the except branches of schedule() and _submit_released_session_turn.    *)
THEOREM NothingElseExceeds == Spec => []BoundedWithoutFailures
<1>1. Init => CalmReleases
  BY DEF Init, CalmReleases
<1>2. IInv /\ CalmReleases /\ [Next]_vars => CalmReleases'
  BY CalmSteps
<1>3. BoundedUnlessReleasedTwice /\ CalmReleases => BoundedWithoutFailures
  BY DEF BoundedUnlessReleasedTwice, CalmReleases, BoundedWithoutFailures
<1> QED BY <1>1, <1>2, <1>3, Invariance, AgentsBounded, PTL DEF Spec

-----------------------------------------------------------------------------
(* Wakeups and turns overtaken, where no reservation takes a whole agent   *)

(* Somebody of the agent will release, and so consider its queue.          *)
Held(b, a) == \E v \in Turns : Agent(v) = a /\ InBooks(b, v)

(* A turn whose wait needs a reason: it may not stand aside for a user.    *)
Waiting(u) == ~Stale(u) /\ Kind[u] # "proactive"

(* The books have no room for a turn of the session.                       *)
Full(b, s) ==
  \/ b.exclusive[AgentOf[s]] # "none"
  \/ b.active[s] # "none"
  \/ Cardinality(b.slots[AgentOf[s]]) >= MaxActive

Precedes(q, u, x) == \E i, j \in DOMAIN q : i < j /\ q[i] = u /\ q[j] = x

(* What blocks such a turn is in the books, and blocks its whole session.  *)
LEMMA FullBlocks ==
  ASSUME NEW b, NEW t \in Turns, ~Exclusive(t)
  PROVE  /\ Full(b, SessionOf[t]) => Blocked(b, t)
         /\ Blocked(b, t) /\ Waiting(t) => Full(b, SessionOf[t])
BY DEF Full, Blocked, Waiting, Stale, Agent, Chat

LEMMA HolderOfFull ==
  ASSUME NEW b \in Books, Named(b), NEW s \in Sessions, Full(b, s)
  PROVE  Held(b, AgentOf[s])
<1>1. /\ b.active \in [Sessions -> Turns \cup {"none"}] /\ b.slots \in [Agents -> SUBSET Sessions]
      /\ b.exclusive \in [Agents -> Turns \cup {"none"}]
      /\ AgentOf[s] \in Agents
  BY SchedulerAssumption DEF Books
<1>2. ASSUME NEW r \in Sessions, AgentOf[r] = AgentOf[s], b.active[r] # "none"
      PROVE  Held(b, AgentOf[s])
  <2>1. b.active[r] \in Turns /\ SessionOf[b.active[r]] = r
    BY <1>1, <1>2 DEF Named
  <2> QED BY <1>2, <2>1, ConstantFacts DEF Held, InBooks
<1>3. CASE b.exclusive[AgentOf[s]] # "none"
  <2>1. b.exclusive[AgentOf[s]] \in Turns /\ Agent(b.exclusive[AgentOf[s]]) = AgentOf[s]
    BY <1>1, <1>3 DEF Named
  <2> QED BY <2>1 DEF Held, InBooks
<1>4. CASE b.active[s] # "none"
  BY <1>2, <1>4
<1>5. CASE Cardinality(b.slots[AgentOf[s]]) >= MaxActive
  <2>1. MaxActive \in Nat \ {0} /\ Cardinality({}) = 0
    BY SchedulerAssumption, FS_EmptySet
  <2>2. b.slots[AgentOf[s]] # {}
    BY <1>5, <2>1
  <2>3. b.slots[AgentOf[s]] \in SUBSET Sessions
    BY <1>1
  <2>4. PICK r \in Sessions : r \in b.slots[AgentOf[s]]
    BY <2>2, <2>3
  <2>5. AgentOf[r] = AgentOf[s] /\ b.active[r] # "none"
    BY <1>1, <2>4 DEF Named
  <2> QED BY <1>2, <2>5
<1> QED BY <1>3, <1>4, <1>5 DEF Full

(* Who starts makes no room for anybody.                                   *)
LEMMA FullStays ==
  ASSUME NEW b \in Books, Bounded(b), NEW t \in Turns, ~Exclusive(t), ~Blocked(b, t),
         NEW s \in Sessions, Full(b, s)
  PROVE  Full(Activated(b, t), s)
<1> DEFINE n == Activated(b, t)
           a == AgentOf[s]
<1>1. /\ b.active \in [Sessions -> Turns \cup {"none"}] /\ b.slots \in [Agents -> SUBSET Sessions]
      /\ a \in Agents /\ SessionOf[t] \in Sessions /\ Agent(t) \in Agents /\ t # "none"
  BY SchedulerAssumption, ConstantFacts DEF Books
<1>2. /\ n.exclusive = b.exclusive
      /\ n.active = [b.active EXCEPT ![SessionOf[t]] = t]
      /\ n.slots = [b.slots EXCEPT ![Agent(t)] = @ \cup {SessionOf[t]}]
  BY DEF Activated, Books
<1>3. b.active[s] # "none" => n.active[s] # "none"
  BY <1>1, <1>2
<1>4. b.slots[a] \in SUBSET n.slots[a]
  BY <1>1, <1>2
<1>5. Bounded(n)
  BY ActivatedBounded
<1> HIDE DEF n, a
<1>6. /\ Cardinality(b.slots[a]) <= Cardinality(n.slots[a])
      /\ Cardinality(b.slots[a]) \in Nat /\ Cardinality(n.slots[a]) \in Nat
  <2>1. IsFiniteSet(b.slots[a]) /\ IsFiniteSet(n.slots[a])
    BY <1>1, <1>5 DEF Bounded
  <2> QED BY <1>4, <2>1, FS_Subset, FS_CardinalityType
<1>7. MaxActive \in Nat
  BY SchedulerAssumption
<1>8. Full(n, s)
  BY <1>2, <1>3, <1>6, <1>7 DEF Full, a
<1> QED BY <1>8 DEF n

(* The pass makes no room, keeps waiting only those for whom there is none *)
(* left, and starts nobody of a session before one of it who waits.        *)
Justified(p, b, q) ==
  /\ ~p.over
  /\ \A s \in Sessions : Full(b, s) => Full(p.books, s)
  /\ \A x \in Turns : Occurs(p.kept, x) /\ Waiting(x) =>
       /\ Full(p.books, SessionOf[x])
       /\ \A u \in p.started : SessionOf[u] = SessionOf[x] => Precedes(q, u, x)

LEMMA ConsideredJustified ==
  ASSUME NEW b \in Books, Bounded(b), NEW q \in Seq(Turns), NEW i \in Nat, i + 1 \in DOMAIN q,
         NEW p, Sound(p, b, q, i), Justified(p, b, q), ~Exclusive(q[i + 1])
  PROVE  Justified(Considered(p, q[i + 1]), b, q)
<1> DEFINE t == q[i + 1]
           n == Considered(p, t)
<1>1. /\ p \in Passes /\ p.kept \in Seq(Turns) /\ p.books \in Books /\ Bounded(p.books)
      /\ p.started \in SUBSET Turns /\ t \in Turns /\ SessionOf[t] \in Sessions
  BY ConstantFacts DEF Sound, Passes
<1>2. PICK o \in BOOLEAN :
           \/ /\ (o = p.over /\ (p.over \/ Blocked(p.books, t))) \/ Exclusive(t)
              /\ n = [p EXCEPT !.kept = Append(@, t), !.over = o]
           \/ /\ Kind[t] = "user"
              /\ n = [p EXCEPT !.dropped = @ \cup {t}]
           \/ /\ ~Blocked(p.books, t) /\ (o = p.over \/ Exclusive(t))
              /\ n = [p EXCEPT !.books = Activated(@, t), !.started = @ \cup {t}, !.over = o]
  BY <1>1, ConsideredCases
<1>3. ASSUME NEW u \in p.started PROVE Precedes(q, u, t)
  <2>1. PICK j \in 1..i : q[j] = u
    BY <1>1, <1>3 DEF Sound
  <2>2. j \in DOMAIN q /\ j < i + 1
    BY <2>1
  <2> QED BY <2>1, <2>2 DEF Precedes
<1>4. ~Exclusive(t)
  OBVIOUS
<1> HIDE DEF n, t
<1>5. CASE /\ o = p.over /\ Blocked(p.books, t)
           /\ n = [p EXCEPT !.kept = Append(@, t), !.over = o]
  <2>1. n.kept = Append(p.kept, t) /\ n.books = p.books /\ n.over = p.over
        /\ n.started = p.started
    BY <1>1, <1>5 DEF Passes
  <2>2. \A u : Occurs(n.kept, u) <=> Occurs(p.kept, u) \/ u = t
    BY <1>1, <2>1, AppendFacts
  <2>3. Waiting(t) => Full(p.books, SessionOf[t])
    BY <1>1, <1>4, <1>5, FullBlocks
  <2> QED BY <1>3, <2>1, <2>2, <2>3 DEF Justified, n, t
<1>6. CASE n = [p EXCEPT !.dropped = @ \cup {t}]
  <2>1. n.kept = p.kept /\ n.books = p.books /\ n.over = p.over /\ n.started = p.started
    BY <1>1, <1>6 DEF Passes
  <2> QED BY <2>1 DEF Justified, n, t
<1>7. CASE /\ ~Blocked(p.books, t) /\ o = p.over
           /\ n = [p EXCEPT !.books = Activated(@, t), !.started = @ \cup {t}, !.over = o]
  <2>1. n.kept = p.kept /\ n.books = Activated(p.books, t) /\ n.over = p.over
        /\ n.started = p.started \cup {t}
    BY <1>1, <1>7 DEF Passes
  <2>2. \A s \in Sessions : Full(p.books, s) => Full(n.books, s)
    BY <1>1, <1>4, <1>7, <2>1, FullStays
  <2>3. ~Full(p.books, SessionOf[t])
    BY <1>1, <1>4, <1>7, FullBlocks
  <2> QED BY <2>1, <2>2, <2>3, ConstantFacts DEF Justified, n, t
<1> QED BY <1>2, <1>4, <1>5, <1>6, <1>7 DEF Justified, n, t

LEMMA PassJustified ==
  ASSUME NEW b \in Books, Named(b), Bounded(b), NEW q \in Seq(Turns), Distinct(q),
         \A t \in Turns : ~Exclusive(t)
  PROVE  Justified(Pass(b, q), b, q)
<1> DEFINE P == PassOver(b, q)
           S == {i \in Nat : i \in 0..Len(q) => Sound(P[i], b, q, i) /\ Justified(P[i], b, q)}
<1>1. DOMAIN q = 1..Len(q) /\ Len(q) \in Nat
  OBVIOUS
<1>2. /\ P[0] = [books |-> b, kept |-> <<>>, started |-> {}, dropped |-> {}, over |-> FALSE]
      /\ \A i \in Nat : i + 1 \in DOMAIN q => P[i + 1] = Considered(P[i], q[i + 1])
  BY <1>1, PassOverSteps
<1>3. Sound(P[0], b, q, 0)
  BY <1>2, PassBegins
<1> HIDE DEF P
<1>4. Justified(P[0], b, q)
  <2>1. P[0].kept = <<>> /\ ~P[0].over /\ P[0].books = b
    BY <1>2
  <2> QED BY <2>1 DEF Justified, Occurs
<1>5. ASSUME NEW i \in Nat, i \in S PROVE i + 1 \in S
  <2> SUFFICES ASSUME i + 1 \in 0..Len(q)
               PROVE  Sound(P[i + 1], b, q, i + 1) /\ Justified(P[i + 1], b, q)
    OBVIOUS
  <2>1. i \in 0..Len(q) /\ i + 1 \in DOMAIN q
    BY <1>1
  <2>2. Sound(P[i], b, q, i) /\ Justified(P[i], b, q)
    BY <1>5, <2>1
  <2>3. Sound(P[i + 1], b, q, i + 1)
    BY <1>2, <2>1, <2>2, ConsideredSound
  <2>4. q[i + 1] \in Turns
    BY <1>1, <2>1
  <2>5. Justified(P[i + 1], b, q)
    BY <1>2, <2>1, <2>2, <2>4, ConsideredJustified
  <2> QED BY <2>3, <2>5
<1>6. Nat \subseteq S
  <2>1. 0 \in S
    BY <1>3, <1>4
  <2> HIDE DEF S
  <2> QED BY <1>5, <2>1, Induction
<1> QED BY <1>1, <1>6 DEF Pass, P

(* Whoever waits in a queue has no room.                                   *)
NoRoom == \A u \in Turns : Queued(u) /\ Waiting(u) => Full(books, SessionOf[u])

LEMMA NoRoomWakes == IInv /\ NoRoom => NoLostWakeup
<1> SUFFICES ASSUME IInv, NoRoom, NEW u \in Turns, Queued(u), Waiting(u)
             PROVE  \E v \in Turns : Agent(v) = Agent(u) /\ Holds(v)
  BY DEF NoLostWakeup, Waiting
<1>1. Held(books, Agent(u))
  BY HolderOfFull, ConstantFacts DEF NoRoom, IInv, BooksTyped
<1> QED BY <1>1, HoldsFacts DEF Held

(* A step that leaves the books alone, adds nobody to a queue, and makes   *)
(* nobody in a queue the session's turn again.                             *)
LEMMA NobodyWaitsMore ==
  ASSUME NoRoom, UNCHANGED bookVars,
         \A u \in Turns : Queued(u)' => Queued(u),
         \A u \in Turns : Queued(u) /\ Kind[u] = "user" /\ runtime'[SessionOf[u]] = u =>
                           runtime[SessionOf[u]] = u
  PROVE  NoRoom'
<1>1. books' = books
  BY DEF books, bookVars
<1>2. \A u \in Turns : Queued(u)' /\ Waiting(u)' => Queued(u) /\ Waiting(u)
  BY DEF Waiting, Stale
<1> QED BY <1>1, <1>2 DEF NoRoom

(* Only a turn that is admitted, or a plugin's, takes its session.         *)
LEMMA QuietWakeups ==
  ASSUME IInv, NoRoom, NEW t \in Turns,
         \/ Admits(t) \/ SubmitsUser(t) \/ SubmitsProactive(t) \/ DefersProactive(t)
         \/ SubmitRaises(t) \/ UnwindsRuntime(t) \/ ClearsRuntime(t) \/ Finishes(t)
         \/ EndsCancelled(t) \/ Superseded(t) \/ SeesGrant(t) \/ Expires(t)
         \/ CancelsQueued(t) \/ GivesUp(t) \/ CancelsReservation(t)
  PROVE  NoRoom'
<1>1. UNCHANGED bookVars
  BY DEF Admits, SubmitsUser, SubmitsProactive, DefersProactive, SubmitRaises, UnwindsRuntime,
         ClearsRuntime, Finishes, EndsCancelled, Superseded, SeesGrant, Expires, CancelsQueued,
         GivesUp, CancelsReservation
<1>2. UNCHANGED queue \/ queue' = [queue EXCEPT ![Agent(t)] = WithoutTurn(@, t)]
  BY DEF Admits, SubmitsUser, SubmitsProactive, DefersProactive, SubmitRaises, UnwindsRuntime,
         ClearsRuntime, Finishes, EndsCancelled, Superseded, SeesGrant, Expires, CancelsQueued,
         GivesUp, CancelsReservation
<1>3. ASSUME NEW u \in Turns, Queued(u)' PROVE Queued(u)
  <2>1. CASE UNCHANGED queue
    BY <1>3, <2>1 DEF Queued
  <2>2. CASE queue' = [queue EXCEPT ![Agent(t)] = WithoutTurn(@, t)]
    <3>1. /\ queue \in [Agents -> Seq(Turns)] /\ Agent(u) \in Agents
          /\ \A x : Occurs(WithoutTurn(queue[Agent(t)], t), x) => Occurs(queue[Agent(t)], x)
      BY ConstantFacts, WithoutFacts DEF IInv, QueuesTyped
    <3>2. Occurs(queue'[Agent(u)], u)
      BY <1>3 DEF Queued, Occurs
    <3>3. Occurs(queue[Agent(u)], u)
      BY <2>2, <3>1, <3>2
    <3> QED BY <3>3, QueuedFacts
  <2> QED BY <1>2, <2>1, <2>2
<1>4. ASSUME NEW u \in Turns, Queued(u), Kind[u] = "user", runtime'[SessionOf[u]] = u
      PROVE  runtime[SessionOf[u]] = u
  <2>1. pc[u] \in {"queued", "expired"} /\ runtime \in [Sessions -> Turns \cup {"none"}]
    BY <1>4, QueuedFacts, ConstantFacts DEF IInv, QueuesTyped, OthersTyped
  <2>2. \/ UNCHANGED runtime
        \/ /\ runtime' = [runtime EXCEPT ![SessionOf[t]] = t]
           /\ Kind[t] = "proactive" \/ pc[t] = "new"
        \/ runtime' = [runtime EXCEPT ![SessionOf[t]] = IF @ = t THEN "none" ELSE @]
        \/ runtime' = [runtime EXCEPT ![SessionOf[t]] = "none"]
    BY DEF Admits, SubmitsUser, SubmitsProactive, DefersProactive, SubmitRaises, UnwindsRuntime,
           ClearsRuntime, Finishes, EndsCancelled, Superseded, SeesGrant, Expires, CancelsQueued,
           GivesUp, CancelsReservation, SessionFreed
  <2> QED BY <1>4, <2>1, <2>2, ConstantFacts
<1> QED BY <1>1, <1>3, <1>4, NobodyWaitsMore

LEMMA WaitsWakeups ==
  ASSUME IInv, NoRoom, NEW t \in Turns, Waits(t), \A u \in Turns : ~Exclusive(u)
  PROVE  NoRoom'
<1>1. /\ UNCHANGED <<bookVars, runtime>>
      /\ queue' = [queue EXCEPT ![Agent(t)] = Enqueued(@, t)]
      /\ MustWait(t)
  BY DEF Waits
<1>2. /\ queue \in [Agents -> Seq(Turns)] /\ queue[Agent(t)] \in Seq(Turns)
      /\ \A x : Occurs(Enqueued(queue[Agent(t)], t), x)
                <=> Occurs(queue[Agent(t)], x) \/ x = t
  BY ConstantFacts, EnqueuedFacts DEF IInv, QueuesTyped
<1>3. Blocked(books, t)
  <2>1. \A i \in DOMAIN queue[Agent(t)] : queue[Agent(t)][i] \in Turns
    BY <1>2
  <2> QED BY <1>1, <2>1 DEF MustWait
<1>4. Waiting(t) => Full(books, SessionOf[t])
  BY <1>3, FullBlocks
<1>5. \A u \in Turns : Occurs(queue'[Agent(u)], u) => Occurs(queue[Agent(u)], u) \/ u = t
  BY <1>1, <1>2, ConstantFacts
<1>6. \A u \in Turns : Queued(u)' => Queued(u) \/ u = t
  BY <1>5 DEF Queued, Occurs
<1>7. books' = books /\ \A u \in Turns : Waiting(u)' => Waiting(u)
  BY <1>1 DEF books, bookVars, Waiting, Stale
<1> QED BY <1>4, <1>6, <1>7 DEF NoRoom

LEMMA StartsWakeups ==
  ASSUME IInv, NoRoom, NEW t \in Turns, Starts(t), \A u \in Turns : ~Exclusive(u)
  PROVE  NoRoom'
<1> DEFINE b == Activated(books, t)
<1>1. /\ active' = b.active /\ slots' = b.slots /\ exclusive' = b.exclusive
      /\ queue' = queue /\ runtime' = runtime /\ ~Blocked(books, t)
  BY DEF Starts, MustWait
<1>2. \A s \in Sessions : Full(books, s) => Full(b, s)
  BY <1>1, FullStays DEF IInv, BooksTyped
<1> HIDE DEF b
<1>3. \A s \in Sessions : Full(books, s) => Full(books, s)'
  BY <1>1, <1>2 DEF Full, books
<1>4. \A u \in Turns : Queued(u)' /\ Waiting(u)' => Queued(u) /\ Waiting(u)
  BY <1>1 DEF Queued, Waiting, Stale
<1> QED BY <1>3, <1>4, ConstantFacts DEF NoRoom

(* What a release does to the books and to the queue of its agent.         *)
LEMMA ReleasePasses ==
  ASSUME IInv, NEW t \in Turns, \A u \in Turns : ~Exclusive(u),
         NEW place, NEW depth, NEW raisedPlace, NEW raisedDepth,
         Release(t, place, depth, raisedPlace, raisedDepth)
  PROVE  \E r : /\ Sound(r, Deactivated(books, t), queue[Agent(t)], Len(queue[Agent(t)]))
                /\ Justified(r, Deactivated(books, t), queue[Agent(t)])
                /\ books' = r.books /\ runtime' = runtime
                /\ queue' = [queue EXCEPT ![Agent(t)] = r.kept]
<1> DEFINE d == Deactivated(books, t)
           q == queue[Agent(t)]
           r == Pass(d, q)
<1>1. /\ active' = r.books.active /\ slots' = r.books.slots
      /\ exclusive' = r.books.exclusive /\ runtime' = runtime
      /\ queue' = [queue EXCEPT ![Agent(t)] = r.kept]
  BY DEF Release
<1>2. q \in Seq(Turns) /\ Distinct(q) /\ d \in Books /\ Named(d) /\ Bounded(d)
  BY ConstantFacts, DeactivatedFacts, DeactivatedBounded DEF IInv, QueuesTyped, BooksTyped
<1> HIDE DEF d, q
<1>3. Sound(r, d, q, Len(q)) /\ Justified(r, d, q)
  BY <1>2, PassSound, PassJustified
<1> HIDE DEF r
<1>4. books' = r.books
  BY <1>1, <1>3, BooksFacts DEF books, Sound, Passes
<1> QED BY <1>1, <1>3, <1>4 DEF d, q

LEMMA ReleaseWakeups ==
  ASSUME IInv, NoRoom, NEW t \in Turns, \A u \in Turns : ~Exclusive(u),
         NEW place, NEW depth, NEW raisedPlace, NEW raisedDepth,
         Release(t, place, depth, raisedPlace, raisedDepth)
  PROVE  NoRoom'
<1> DEFINE d == Deactivated(books, t)
           q == queue[Agent(t)]
<1>1. PICK r : /\ Justified(r, d, q) /\ books' = r.books /\ runtime' = runtime
               /\ queue' = [queue EXCEPT ![Agent(t)] = r.kept]
  BY ReleasePasses
<1>2. queue \in [Agents -> Seq(Turns)]
  BY DEF IInv, QueuesTyped
<1>3. ASSUME NEW s \in Sessions, AgentOf[s] # Agent(t) PROVE Full(d, s) <=> Full(books, s)
  <2>1. /\ books.active \in [Sessions -> Turns \cup {"none"}]
        /\ books.slots \in [Agents -> SUBSET Sessions]
        /\ AgentOf[s] \in Agents /\ SessionOf[t] # s /\ AgentOf[s] # Agent(t)
    BY <1>3, SchedulerAssumption DEF IInv, BooksTyped, Books, Agent
  <2>2. /\ d.exclusive = books.exclusive
        /\ d.active[s] = books.active[s] /\ d.slots[AgentOf[s]] = books.slots[AgentOf[s]]
    BY <2>1 DEF Deactivated, Books
  <2> QED BY <2>2 DEF Full
<1> HIDE DEF d
<1>4. ASSUME NEW u \in Turns, Queued(u)', Waiting(u)'
      PROVE  Full(r.books, SessionOf[u])
  <2>1. Waiting(u) /\ Occurs(queue'[Agent(u)], u)
    BY <1>1, <1>4 DEF Waiting, Stale, Queued, Occurs
  <2>2. CASE Agent(u) = Agent(t)
    <3>1. Occurs(r.kept, u)
      BY <1>1, <1>2, <2>1, <2>2, ConstantFacts
    <3> QED BY <1>1, <2>1, <3>1 DEF Justified
  <2>3. CASE Agent(u) # Agent(t)
    <3>1. Occurs(queue[Agent(u)], u)
      BY <1>1, <1>2, <2>1, <2>3, ConstantFacts
    <3>2. Full(books, SessionOf[u])
      BY <2>1, <3>1, QueuedFacts DEF NoRoom
    <3>3. SessionOf[u] \in Sessions /\ AgentOf[SessionOf[u]] # Agent(t)
      BY <2>3, ConstantFacts
    <3> QED BY <1>1, <1>3, <3>2, <3>3 DEF Justified
  <2> QED BY <2>2, <2>3
<1> QED BY <1>1, <1>4 DEF NoRoom

LEMMA NoRoomKept ==
  ASSUME IInv, NoRoom, [Next]_vars, \A u \in Turns : ~Exclusive(u)
  PROVE  NoRoom'
<1>1. CASE UNCHANGED vars
  BY <1>1 DEF vars, bookVars, books, NoRoom, Queued, Waiting, Stale
<1>2. ASSUME NEW t \in Turns,
             ReleasesDeferred(t) \/ DropsProactive(t) \/ Unwinds(t) \/ Leaves(t)
      PROVE  NoRoom'
  <2>1. \E place, depth, raisedPlace, raisedDepth :
           Release(t, place, depth, raisedPlace, raisedDepth)
    BY <1>2 DEF ReleasesDeferred, DropsProactive, Unwinds, Leaves
  <2> QED BY <2>1, ReleaseWakeups
<1> QED BY <1>1, <1>2, QuietWakeups, WaitsWakeups, StartsWakeups DEF Next, Works

LEMMA NoRoomInitially == Init => NoRoom
BY ConstantFacts DEF Init, NoRoom, Queued

(* Where no reservation takes a whole agent, a user's turn or a session's  *)
(* reservation never waits in the queue of an agent of which nobody will   *)
(* release, so that release()'s pass considers it.                         *)
THEOREM NoWakeupLost ==
  ASSUME \A t \in Turns : Kind[t] # "agent"
  PROVE  Spec => []NoLostWakeup
<1>1. \A t \in Turns : ~Exclusive(t)
  BY DEF Exclusive
<1>2. IInv /\ NoRoom /\ [Next]_vars => NoRoom'
  BY <1>1, NoRoomKept
<1> QED BY <1>2, NoRoomInitially, NoRoomWakes, Invariance, PTL DEF Spec

-----------------------------------------------------------------------------
(* Turns overtaken                                                         *)

(* A user's message that owns its session, or a reservation of a session,  *)
(* is overtaken by no later turn of that session, whether that turn has    *)
(* just come or waits behind it: only what stands before it in the queue   *)
(* starts while it waits.                                                  *)
Overtakes(u, t) ==
  /\ SessionOf[u] = SessionOf[t] /\ ~Holds(u) /\ Holds(u)'
  /\ Queued(t) /\ Waiting(t) /\ Queued(t)'
  /\ ~Precedes(queue[Agent(t)], u, t)

NobodyOvertaken == [][\A t, u \in Turns : ~Overtakes(u, t)]_vars

LEMMA ReleaseInOrder ==
  ASSUME IInv, NEW v \in Turns, \A x \in Turns : ~Exclusive(x),
         NEW place, NEW depth, NEW raisedPlace, NEW raisedDepth,
         Release(v, place, depth, raisedPlace, raisedDepth),
         NEW t \in Turns, NEW u \in Turns
  PROVE  ~Overtakes(u, t)
<1> SUFFICES ASSUME SessionOf[u] = SessionOf[t], ~Holds(u), Holds(u)', Waiting(t), Queued(t)'
             PROVE  Precedes(queue[Agent(t)], u, t)
  BY DEF Overtakes
<1> DEFINE d == Deactivated(books, v)
           q == queue[Agent(v)]
<1>1. PICK r : /\ Sound(r, d, q, Len(q)) /\ Justified(r, d, q) /\ books' = r.books
               /\ queue' = [queue EXCEPT ![Agent(v)] = r.kept]
  BY ReleasePasses
<1>2. /\ queue \in [Agents -> Seq(Turns)] /\ q \in Seq(Turns)
      /\ \A x \in Turns : InBooks(d, x) => Holds(x)
  BY ConstantFacts, DeactivatedFacts, HoldsFacts DEF IInv, QueuesTyped, BooksTyped
<1>3. Holds(u)' <=> InBooks(books', u)
  BY DEF Holds, InBooks, books
<1> HIDE DEF d
<1>4. u \in r.started
  BY <1>1, <1>2, <1>3 DEF Sound
<1>5. Occurs(q, u)
  BY <1>1, <1>2, <1>4 DEF Sound, Occurs
<1>6. Agent(u) = Agent(v) /\ Agent(t) = Agent(v)
  BY <1>5, ConstantFacts DEF IInv, QueuesTyped
<1>7. Occurs(r.kept, t)
  BY <1>1, <1>2, <1>6, ConstantFacts DEF Queued, Occurs
<1> QED BY <1>1, <1>4, <1>6, <1>7 DEF Justified

LEMMA StartsInOrder ==
  ASSUME IInv, NoRoom, NEW v \in Turns, Starts(v), \A x \in Turns : ~Exclusive(x),
         NEW t \in Turns, NEW u \in Turns
  PROVE  ~Overtakes(u, t)
<1> SUFFICES ASSUME SessionOf[u] = SessionOf[t], ~Holds(u), Holds(u)', Queued(t), Waiting(t)
             PROVE  FALSE
  BY DEF Overtakes
<1> DEFINE b == Activated(books, v)
<1>1. /\ active' = b.active /\ exclusive' = b.exclusive /\ ~Blocked(books, v)
  BY DEF Starts, MustWait
<1>2. \A x \in Turns : InBooks(b, x) <=> InBooks(books, x) \/ x = v
  BY <1>1, ActivatedFacts DEF IInv, BooksTyped, Blocked
<1> HIDE DEF b
<1>3. u = v
  BY <1>1, <1>2, HoldsFacts DEF Holds, InBooks
<1>4. Full(books, SessionOf[v])
  BY <1>3 DEF NoRoom
<1> QED BY <1>1, <1>4, FullBlocks

(* Where no reservation takes a whole agent, the turns of a session start  *)
(* in the order in which they wait, but for plugins' turns, which stand    *)
(* aside: a newer message or reservation never passes an older one that    *)
(* still owns its session.                                                 *)
THEOREM SessionsInOrder ==
  ASSUME \A t \in Turns : Kind[t] # "agent"
  PROVE  Spec => NobodyOvertaken
<1>1. \A t \in Turns : ~Exclusive(t)
  BY DEF Exclusive
<1>2. IInv /\ NoRoom /\ [Next]_vars => [\A t, u \in Turns : ~Overtakes(u, t)]_vars
  <2> SUFFICES ASSUME IInv, NoRoom, Next, NEW t \in Turns, NEW u \in Turns
               PROVE  ~Overtakes(u, t)
    OBVIOUS
  <2>1. ASSUME NEW v \in Turns,
               ReleasesDeferred(v) \/ DropsProactive(v) \/ Unwinds(v) \/ Leaves(v)
        PROVE  ~Overtakes(u, t)
    <3>1. \E place, depth, raisedPlace, raisedDepth :
             Release(v, place, depth, raisedPlace, raisedDepth)
      BY <2>1 DEF ReleasesDeferred, DropsProactive, Unwinds, Leaves
    <3> QED BY <1>1, <3>1, ReleaseInOrder
  <2>2. ASSUME NEW v \in Turns, Starts(v) PROVE ~Overtakes(u, t)
    BY <1>1, <2>2, StartsInOrder
  <2>3. CASE UNCHANGED bookVars
    BY <2>3 DEF Overtakes, Holds, bookVars
  <2>4. ASSUME NEW v \in Turns,
               \/ Admits(v) \/ Waits(v) \/ SubmitsUser(v) \/ SubmitsProactive(v)
               \/ DefersProactive(v) \/ SubmitRaises(v) \/ UnwindsRuntime(v) \/ ClearsRuntime(v)
               \/ Finishes(v) \/ EndsCancelled(v) \/ Superseded(v) \/ SeesGrant(v) \/ Expires(v)
               \/ CancelsQueued(v) \/ GivesUp(v) \/ CancelsReservation(v)
        PROVE  UNCHANGED bookVars
    BY <2>4 DEF Admits, Waits, SubmitsUser, SubmitsProactive, DefersProactive, SubmitRaises,
       UnwindsRuntime, ClearsRuntime, Finishes, EndsCancelled, Superseded, SeesGrant, Expires,
       CancelsQueued, GivesUp, CancelsReservation
  <2> QED BY <2>1, <2>2, <2>3, <2>4 DEF Next, Works
<1>3. IInv /\ NoRoom /\ [Next]_vars => NoRoom'
  BY <1>1, NoRoomKept
<1> QED BY <1>2, <1>3, NoRoomInitially, Invariance, PTL DEF Spec, NobodyOvertaken
=============================================================================
