------------------------- MODULE EventPublishProofs -------------------------
(***************************************************************************)
(* Proofs about EventPublish, for any events, lease and retry times, gates *)
(* (of at least two attempts) and bounds.                                  *)
(***************************************************************************)
EXTENDS EventPublish, TLAPS

Sent == {e \in Events : row[e].status # "absent"}

(* Where the worker has an action in hand.                                 *)
InHand == {"deliver", "absorbing", "hook", "acking", "retry", "requeueing", "burying"}

(* The mutation the worker waits for at each place.                        *)
OpAt == [leasing |-> "lease", absorbing |-> "absorb", acking |-> "ack",
         requeueing |-> "requeue", burying |-> "bury"]

(* Only published events are worked on.                                    *)
Subjects ==
  /\ batch \subseteq Sent
  /\ pc \in InHand => cur \in Sent
  /\ \A i \in 1..Len(queue) : queue[i].op # "lease" => queue[i].event \in Sent

(* The worker waits for the last mutation of the queue.                    *)
Awaits ==
  Waiting => /\ queue # << >>
             /\ queue[Len(queue)].op = OpAt[pc]
             /\ queue[Len(queue)].event = cur

(* A claim is never followed by what is left of an earlier batch.          *)
ClaimsLast ==
  /\ \A i, j \in 1..Len(queue) : i < j /\ queue[i].op = "lease" => queue[j].op = "lease"
  /\ pc \notin {"idle", "leasing"} => \A i \in 1..Len(queue) : queue[i].op # "lease"

(* What leads to an acknowledgement                                        *)
Acks ==
  /\ pc = "hook" => cur \in absorbed
  /\ \A i \in 1..Len(queue) :
       queue[i].op = "ack" => queue[i].event \in absorbed /\ queue[i].event \in hooked

(* The worker keeps every action below the attempt gate of the lease scan. *)
Gates ==
  /\ \A e \in Events :
       /\ row[e].status = "absent" => row[e].attempts = 0
       /\ row[e].status = "pending" => row[e].attempts + 1 < MaxAttempts
       /\ row[e].status = "leased" => row[e].attempts < MaxAttempts
  /\ \A i \in 1..Len(queue) :
       queue[i].op = "requeue" => row[queue[i].event].attempts + 1 < MaxAttempts

IInv ==
  /\ TypeOK /\ Subjects /\ Awaits /\ ClaimsLast /\ Acks /\ Gates
  /\ AcknowledgedIsHooked /\ SilentOnlyByRecoveries

-----------------------------------------------------------------------------
(* Appending to a queue, and taking its head.                              *)
LEMMA AppendFacts ==
  ASSUME NEW S, NEW q \in Seq(S), NEW m \in S
  PROVE  /\ Append(q, m) \in Seq(S) /\ Append(q, m) # << >>
         /\ Len(Append(q, m)) = Len(q) + 1
         /\ Append(q, m)[Len(q) + 1] = m
         /\ \A i \in 1..Len(q) : Append(q, m)[i] = q[i]
OBVIOUS

LEMMA TailFacts ==
  ASSUME NEW S, NEW q \in Seq(S), q # << >>
  PROVE  /\ Tail(q) \in Seq(S) /\ Len(q) \in Nat \ {0}
         /\ Head(q) = q[1] /\ Head(q) \in S
         /\ Len(Tail(q)) = Len(q) - 1
         /\ \A i \in 1..Len(Tail(q)) : i + 1 \in 1..Len(q) /\ Tail(q)[i] = q[i + 1]
OBVIOUS

(* What the statements of the repository do to a row.                      *)
LEMMA RowFacts ==
  ASSUME NEW r \in Rows, NEW age \in Nat
  PROVE  /\ \A s \in {"pending", "succeeded", "failed"} :
              /\ Settled(r, s) \in Rows /\ Settled(r, s).status = s
              /\ Settled(r, s).attempts = r.attempts
              /\ Settled(r, s).recoveries = r.recoveries
         /\ Requeued(r, age) \in Rows /\ Requeued(r, age).status = "pending"
         /\ Requeued(r, age).attempts = r.attempts
         /\ Requeued(r, age).recoveries = r.recoveries
         /\ Claimed(r, age) \in Rows /\ Claimed(r, age).status = "leased"
         /\ r.status = "pending" => Claimed(r, age).attempts = r.attempts + 1
         /\ r.status = "leased" => Claimed(r, age).attempts = r.attempts
<1>1. LeaseTime - age \in Int /\ RetryTime - age \in Int /\ -MaxAge \in Int
  BY PublishAssumption
<1>2. ASSUME NEW s \in {"pending", "succeeded", "failed"}
      PROVE  /\ Settled(r, s) \in Rows /\ Settled(r, s).status = s
             /\ Settled(r, s).attempts = r.attempts
             /\ Settled(r, s).recoveries = r.recoveries
  BY <1>1 DEF Settled, Rows
<1>3. /\ Requeued(r, age) \in Rows /\ Requeued(r, age).status = "pending"
      /\ Requeued(r, age).attempts = r.attempts
      /\ Requeued(r, age).recoveries = r.recoveries
  <2>1. Settled(r, "pending") \in Rows
    BY <1>2
  <2> QED
    BY <1>1, <1>2, <2>1 DEF Requeued, Rows
<1>4. /\ Claimed(r, age) \in Rows /\ Claimed(r, age).status = "leased"
      /\ r.status = "pending" => Claimed(r, age).attempts = r.attempts + 1
      /\ r.status = "leased" => Claimed(r, age).attempts = r.attempts
  <2> DEFINE a == IF r.status = "pending" THEN r.attempts + 1 ELSE r.attempts
             n == IF r.status = "leased" THEN r.recoveries + 1 ELSE r.recoveries
  <2>1. a \in Nat /\ n \in Nat
    BY DEF Rows
  <2>2. Claimed(r, age) = [r EXCEPT !.status = "leased", !.lease = LeaseTime - age,
                                    !.attempts = a, !.recoveries = n]
    BY DEF Claimed, Rows
  <2>3. Claimed(r, age) \in Rows /\ Claimed(r, age).status = "leased"
    BY <1>1, <2>1, <2>2 DEF Rows
  <2>4. Claimed(r, age).attempts = a
    BY <2>2 DEF Rows
  <2> QED
    BY <2>3, <2>4
<1> QED
  BY <1>2, <1>3, <1>4

(* What a scan of the lease does to each row.                              *)
LEMMA LeasedFacts ==
  ASSUME TypeOK, NEW age \in Nat
  PROVE  /\ Leased(age) \in [Events -> Rows]
         /\ \A e \in Events :
              \/ Leased(age)[e] = row[e]
              \/ /\ row[e].status \in {"pending", "leased"} /\ OverGate(row[e])
                 /\ Leased(age)[e] = Settled(row[e], "failed")
              \/ /\ row[e].status \in {"pending", "leased"} /\ ~OverGate(row[e])
                 /\ Leased(age)[e] = Claimed(row[e], age)
<1>1. \A e \in Events : row[e] \in Rows
  BY DEF TypeOK
<1>2. \A e \in Events :
        /\ Settled(row[e], "failed") \in Rows
        /\ Claimed(row[e], age) \in Rows
  BY <1>1, RowFacts
<1> QED
  BY <1>1, <1>2 DEF Leased, Claimable, Live

-----------------------------------------------------------------------------
(* The program starts with the invariant.                                  *)
LEMMA Initially == Init => IInv
<1> SUFFICES ASSUME Init PROVE IInv
  OBVIOUS
<1> USE DEF Init
<1>1. TypeOK
  <2>1. -MaxAge \in Int
    BY PublishAssumption
  <2>2. row \in [Events -> Rows]
    BY <2>1 DEF Rows
  <2> QED
    BY <2>2 DEF TypeOK
<1>2. Len(queue) = 0
  OBVIOUS
<1>3. Subjects /\ Awaits /\ ClaimsLast /\ Acks
  BY <1>2 DEF Subjects, Awaits, ClaimsLast, Acks, InHand, Waiting
<1>4. Gates
  BY <1>2 DEF Gates
<1>5. AcknowledgedIsHooked /\ SilentOnlyByRecoveries
  BY DEF AcknowledgedIsHooked, SilentOnlyByRecoveries
<1> QED
  BY <1>1, <1>3, <1>4, <1>5 DEF IInv

-----------------------------------------------------------------------------
(* The steps of the worker                                                 *)

(* A submission keeps the invariant when it leaves a place of an action    *)
(* with that action, or the idle place with a claim.                       *)
LEMMA SubmitKeeps ==
  ASSUME IInv, UNCHANGED ledger, hooked \subseteq hooked', hooked' \subseteq Events,
         NEW to \in {"leasing", "absorbing", "acking", "requeueing", "burying"},
         Submits(OpAt[to], to),
         to = "leasing" => pc = "idle",
         to # "leasing" => pc \in InHand,
         to = "acking" => cur \in absorbed /\ cur \in hooked',
         to = "requeueing" => row[cur].attempts + 1 < MaxAttempts
  PROVE  IInv'
<1> DEFINE m == [op |-> OpAt[to], event |-> cur, age |-> 0]
<1> USE DEF IInv
<1>1. OpAt[to] \in Ops /\ (OpAt[to] = "lease" <=> to = "leasing")
      /\ (OpAt[to] = "ack" <=> to = "acking")
      /\ (OpAt[to] = "requeue" <=> to = "requeueing")
  BY DEF OpAt, Ops
<1>2. m \in Mutations /\ m.op = OpAt[to] /\ m.event = cur
  BY <1>1 DEF Mutations, TypeOK
<1>3. queue' = Append(queue, m) /\ pc' = to /\ UNCHANGED <<batch, cur>>
  BY DEF Submits, Goes
<1>4. queue \in Seq(Mutations) /\ Len(queue) \in Nat
  BY DEF TypeOK
<1> HIDE DEF m
<1>5. /\ queue' \in Seq(Mutations) /\ queue' # << >>
      /\ Len(queue') = Len(queue) + 1 /\ queue'[Len(queue')] = m
      /\ \A i \in 1..Len(queue) : queue'[i] = queue[i]
  BY <1>2, <1>3, <1>4, AppendFacts
<1>6. \A i \in 1..Len(queue') : i \in 1..Len(queue) \/ i = Len(queue')
  BY <1>4, <1>5
<1>7. TypeOK'
  BY <1>3, <1>5 DEF TypeOK, ledger
<1>8. Sent' = Sent /\ (pc' \in InHand => cur' \in Sent)
  BY <1>3 DEF Sent, ledger, InHand, Subjects
<1>9. Subjects'
  <2>1. m.op # "lease" => m.event \in Sent
    BY <1>1, <1>2 DEF Subjects
  <2> QED
    BY <1>3, <1>5, <1>6, <1>8, <2>1 DEF Subjects
<1>10. Awaits'
  BY <1>2, <1>3, <1>5 DEF Awaits
<1>11. ClaimsLast'
  <2>1. pc # "idle" => /\ \A i \in 1..Len(queue) : queue[i].op # "lease"
                       /\ m.op # "lease"
    BY <1>1, <1>2 DEF ClaimsLast, InHand
  <2>2. pc = "idle" => m.op = "lease" /\ pc' = "leasing"
    BY <1>1, <1>2, <1>3 DEF InHand
  <2> QED
    BY <1>4, <1>5, <1>6, <2>1, <2>2 DEF ClaimsLast
<1>12. Acks'
  BY <1>1, <1>2, <1>3, <1>5, <1>6 DEF Acks, ledger
<1>13. Gates'
  BY <1>1, <1>2, <1>5, <1>6 DEF Gates, ledger
<1>14. AcknowledgedIsHooked' /\ SilentOnlyByRecoveries'
  BY DEF AcknowledgedIsHooked, SilentOnlyByRecoveries, ledger
<1> QED
  BY <1>7, <1>9, <1>10, <1>11, <1>12, <1>13, <1>14

(* A move that leaves ledger, queue and history alone keeps the invariant  *)
(* when it does not begin to wait, or to hold a claim or an action anew.   *)
LEMMA MoveKeeps ==
  ASSUME IInv, UNCHANGED <<ledger, queue, hooked>>, TypeOK', ~Waiting',
         batch' \subseteq batch,
         pc' \in InHand => cur' \in Sent,
         pc' = "hook" => cur' \in absorbed,
         pc' \notin {"idle", "leasing"} => pc \notin {"idle", "leasing"}
  PROVE  IInv'
<1> USE DEF IInv, ledger
<1>1. Sent' = Sent
  BY DEF Sent
<1>2. Subjects'
  BY <1>1 DEF Subjects
<1>3. Awaits' /\ ClaimsLast' /\ Acks' /\ Gates'
  BY DEF Awaits, ClaimsLast, Acks, Gates
<1>4. AcknowledgedIsHooked' /\ SilentOnlyByRecoveries'
  BY DEF AcknowledgedIsHooked, SilentOnlyByRecoveries
<1> QED
  BY <1>2, <1>3, <1>4

LEMMA WorkerKeeps ==
  ASSUME IInv, WorkerStep
  PROVE  IInv'
<1> USE DEF Goes
<1>1. CASE AsksLease
  <2>1. Submits(OpAt["leasing"], "leasing")
    BY <1>1 DEF AsksLease, OpAt
  <2> QED
    BY <1>1, <2>1, SubmitKeeps DEF AsksLease, IInv, TypeOK
<1>2. CASE Takes
  <2>1. TypeOK'
    BY <1>2 DEF Takes, IInv, TypeOK, ledger
  <2>2. ~Waiting' /\ batch' \subseteq batch /\ pc' # "hook"
    BY <1>2 DEF Takes, Waiting
  <2>3. pc' \in InHand => cur' \in Sent
    BY <1>2 DEF Takes, InHand, IInv, Subjects
  <2> QED
    BY <1>2, <2>1, <2>2, <2>3, MoveKeeps DEF Takes
<1>3. CASE Delivers
  <2>1. pc = "deliver" /\ cur \in Sent
    BY <1>3 DEF Delivers, IInv, Subjects, InHand
  <2>2. CASE Goes("retry") /\ UNCHANGED queue
    <3>1. TypeOK'
      BY <1>3, <2>2 DEF Delivers, IInv, TypeOK, ledger
    <3> QED
      BY <1>3, <2>1, <2>2, <3>1, MoveKeeps DEF Delivers, Waiting
  <2>3. CASE cur \in absorbed /\ Goes("hook") /\ UNCHANGED queue
    <3>1. TypeOK'
      BY <1>3, <2>3 DEF Delivers, IInv, TypeOK, ledger
    <3> QED
      BY <1>3, <2>1, <2>3, <3>1, MoveKeeps DEF Delivers, Waiting
  <2>4. CASE Submits("absorb", "absorbing")
    <3>1. Submits(OpAt["absorbing"], "absorbing")
      BY <2>4 DEF OpAt
    <3> QED
      BY <1>3, <2>1, <3>1, SubmitKeeps DEF Delivers, IInv, TypeOK, InHand
  <2> QED
    BY <1>3, <2>2, <2>3, <2>4 DEF Delivers
<1>4. CASE RunsHook
  <2>1. pc = "hook" /\ cur \in absorbed /\ cur \in Sent
    BY <1>4 DEF RunsHook, IInv, Acks, Subjects, InHand
  <2>2. hooked' = hooked \union {cur} /\ hooked' \subseteq Events
    BY <1>4, <2>1 DEF RunsHook, IInv, TypeOK, Sent
  <2>3. Submits(OpAt["acking"], "acking")
    BY <1>4 DEF RunsHook, OpAt
  <2> QED
    BY <1>4, <2>1, <2>2, <2>3, SubmitKeeps DEF RunsHook, InHand
<1>5. CASE Retries
  <2>1. pc = "retry" /\ UNCHANGED <<ledger, hooked>>
    BY <1>5 DEF Retries
  <2>2. CASE LastTry(row[cur])
    <3>1. Submits(OpAt["burying"], "burying")
      BY <1>5, <2>2 DEF Retries, OpAt
    <3> QED
      BY <2>1, <3>1, SubmitKeeps DEF IInv, TypeOK, InHand
  <2>3. CASE ~LastTry(row[cur])
    <3>1. Submits(OpAt["requeueing"], "requeueing")
      BY <1>5, <2>3 DEF Retries, OpAt
    <3>2. row[cur].attempts \in Nat
      BY <2>1 DEF IInv, TypeOK, Rows, Subjects, InHand, Sent
    <3>3. row[cur].attempts + 1 < MaxAttempts
      BY <2>3, <3>2, PublishAssumption DEF LastTry
    <3> QED
      BY <2>1, <3>1, <3>3, SubmitKeeps DEF IInv, TypeOK, InHand
  <2> QED
    BY <2>2, <2>3
<1> QED
  BY <1>1, <1>2, <1>3, <1>4, <1>5 DEF WorkerStep

-----------------------------------------------------------------------------
(* The writer                                                              *)

(* Taking the head of the queue keeps what is said of the queue, for any   *)
(* change of the rows that keeps the budgets, when the worker stays where  *)
(* it is, unless it waited for that mutation and now waits no more.        *)
LEMMA PopKeeps ==
  ASSUME IInv, TypeOK', queue # << >>, Pops, UNCHANGED hooked,
         Sent \subseteq Sent', absorbed \subseteq absorbed',
         batch' \subseteq Sent', pc' = "hook" => cur' \in absorbed',
         pc' \in InHand => cur' \in Sent',
         \/ UNCHANGED worker /\ ~Awaited
         \/ Awaited /\ ~Waiting',
         \A e \in Events :
           /\ row'[e].status = "absent" => row'[e].attempts = 0
           /\ row'[e].status = "pending" => row'[e].attempts + 1 < MaxAttempts
           /\ row'[e].status = "leased" => row'[e].attempts < MaxAttempts,
         Head(queue).op = "lease" \/ \A e \in Events : row'[e].attempts = row[e].attempts,
         AcknowledgedIsHooked', SilentOnlyByRecoveries'
  PROVE  IInv'
<1> USE DEF IInv
<1>1. queue \in Seq(Mutations)
  BY DEF TypeOK
<1>2. /\ queue' = Tail(queue) /\ Len(queue) \in Nat \ {0} /\ Len(queue') = Len(queue) - 1
      /\ Head(queue) = queue[1]
      /\ \A i \in 1..Len(queue') : i + 1 \in 1..Len(queue) /\ queue'[i] = queue[i + 1]
  BY <1>1, TailFacts DEF Pops
<1>3. \A i \in 1..Len(queue) : queue[i] \in Mutations
  BY <1>1
<1>4. Subjects'
  BY <1>2 DEF Subjects
<1>5. Awaits'
  <2>1. CASE UNCHANGED worker /\ ~Awaited
    <3> SUFFICES ASSUME Waiting'
                 PROVE  /\ queue' # << >>
                        /\ queue'[Len(queue')].op = OpAt[pc]
                        /\ queue'[Len(queue')].event = cur
      BY <2>1 DEF Awaits, worker
    <3>1. pc' = pc
      BY <2>1 DEF worker
    <3>2. Waiting
      BY <3>1 DEF Waiting
    <3>3. Len(queue) # 1
      BY <2>1, <3>2 DEF Awaited
    <3> DEFINE n == Len(queue')
    <3>4. n \in 1..n /\ n + 1 = Len(queue)
      BY <1>2, <3>3
    <3>5. queue'[n] = queue[n + 1]
      BY <1>2, <3>4
    <3>6. queue' # << >>
      BY <3>4
    <3> HIDE DEF n
    <3>7. queue'[n] = queue[Len(queue)]
      BY <3>4, <3>5
    <3> QED
      BY <3>2, <3>6, <3>7 DEF Awaits, n
  <2> QED
    BY <2>1 DEF Awaits
<1>6. ClaimsLast'
  <2>1. \A i, j \in 1..Len(queue') :
          i < j /\ queue'[i].op = "lease" => queue'[j].op = "lease"
    <3> SUFFICES ASSUME NEW i \in 1..Len(queue'), NEW j \in 1..Len(queue'), i < j,
                        queue'[i].op = "lease"
                 PROVE  queue'[j].op = "lease"
      OBVIOUS
    <3>1. i + 1 < j + 1 /\ i + 1 \in 1..Len(queue) /\ j + 1 \in 1..Len(queue)
      BY <1>2
    <3> QED
      BY <1>2, <3>1 DEF ClaimsLast
  <2>2. pc' \notin {"idle", "leasing"} => \A i \in 1..Len(queue') : queue'[i].op # "lease"
    <3>1. CASE UNCHANGED worker
      BY <1>2, <3>1 DEF ClaimsLast, worker
    <3>2. CASE Awaited
      BY <1>2, <3>2 DEF Awaited
    <3> QED
      BY <3>1, <3>2
  <2> QED
    BY <2>1, <2>2 DEF ClaimsLast
<1>7. Acks'
  BY <1>2 DEF Acks
<1>8. Gates'
  <2>1. ASSUME NEW i \in 1..Len(queue'), queue'[i].op = "requeue"
        PROVE  row'[queue'[i].event].attempts + 1 < MaxAttempts
    <3>1. i + 1 \in 1..Len(queue) /\ queue'[i] = queue[i + 1] /\ 1 \in 1..Len(queue)
          /\ 1 < i + 1
      BY <1>2
    <3>2. Head(queue).op # "lease"
      BY <1>2, <2>1, <3>1 DEF ClaimsLast
    <3>3. queue[i + 1].event \in Events
      BY <2>1, <3>1 DEF Subjects, Sent
    <3> QED
      BY <2>1, <3>1, <3>2, <3>3 DEF Gates
  <2> QED
    BY <2>1 DEF Gates
<1> QED
  BY <1>4, <1>5, <1>6, <1>7, <1>8

(* What the head of the queue may be, and that the worker waits for it.    *)
LEMMA HeadFacts ==
  ASSUME IInv, queue # << >>
  PROVE  /\ Head(queue) \in Mutations
         /\ Head(queue).op # "lease" => Head(queue).event \in Sent
         /\ Head(queue).op = "ack" => /\ Head(queue).event \in absorbed
                                      /\ Head(queue).event \in hooked
         /\ Head(queue).op = "requeue" =>
              row[Head(queue).event].attempts + 1 < MaxAttempts
         /\ Awaited => Head(queue).op = OpAt[pc] /\ Head(queue).event = cur
<1> USE DEF IInv
<1>1. queue \in Seq(Mutations)
  BY DEF TypeOK
<1>2. Head(queue) \in Mutations /\ Head(queue) = queue[1] /\ 1 \in 1..Len(queue)
  BY <1>1, TailFacts
<1>3. Awaited => Head(queue).op = OpAt[pc] /\ Head(queue).event = cur
  BY <1>2 DEF Awaited, Awaits
<1> QED
  BY <1>2, <1>3 DEF Subjects, Acks, Gates

(* A mutation of one published row, in a list of allowed changes           *)
LEMMA OneRow ==
  ASSUME IInv, NEW e \in Sent, NEW r \in Rows, r.status \in {"pending", "succeeded", "failed"},
         r.attempts = row[e].attempts, r.recoveries = row[e].recoveries,
         r.status = "pending" => row[e].attempts + 1 < MaxAttempts,
         \/ row' = row
         \/ row' = [row EXCEPT ![e] = r]
  PROVE  /\ row' \in [Events -> Rows] /\ Sent \subseteq Sent'
         /\ \A f \in Events :
              /\ row'[f].status = "absent" => row'[f].attempts = 0
              /\ row'[f].status = "pending" => row'[f].attempts + 1 < MaxAttempts
              /\ row'[f].status = "leased" => row'[f].attempts < MaxAttempts
              /\ row'[f].attempts = row[f].attempts
              /\ row'[f].recoveries = row[f].recoveries
              /\ row'[f].status = row[f].status \/ (f = e /\ row'[f].status = r.status)
<1> USE DEF IInv
<1>1. row \in [Events -> Rows] /\ e \in Events
  BY DEF TypeOK, Sent
<1>2. \A f \in Events : row'[f] = row[f] \/ (f = e /\ row'[f] = r)
  BY <1>1
<1>3. row' \in [Events -> Rows]
  BY <1>1
<1>4. Sent \subseteq Sent'
  BY <1>2 DEF Sent
<1> QED
  BY <1>2, <1>3, <1>4 DEF Gates

(* A mutation that its caller waited for sends it on.                      *)
LEMMA ReturnMoves ==
  ASSUME IInv, NEW to \in {"next", "hook"}, Returns(to),
         Sent \subseteq Sent', to = "hook" /\ Awaited => cur \in absorbed' /\ pc = "absorbing",
         absorbed \subseteq absorbed'
  PROVE  /\ pc' \in {pc, to} /\ batch' = batch /\ cur' = cur
         /\ batch' \subseteq Sent' /\ (pc' = "hook" => cur' \in absorbed')
         /\ pc' \in InHand => cur' \in Sent'
         /\ (UNCHANGED worker /\ ~Awaited) \/ (Awaited /\ ~Waiting')
<1> USE DEF IInv
<1>1. CASE Awaited
  <2>1. pc' = to /\ UNCHANGED <<batch, cur>>
    BY <1>1 DEF Returns, Goes
  <2>2. ~Waiting'
    BY <2>1 DEF Waiting
  <2>3. pc' \in InHand => to = "hook" /\ pc \in InHand
    BY <1>1, <2>1 DEF InHand
  <2> QED
    BY <1>1, <2>1, <2>2, <2>3 DEF Subjects
<1>2. CASE ~Awaited
  <2>1. UNCHANGED <<pc, batch, cur>>
    BY <1>2 DEF Returns, worker
  <2> QED
    BY <1>2, <2>1 DEF Subjects, Acks, worker
<1> QED
  BY <1>1, <1>2

LEMMA LeaseKeeps ==
  ASSUME IInv, queue # << >>, Head(queue).op = "lease", CommitsLease, Pops,
         UNCHANGED <<parent, hooked>>
  PROVE  IInv'
<1> DEFINE age == Head(queue).age
<1> USE DEF IInv
<1>1. age \in Nat /\ (Awaited => Head(queue).op = OpAt[pc])
  BY HeadFacts DEF Mutations
<1>2. /\ row' = Leased(age) /\ row' \in [Events -> Rows]
      /\ UNCHANGED <<absorbed, noted>>
  BY <1>1, LeasedFacts DEF CommitsLease
<1> HIDE DEF age
<1>3. \A e \in Events : row[e] \in Rows
  BY DEF TypeOK
<1>4. ASSUME NEW e \in Events
      PROVE  /\ row[e].status # "absent" => row'[e].status # "absent"
             /\ row'[e].status = "absent" => row'[e].attempts = 0
             /\ row'[e].status = "pending" => row'[e].attempts + 1 < MaxAttempts
             /\ row'[e].status = "leased" => row'[e].attempts < MaxAttempts
             /\ row'[e].status = "succeeded" => e \in hooked
             /\ row'[e].status = "failed" /\ e \notin noted =>
                  row'[e].recoveries >= MaxRecoveries
  <2>1. CASE row'[e] = row[e]
    BY <2>1 DEF Gates, AcknowledgedIsHooked, SilentOnlyByRecoveries
  <2>2. CASE /\ row[e].status \in {"pending", "leased"} /\ OverGate(row[e])
             /\ row'[e] = Settled(row[e], "failed")
    <3>1. row[e].attempts \in Nat /\ row[e].recoveries \in Nat
      BY <1>3 DEF Rows
    <3>2. row[e].recoveries >= MaxRecoveries
      BY <2>2, <3>1, PublishAssumption DEF Gates, OverGate
    <3> QED
      BY <1>3, <2>2, <3>2, RowFacts, 0 \in Nat
  <2>3. CASE /\ row[e].status \in {"pending", "leased"} /\ ~OverGate(row[e])
             /\ row'[e] = Claimed(row[e], age)
    <3>1. row'[e].status = "leased"
      BY <1>1, <1>3, <2>3, RowFacts
    <3>2. row'[e].attempts < MaxAttempts
      <4>1. CASE row[e].status = "pending"
        BY <1>1, <1>3, <2>3, <4>1, RowFacts DEF Gates
      <4>2. CASE row[e].status = "leased"
        BY <1>1, <1>3, <2>3, <4>2, RowFacts DEF Gates
      <4> QED
        BY <2>3, <4>1, <4>2
    <3> QED
      BY <3>1, <3>2
  <2> QED
    BY <1>1, <1>2, <2>1, <2>2, <2>3, LeasedFacts
<1>5. AcknowledgedIsHooked' /\ SilentOnlyByRecoveries'
  BY <1>2, <1>4 DEF AcknowledgedIsHooked, SilentOnlyByRecoveries
<1>6. Sent \subseteq Sent'
  BY <1>4 DEF Sent
<1>7. CASE Awaited
  <2>1. /\ pc' = "next" /\ UNCHANGED cur
        /\ batch' = {e \in Events : Claimable(row[e], age) /\ ~OverGate(row[e])}
    BY <1>7 DEF CommitsLease, age
  <2>2. batch' \subseteq Events /\ batch' \subseteq Sent
    BY <2>1 DEF Claimable, Live, Sent
  <2>3. queue' \in Seq(Mutations)
    BY TailFacts DEF Pops, TypeOK
  <2>4. TypeOK'
    BY <1>2, <2>1, <2>2, <2>3 DEF TypeOK
  <2> QED
    BY <1>2, <1>4, <1>5, <1>6, <1>7, <2>1, <2>2, <2>4, PopKeeps DEF Waiting, InHand
<1>8. CASE ~Awaited
  <2>1. UNCHANGED <<pc, batch, cur>> /\ UNCHANGED worker
    BY <1>8 DEF CommitsLease, worker
  <2>2. queue' \in Seq(Mutations)
    BY TailFacts DEF Pops, TypeOK
  <2>3. TypeOK'
    BY <1>2, <2>1, <2>2 DEF TypeOK
  <2> QED
    BY <1>2, <1>4, <1>5, <1>6, <1>8, <2>1, <2>3, PopKeeps DEF Subjects, Acks
<1> QED
  BY <1>7, <1>8

LEMMA AbsorbKeeps ==
  ASSUME IInv, queue # << >>, Head(queue).op = "absorb", CommitsAbsorb, Pops,
         UNCHANGED <<parent, hooked>>
  PROVE  IInv'
<1> USE DEF IInv
<1>1. /\ Head(queue).event \in Sent
      /\ Awaited => Head(queue).op = OpAt[pc] /\ Head(queue).event = cur
  BY HeadFacts
<1>2. absorbed' = absorbed \union {Head(queue).event} /\ UNCHANGED <<row, noted>>
  BY DEF CommitsAbsorb
<1>3. Sent' = Sent
  BY <1>2 DEF Sent
<1>4. Awaited => cur \in absorbed' /\ pc = "absorbing"
  BY <1>1, <1>2 DEF Awaited, Waiting, OpAt
<1>5. /\ pc' \in {pc, "hook"} /\ batch' = batch /\ cur' = cur
      /\ batch' \subseteq Sent' /\ (pc' = "hook" => cur' \in absorbed')
      /\ pc' \in InHand => cur' \in Sent'
      /\ (UNCHANGED worker /\ ~Awaited) \/ (Awaited /\ ~Waiting')
  BY <1>2, <1>3, <1>4, ReturnMoves DEF CommitsAbsorb
<1>6. TypeOK'
  <2>1. absorbed' \subseteq Events /\ queue' \in Seq(Mutations)
    BY <1>1, <1>2, TailFacts DEF TypeOK, Sent, Pops
  <2> QED
    BY <1>2, <1>5, <2>1 DEF TypeOK
<1>7. AcknowledgedIsHooked' /\ SilentOnlyByRecoveries'
  BY <1>2 DEF AcknowledgedIsHooked, SilentOnlyByRecoveries
<1> QED
  BY <1>2, <1>3, <1>5, <1>6, <1>7, PopKeeps DEF Gates

(* A mutation that settles or requeues one action, or finds it taken.      *)
LEMMA SettleKeeps ==
  ASSUME IInv, queue # << >>, Head(queue).op # "lease", Pops, Returns("next"),
         UNCHANGED <<absorbed, parent, hooked>>,
         noted \subseteq noted', noted' \subseteq Events,
         NEW r \in Rows, r.status \in {"pending", "succeeded", "failed"},
         r.attempts = row[Head(queue).event].attempts,
         r.recoveries = row[Head(queue).event].recoveries,
         r.status = "pending" => row[Head(queue).event].attempts + 1 < MaxAttempts,
         r.status = "succeeded" => Head(queue).event \in hooked,
         r.status = "failed" => Head(queue).event \in noted',
         \/ row' = row
         \/ row' = [row EXCEPT ![Head(queue).event] = r]
  PROVE  IInv'
<1> DEFINE e == Head(queue).event
<1> USE DEF IInv
<1>1. e \in Sent
  BY HeadFacts
<1> HIDE DEF e
<1>2. /\ row' \in [Events -> Rows] /\ Sent \subseteq Sent'
      /\ \A f \in Events :
           /\ row'[f].status = "absent" => row'[f].attempts = 0
           /\ row'[f].status = "pending" => row'[f].attempts + 1 < MaxAttempts
           /\ row'[f].status = "leased" => row'[f].attempts < MaxAttempts
           /\ row'[f].attempts = row[f].attempts
           /\ row'[f].recoveries = row[f].recoveries
           /\ row'[f].status = row[f].status \/ (f = e /\ row'[f].status = r.status)
  BY <1>1, OneRow DEF e
<1>3. /\ pc' \in {pc, "next"} /\ batch' = batch /\ cur' = cur
      /\ batch' \subseteq Sent' /\ (pc' = "hook" => cur' \in absorbed')
      /\ pc' \in InHand => cur' \in Sent'
      /\ (UNCHANGED worker /\ ~Awaited) \/ (Awaited /\ ~Waiting')
  BY <1>2, ReturnMoves
<1>4. TypeOK'
  <2>1. queue' \in Seq(Mutations)
    BY TailFacts DEF TypeOK, Pops
  <2> QED
    BY <1>2, <1>3, <2>1 DEF TypeOK
<1>5. AcknowledgedIsHooked'
  BY <1>2 DEF AcknowledgedIsHooked, e
<1>6. SilentOnlyByRecoveries'
  BY <1>2 DEF SilentOnlyByRecoveries, e
<1> QED
  BY <1>2, <1>3, <1>4, <1>5, <1>6, PopKeeps

LEMMA CommitsKeeps ==
  ASSUME IInv, Commits
  PROVE  IInv'
<1> DEFINE m == Head(queue)
           e == Head(queue).event
<1>1. /\ queue # << >> /\ Pops /\ UNCHANGED <<parent, hooked>>
      /\ m \in Mutations /\ m.age \in Nat
  BY HeadFacts DEF Commits, Mutations
<1>2. CASE m.op = "lease"
  <2>1. CommitsLease
    BY <1>2 DEF Commits
  <2> QED
    BY <1>1, <1>2, <2>1, LeaseKeeps
<1>3. CASE m.op = "absorb"
  <2>1. CommitsAbsorb
    BY <1>3 DEF Commits
  <2> QED
    BY <1>1, <1>3, <2>1, AbsorbKeeps
<1>4. m.op # "lease" => e \in Sent /\ row[e] \in Rows
  BY <1>1, HeadFacts DEF IInv, TypeOK, Sent
<1>5. CASE m.op = "ack"
  <2>1. CommitsAck /\ e \in hooked
    BY <1>1, <1>5, HeadFacts DEF Commits
  <2>2. /\ Settled(row[e], "succeeded") \in Rows
        /\ Settled(row[e], "succeeded").status = "succeeded"
        /\ Settled(row[e], "succeeded").attempts = row[e].attempts
        /\ Settled(row[e], "succeeded").recoveries = row[e].recoveries
    BY <1>4, <1>5, RowFacts, 0 \in Nat
  <2>3. \/ row' = row
        \/ row' = [row EXCEPT ![e] = Settled(row[e], "succeeded")]
    BY <2>1 DEF CommitsAck
  <2>4. Returns("next") /\ UNCHANGED <<absorbed, noted>> /\ noted \subseteq Events
    BY <2>1 DEF CommitsAck, IInv, TypeOK
  <2> QED
    BY <1>1, <1>5, <2>1, <2>2, <2>3, <2>4, SettleKeeps
<1>6. CASE m.op = "requeue"
  <2>1. CommitsRequeue /\ row[e].attempts + 1 < MaxAttempts
    BY <1>1, <1>6, HeadFacts DEF Commits
  <2>2. /\ Requeued(row[e], m.age) \in Rows /\ Requeued(row[e], m.age).status = "pending"
        /\ Requeued(row[e], m.age).attempts = row[e].attempts
        /\ Requeued(row[e], m.age).recoveries = row[e].recoveries
    BY <1>1, <1>4, <1>6, RowFacts
  <2>3. \/ row' = row
        \/ row' = [row EXCEPT ![e] = Requeued(row[e], m.age)]
    BY <2>1 DEF CommitsRequeue
  <2>4. Returns("next") /\ UNCHANGED <<absorbed, noted>> /\ noted \subseteq Events
    BY <2>1 DEF CommitsRequeue, IInv, TypeOK
  <2> QED
    BY <1>1, <1>6, <2>1, <2>2, <2>3, <2>4, SettleKeeps
<1>7. CASE m.op = "bury"
  <2>1. CommitsBury
    BY <1>7 DEF Commits
  <2>2. /\ Settled(row[e], "failed") \in Rows
        /\ Settled(row[e], "failed").status = "failed"
        /\ Settled(row[e], "failed").attempts = row[e].attempts
        /\ Settled(row[e], "failed").recoveries = row[e].recoveries
    BY <1>4, <1>7, RowFacts, 0 \in Nat
  <2>3. \/ row' = row
        \/ row' = [row EXCEPT ![e] = Settled(row[e], "failed")]
    BY <2>1 DEF CommitsBury
  <2>4. /\ Returns("next") /\ UNCHANGED absorbed
        /\ noted' = noted \union {e} /\ noted' \subseteq Events
    BY <1>4, <1>7, <2>1 DEF CommitsBury, IInv, TypeOK, Sent
  <2> QED
    BY <1>1, <1>7, <2>2, <2>3, <2>4, SettleKeeps
<1> QED
  BY <1>1, <1>2, <1>3, <1>5, <1>6, <1>7 DEF Mutations, Ops

-----------------------------------------------------------------------------
(* Failures                                                                *)

(* An exception leaves the worker idle, or with the action it has.         *)
LEMMA RaiseMoves ==
  ASSUME IInv, Raises
  PROVE  /\ pc' \in {"idle", "retry"} /\ batch' \subseteq batch
         /\ cur' \in Events \union {"none"}
         /\ pc' \in InHand => cur' \in Sent
         /\ ~Waiting'
         /\ pc' \notin {"idle", "leasing"} => pc \notin {"idle", "leasing"}
<1>1. CASE pc = "absorbing"
  <2>1. pc' = "retry" /\ UNCHANGED <<batch, cur>>
    BY <1>1 DEF Raises, Goes
  <2> QED
    BY <1>1, <2>1 DEF IInv, TypeOK, Subjects, InHand, Waiting
<1>2. CASE pc # "absorbing"
  <2>1. pc' = "idle" /\ batch' = {} /\ cur' = "none"
    BY <1>2 DEF Raises
  <2> QED
    BY <2>1 DEF InHand, Waiting
<1> QED
  BY <1>1, <1>2

LEMMA CommitFailsKeeps ==
  ASSUME IInv, CommitFails
  PROVE  IInv'
<1>1. queue # << >> /\ Pops /\ UNCHANGED <<row, absorbed, noted, parent, hooked>>
  BY DEF CommitFails, ledger
<1>2. Sent' = Sent
  BY <1>1 DEF Sent
<1>3. /\ pc' \in {pc, "idle", "retry"} /\ batch' \subseteq Sent'
      /\ cur' \in Events \union {"none"}
      /\ pc' \in InHand => cur' \in Sent'
      /\ pc' = "hook" => cur' \in absorbed'
      /\ (UNCHANGED worker /\ ~Awaited) \/ (Awaited /\ ~Waiting')
  <2>1. CASE Awaited
    BY <1>1, <1>2, <2>1, RaiseMoves DEF CommitFails, IInv, Subjects
  <2>2. CASE ~Awaited
    <3>1. UNCHANGED <<pc, batch, cur>> /\ UNCHANGED worker
      BY <2>2 DEF CommitFails, worker
    <3> QED
      BY <1>1, <1>2, <2>2, <3>1 DEF IInv, TypeOK, Subjects, Acks
  <2> QED
    BY <2>1, <2>2
<1>4. TypeOK'
  <2>1. queue' \in Seq(Mutations) /\ batch' \subseteq Events
    BY <1>1, <1>2, <1>3, TailFacts DEF IInv, TypeOK, Pops, Sent
  <2> QED
    BY <1>1, <1>3, <2>1 DEF IInv, TypeOK
<1>5. AcknowledgedIsHooked' /\ SilentOnlyByRecoveries'
  BY <1>1 DEF IInv, AcknowledgedIsHooked, SilentOnlyByRecoveries
<1> QED
  BY <1>1, <1>2, <1>3, <1>4, <1>5, PopKeeps DEF IInv, Gates

LEMMA TimesOutKeeps ==
  ASSUME IInv, TimesOut
  PROVE  IInv'
<1>1. Raises /\ UNCHANGED <<ledger, queue, hooked>> /\ Waiting
  BY DEF TimesOut
<1>2. /\ pc' \in {"idle", "retry"} /\ batch' \subseteq batch
      /\ cur' \in Events \union {"none"}
      /\ pc' \in InHand => cur' \in Sent
      /\ ~Waiting'
      /\ pc' \notin {"idle", "leasing"} => pc \notin {"idle", "leasing"}
  BY <1>1, RaiseMoves
<1>3. Sent' = Sent
  BY <1>1 DEF Sent, ledger
<1>4. TypeOK'
  BY <1>1, <1>2 DEF IInv, TypeOK, ledger
<1>5. Subjects' /\ Awaits'
  BY <1>1, <1>2, <1>3 DEF IInv, Subjects, Awaits
<1>6. ClaimsLast' /\ Acks' /\ Gates'
  BY <1>1, <1>2 DEF IInv, ClaimsLast, Acks, Gates, ledger
<1>7. AcknowledgedIsHooked' /\ SilentOnlyByRecoveries'
  BY <1>1 DEF IInv, AcknowledgedIsHooked, SilentOnlyByRecoveries, ledger
<1> QED
  BY <1>4, <1>5, <1>6, <1>7 DEF IInv

LEMMA CrashKeeps ==
  ASSUME IInv, Crash
  PROVE  IInv'
<1>1. /\ queue' = << >> /\ Len(queue') = 0 /\ pc' = "idle" /\ batch' = {} /\ cur' = "none"
      /\ UNCHANGED <<row, absorbed, noted, parent, hooked>>
  BY DEF Crash, ledger
<1>2. TypeOK'
  BY <1>1 DEF IInv, TypeOK
<1>3. Subjects' /\ Awaits'
  BY <1>1 DEF Subjects, Awaits, InHand, Waiting
<1>4. ClaimsLast' /\ Acks'
  BY <1>1 DEF ClaimsLast, Acks
<1>5. Gates'
  BY <1>1 DEF IInv, Gates
<1>6. AcknowledgedIsHooked' /\ SilentOnlyByRecoveries'
  BY <1>1 DEF IInv, AcknowledgedIsHooked, SilentOnlyByRecoveries
<1> QED
  BY <1>2, <1>3, <1>4, <1>5, <1>6 DEF IInv

-----------------------------------------------------------------------------
(* The rest of the system                                                  *)

(* A change of the rows that keeps every status and budget                 *)
LEMMA RowsKeep ==
  ASSUME IInv, TypeOK', UNCHANGED <<absorbed, noted, pc, batch, cur, hooked>>,
         Len(queue') = Len(queue),
         \A i \in 1..Len(queue) :
           queue'[i].op = queue[i].op /\ queue'[i].event = queue[i].event,
         queue # << >> => queue' # << >>,
         \A e \in Events :
           /\ row'[e].attempts = row[e].attempts
           /\ row'[e].recoveries = row[e].recoveries
           /\ \/ row'[e].status = row[e].status
              \/ row[e].status = "absent" /\ row'[e].status = "pending"
  PROVE  IInv'
<1> USE DEF IInv
<1>1. Sent \subseteq Sent'
  BY DEF Sent
<1>2. Subjects'
  BY <1>1 DEF Subjects
<1>3. Awaits'
  <2> SUFFICES ASSUME Waiting'
               PROVE  /\ queue' # << >>
                      /\ queue'[Len(queue')].op = OpAt[pc]
                      /\ queue'[Len(queue')].event = cur
    BY DEF Awaits
  <2>1. Waiting
    BY DEF Waiting
  <2>2. queue # << >> /\ Len(queue) \in 1..Len(queue)
    BY <2>1, TailFacts DEF Awaits, TypeOK
  <2> QED
    BY <2>1, <2>2 DEF Awaits
<1>4. ClaimsLast' /\ Acks'
  BY DEF ClaimsLast, Acks
<1>5. Gates'
  <2>1. \A e \in Events :
          /\ row'[e].status = "absent" => row'[e].attempts = 0
          /\ row'[e].status = "pending" => row'[e].attempts + 1 < MaxAttempts
          /\ row'[e].status = "leased" => row'[e].attempts < MaxAttempts
    <3>1. 0 + 1 < MaxAttempts
      BY PublishAssumption
    <3> QED
      BY <3>1 DEF Gates
  <2>2. \A i \in 1..Len(queue) :
          queue[i].op = "requeue" => queue[i].event \in Events
    BY DEF Subjects, Sent
  <2> QED
    BY <2>1, <2>2 DEF Gates
<1>6. AcknowledgedIsHooked' /\ SilentOnlyByRecoveries'
  BY DEF AcknowledgedIsHooked, SilentOnlyByRecoveries
<1> QED
  BY <1>2, <1>3, <1>4, <1>5, <1>6

LEMMA PublishesKeeps ==
  ASSUME IInv, NEW e \in Events, Publishes(e)
  PROVE  IInv'
<1>1. /\ row' = [row EXCEPT ![e].status = "pending"] /\ row[e].status = "absent"
      /\ UNCHANGED <<absorbed, noted, parent, pc, batch, cur, hooked, queue>>
  BY DEF Publishes, worker
<1>2. row \in [Events -> Rows] /\ [row[e] EXCEPT !.status = "pending"] \in Rows
  BY DEF IInv, TypeOK, Rows
<1>3. row' \in [Events -> Rows]
  BY <1>1, <1>2
<1>4. TypeOK'
  BY <1>1, <1>3 DEF IInv, TypeOK
<1>5. \A f \in Events :
           /\ row'[f].attempts = row[f].attempts
           /\ row'[f].recoveries = row[f].recoveries
           /\ \/ row'[f].status = row[f].status
              \/ row[f].status = "absent" /\ row'[f].status = "pending"
  BY <1>1, <1>2 DEF Rows
<1> QED
  BY <1>1, <1>4, <1>5, RowsKeep

LEMMA TickKeeps ==
  ASSUME IInv, Tick
  PROVE  IInv'
<1> DEFINE aged(e) == [row[e] EXCEPT !.lease = Down(@), !.wait = Down(@)]
<1>1. UNCHANGED <<absorbed, noted, parent, pc, batch, cur, hooked>>
  BY DEF Tick, worker
<1>2. ASSUME NEW e \in Events
      PROVE  /\ row'[e] = aged(e) /\ aged(e) \in Rows
             /\ row'[e].attempts = row[e].attempts
             /\ row'[e].recoveries = row[e].recoveries
             /\ row'[e].status = row[e].status
  <2>1. row[e] \in Rows /\ row[e].lease \in Int /\ row[e].wait \in Int
    BY DEF IInv, TypeOK, Rows
  <2>2. Down(row[e].lease) \in Int /\ Down(row[e].wait) \in Int
    BY <2>1 DEF Down
  <2>3. aged(e) \in Rows
    BY <2>1, <2>2 DEF Rows
  <2>4. row'[e] = aged(e)
    BY DEF Tick
  <2> QED
    BY <2>1, <2>3, <2>4 DEF Rows
<1>3. row' \in [Events -> Rows]
  BY <1>2 DEF Tick
<1>4. queue \in Seq(Mutations) /\ Len(queue) \in Nat /\ DOMAIN queue = 1..Len(queue)
  BY DEF IInv, TypeOK
<1>5. queue' = [i \in 1..Len(queue) |-> [queue[i] EXCEPT !.age = @ + 1]]
  BY <1>4 DEF Tick
<1>6. ASSUME NEW i \in 1..Len(queue)
      PROVE  /\ queue'[i] \in Mutations
             /\ queue'[i].op = queue[i].op /\ queue'[i].event = queue[i].event
  <2>1. queue[i] \in Mutations
    BY <1>4
  <2> QED
    BY <1>5, <2>1 DEF Mutations
<1>7. queue' \in Seq(Mutations)
  BY <1>4, <1>5, <1>6
<1>8. Len(queue') = Len(queue) /\ (queue # << >> => queue' # << >>)
  <2>1. DOMAIN queue' = 1..Len(queue) /\ DOMAIN queue' = 1..Len(queue')
        /\ Len(queue') \in Nat
    BY <1>4, <1>5, <1>7
  <2> QED
    BY <1>4, <1>7, <2>1
<1>9. TypeOK'
  BY <1>1, <1>3, <1>7 DEF IInv, TypeOK
<1> QED
  BY <1>1, <1>2, <1>5, <1>6, <1>8, <1>9, RowsKeep

LEMMA ParentEndsKeeps ==
  ASSUME IInv, ParentEnds
  PROVE  IInv'
<1>1. /\ parent' = FALSE
      /\ UNCHANGED <<row, absorbed, noted, pc, batch, cur, hooked, queue>>
  BY DEF ParentEnds, worker
<1>2. TypeOK'
  BY <1>1 DEF IInv, TypeOK
<1> QED
  BY <1>1, <1>2, RowsKeep

LEMMA Preserved == IInv /\ [Next]_vars => IInv'
<1> SUFFICES ASSUME IInv, [Next]_vars PROVE IInv'
  OBVIOUS
<1>1. CASE UNCHANGED vars
  <2>1. UNCHANGED <<row, absorbed, noted, parent, queue, pc, batch, cur, hooked>>
    BY <1>1 DEF vars, ledger, worker
  <2>2. TypeOK'
    BY <2>1 DEF IInv, TypeOK
  <2> QED
    BY <2>1, <2>2, RowsKeep
<1>2. CASE Next
  BY <1>2, PublishesKeeps, WorkerKeeps, TimesOutKeeps, CommitsKeeps, CommitFailsKeeps,
     CrashKeeps, ParentEndsKeeps, TickKeeps DEF Next
<1> QED
  BY <1>1, <1>2

-----------------------------------------------------------------------------
(* The invariant holds of every behaviour.                                 *)
THEOREM Invariant == Spec => []IInv
<1> QED
  BY Initially, Preserved, PTL DEF Spec

(* The variables keep their types.                                         *)
THEOREM TypeCorrect == Spec => []TypeOK
<1>1. IInv => TypeOK
  BY DEF IInv
<1> QED
  BY <1>1, Invariant, PTL

(* No action is acknowledged before the readiness hook has run for it      *)
(* (event_publish_worker.py:104), wherever the process crashed.            *)
THEOREM HookedCorrect == Spec => []AcknowledgedIsHooked
<1>1. IInv => AcknowledgedIsHooked
  BY DEF IInv
<1> QED
  BY <1>1, Invariant, PTL

(* An action that is failed and has left no error on its invocation has    *)
(* used up its lease recoveries (event_publish_worker.py:118): with a gate *)
(* of at least two attempts, the lease scan never reaches it first.        *)
THEOREM SilentCorrect == Spec => []SilentOnlyByRecoveries
<1>1. IInv => SilentOnlyByRecoveries
  BY DEF IInv
<1> QED
  BY <1>1, Invariant, PTL

-----------------------------------------------------------------------------
(* Refinement of AtLeastOnce                                               *)

Confirmed == {e \in Events : row[e].status = "succeeded"}
Lost == {e \in Events : row[e].status = "failed"}

(* A mutation on one row that leaves the lease, if the row has one         *)
LEMMA OneRowMaps ==
  ASSUME TypeOK, NEW e \in Sent, NEW r \in Rows, r.status # "absent",
         \/ row' = row
         \/ row[e].status = "leased" /\ row' = [row EXCEPT ![e] = r]
  PROVE  /\ Sent' = Sent
         /\ r.status = "pending" => Confirmed' = Confirmed /\ Lost' = Lost
         /\ r.status = "succeeded" =>
              /\ Lost' = Lost
              /\ \/ Confirmed' = Confirmed
                 \/ e \notin Confirmed \union Lost /\ Confirmed' = Confirmed \union {e}
         /\ r.status = "failed" =>
              /\ Confirmed' = Confirmed
              /\ \/ Lost' = Lost
                 \/ e \notin Confirmed \union Lost /\ Lost' = Lost \union {e}
<1>1. row \in [Events -> Rows] /\ e \in Events
  BY DEF TypeOK, Sent
<1>2. CASE row' = row
  BY <1>2 DEF Sent, Confirmed, Lost
<1>3. CASE row[e].status = "leased" /\ row' = [row EXCEPT ![e] = r]
  <2>1. \A f \in Events : row'[f] = IF f = e THEN r ELSE row[f]
    BY <1>1, <1>3
  <2>2. Sent' = Sent
    BY <1>3, <2>1 DEF Sent
  <2>3. r.status = "pending" => Confirmed' = Confirmed /\ Lost' = Lost
    BY <1>3, <2>1 DEF Confirmed, Lost
  <2>4. r.status = "succeeded" => Confirmed' = Confirmed \union {e} /\ Lost' = Lost
    BY <1>1, <1>3, <2>1 DEF Confirmed, Lost
  <2>5. r.status = "failed" => Confirmed' = Confirmed /\ Lost' = Lost \union {e}
    BY <1>1, <1>3, <2>1 DEF Confirmed, Lost
  <2>6. e \notin Confirmed \union Lost
    BY <1>3 DEF Confirmed, Lost
  <2> QED
    BY <2>2, <2>3, <2>4, <2>5, <2>6
<1> QED
  BY <1>2, <1>3

(* Every mutation is one step of the outbox, or none.                      *)
LEMMA CommitsMap ==
  ASSUME IInv, Commits
  PROVE  \/ UNCHANGED <<Sent, absorbed, Confirmed, Lost>>
         \/ \E e \in Sent : /\ absorbed' = absorbed \union {e}
                            /\ UNCHANGED <<Sent, Confirmed, Lost>>
         \/ \E e \in (Sent \ (Confirmed \union Lost)) \intersect absorbed :
              Confirmed' = Confirmed \union {e} /\ UNCHANGED <<Sent, absorbed, Lost>>
         \/ \E S \in SUBSET (Sent \ (Confirmed \union Lost)) :
              Lost' = Lost \union S /\ UNCHANGED <<Sent, absorbed, Confirmed>>
<1> DEFINE m == Head(queue)
           e == Head(queue).event
<1>1. queue # << >> /\ m \in Mutations /\ m.age \in Nat
  BY HeadFacts DEF Commits, Mutations
<1>2. TypeOK /\ \A f \in Events : row[f] \in Rows
  BY DEF IInv, TypeOK
<1>3. m.op # "lease" => e \in Sent /\ row[e] \in Rows
  BY <1>1, <1>2, HeadFacts DEF Sent
<1>4. CASE m.op = "lease"
  <2> DEFINE S == {f \in Events : row'[f].status = "failed" /\ row[f].status # "failed"}
  <2>1. CommitsLease
    BY <1>4 DEF Commits
  <2>2. row' = Leased(m.age) /\ absorbed' = absorbed
    BY <2>1 DEF CommitsLease
  <2>3. \A f \in Events :
          \/ row'[f] = row[f]
          \/ row[f].status \in {"pending", "leased"} /\ row'[f].status \in {"leased", "failed"}
    <3>1. \A f \in Events : /\ Settled(row[f], "failed").status = "failed"
                            /\ Claimed(row[f], m.age).status = "leased"
      BY <1>1, <1>2, RowFacts
    <3> QED
      BY <1>1, <1>2, <2>2, <3>1, LeasedFacts
  <2>4. Sent' = Sent /\ Confirmed' = Confirmed /\ Lost' = Lost \union S
    BY <2>3 DEF Sent, Confirmed, Lost
  <2>5. S \in SUBSET (Sent \ (Confirmed \union Lost))
    BY <2>3 DEF Sent, Confirmed, Lost
  <2> QED
    BY <2>2, <2>4, <2>5
<1>5. CASE m.op = "absorb"
  <2>1. CommitsAbsorb
    BY <1>5 DEF Commits
  <2>2. absorbed' = absorbed \union {e} /\ row' = row
    BY <2>1 DEF CommitsAbsorb
  <2>3. UNCHANGED <<Sent, Confirmed, Lost>>
    BY <2>2 DEF Sent, Confirmed, Lost
  <2> QED
    BY <1>3, <1>5, <2>2, <2>3
<1>6. CASE m.op = "ack"
  <2>1. CommitsAck /\ e \in absorbed
    BY <1>1, <1>6, HeadFacts DEF Commits
  <2>2. Settled(row[e], "succeeded") \in Rows
        /\ Settled(row[e], "succeeded").status = "succeeded"
    BY <1>3, <1>6, RowFacts, 0 \in Nat
  <2>3. \/ row' = row
        \/ /\ row[e].status = "leased"
           /\ row' = [row EXCEPT ![e] = Settled(row[e], "succeeded")]
    BY <2>1 DEF CommitsAck, Held
  <2>4. /\ Sent' = Sent /\ Lost' = Lost
        /\ \/ Confirmed' = Confirmed
           \/ e \notin Confirmed \union Lost /\ Confirmed' = Confirmed \union {e}
    BY <1>2, <1>3, <1>6, <2>2, <2>3, OneRowMaps
  <2>5. absorbed' = absorbed
    BY <2>1 DEF CommitsAck
  <2> QED
    BY <1>3, <1>6, <2>1, <2>4, <2>5
<1>7. CASE m.op = "requeue"
  <2>1. CommitsRequeue
    BY <1>7 DEF Commits
  <2>2. Requeued(row[e], m.age) \in Rows /\ Requeued(row[e], m.age).status = "pending"
    BY <1>1, <1>3, <1>7, RowFacts
  <2>3. \/ row' = row
        \/ /\ row[e].status = "leased"
           /\ row' = [row EXCEPT ![e] = Requeued(row[e], m.age)]
    BY <2>1 DEF CommitsRequeue, Held
  <2>4. UNCHANGED <<Sent, Confirmed, Lost>>
    BY <1>2, <1>3, <1>7, <2>2, <2>3, OneRowMaps
  <2> QED
    BY <2>1, <2>4 DEF CommitsRequeue
<1>8. CASE m.op = "bury"
  <2>1. CommitsBury
    BY <1>8 DEF Commits
  <2>2. Settled(row[e], "failed") \in Rows /\ Settled(row[e], "failed").status = "failed"
    BY <1>3, <1>8, RowFacts, 0 \in Nat
  <2>3. \/ row' = row
        \/ /\ row[e].status = "leased"
           /\ row' = [row EXCEPT ![e] = Settled(row[e], "failed")]
    BY <2>1 DEF CommitsBury, Held
  <2>4. /\ Sent' = Sent /\ Confirmed' = Confirmed
        /\ \/ Lost' = Lost
           \/ e \notin Confirmed \union Lost /\ Lost' = Lost \union {e}
    BY <1>2, <1>3, <1>8, <2>2, <2>3, OneRowMaps
  <2>5. absorbed' = absorbed
    BY <2>1 DEF CommitsBury
  <2> QED
    BY <1>3, <1>8, <2>4, <2>5
<1> QED
  BY <1>1, <1>4, <1>5, <1>6, <1>7, <1>8 DEF Mutations, Ops

LEMMA StepMaps == IInv /\ [Next]_vars => [Delivery!Next]_(Delivery!vars)
<1> SUFFICES ASSUME IInv, [Next]_vars PROVE [Delivery!Next]_(Delivery!vars)
  OBVIOUS
<1> USE DEF Delivery!Next, Delivery!vars, Delivery!Send, Delivery!Deliver,
            Delivery!Confirm, Delivery!GiveUp, Delivery!Open
<1>1. ASSUME row' = row, absorbed' = absorbed
      PROVE  UNCHANGED Delivery!vars
  BY <1>1
<1>2. CASE UNCHANGED vars \/ WorkerStep \/ TimesOut \/ CommitFails \/ Crash \/ ParentEnds
  BY <1>1, <1>2 DEF vars, ledger, WorkerStep, AsksLease, Takes, Delivers, RunsHook, Retries,
     TimesOut, CommitFails, Crash, ParentEnds
<1>3. ASSUME NEW e \in Events, Publishes(e)
      PROVE  Delivery!Next
  <2>1. /\ row \in [Events -> Rows] /\ row[e].status = "absent"
        /\ row' = [row EXCEPT ![e].status = "pending"] /\ absorbed' = absorbed
    BY <1>3 DEF Publishes, IInv, TypeOK
  <2>2. \A f \in Events : row'[f].status = IF f = e THEN "pending" ELSE row[f].status
    BY <2>1 DEF Rows
  <2>3. Sent' = Sent \union {e} /\ e \notin Sent /\ UNCHANGED <<Confirmed, Lost>>
    BY <2>1, <2>2 DEF Sent, Confirmed, Lost
  <2> QED
    BY <2>1, <2>3 DEF Sent, Confirmed, Lost
<1>4. CASE Tick
  <2>1. \A e \in Events : row'[e].status = row[e].status
    <3> TAKE e \in Events
    <3>1. row[e] \in Rows /\ row'[e] = [row[e] EXCEPT !.lease = Down(@), !.wait = Down(@)]
      BY <1>4 DEF Tick, IInv, TypeOK
    <3> QED
      BY <3>1 DEF Rows
  <2>2. UNCHANGED <<Sent, absorbed, Confirmed, Lost>>
    BY <1>4, <2>1 DEF Tick, Sent, Confirmed, Lost
  <2> QED
    BY <2>2 DEF Sent, Confirmed, Lost
<1>5. CASE Commits
  <2>1. \A e \in Sent : e \in Events
    BY DEF Sent
  <2> QED
    BY <1>5, <2>1, CommitsMap DEF Sent, Confirmed, Lost
<1> QED
  BY <1>2, <1>3, <1>4, <1>5 DEF Next

(* Delivery through the outbox is at least once: nothing is confirmed that *)
(* has not been absorbed by the parent, and an action that is confirmed or *)
(* given up stays so (event_publish_worker.py:5).                          *)
THEOREM Implements == Spec => ImplementsAtLeastOnce
<1>1. Init => Delivery!Init
  BY DEF Init, Delivery!Init
<1> QED
  BY <1>1, StepMaps, Invariant, PTL DEF Spec, ImplementsAtLeastOnce, Delivery!Spec

-----------------------------------------------------------------------------
(* The leases implement OutboxLease                                        *)

(* A row that keeps its status and counts has not moved for OutboxLease.   *)
LEMMA QuietLease ==
  ASSUME \A e \in Events :
           /\ row'[e].status = row[e].status
           /\ row'[e].attempts = row[e].attempts
           /\ row'[e].recoveries = row[e].recoveries
  PROVE  UNCHANGED Lease!leaseVars
BY DEF Lease!leaseVars

(* A scan of the lease is one step of OutboxLease.                         *)
LEMMA LeaseLease ==
  ASSUME TypeOK, NEW age \in Nat, row' = Leased(age)
  PROVE  Lease!Next
<1>1. /\ \A e \in Events : row[e] \in Rows
      /\ MaxAttempts \in Nat /\ MaxRecoveries \in Nat
  BY PublishAssumption DEF TypeOK
<1>2. PICK ready \in SUBSET Events :
        ready = {e \in Events : Claimable(row[e], age) /\ ~OverGate(row[e])}
  OBVIOUS
<1>3. PICK over \in SUBSET Events :
        over = {e \in Events : Claimable(row[e], age) /\ OverGate(row[e])}
  OBVIOUS
<1>4. /\ ready \subseteq Lease!Live /\ \A e \in ready : Lease!InBudget(e)
      /\ over \subseteq Lease!Live /\ \A e \in over : ~Lease!InBudget(e)
  BY <1>1, <1>2, <1>3 DEF Lease!Live, Lease!InBudget, Claimable, Live, OverGate, Rows
<1>5. \A e \in Events : row'[e] = IF e \in ready THEN Claimed(row[e], age)
                                  ELSE IF e \in over THEN Settled(row[e], "failed")
                                  ELSE row[e]
  BY <1>2, <1>3 DEF Leased
<1>6. \A e \in Events :
        /\ Settled(row[e], "failed").status = "failed"
        /\ Settled(row[e], "failed").attempts = row[e].attempts
        /\ Settled(row[e], "failed").recoveries = row[e].recoveries
        /\ Claimed(row[e], age).status = "leased"
        /\ Claimed(row[e], age).attempts =
             IF row[e].status = "pending" THEN row[e].attempts + 1 ELSE row[e].attempts
        /\ Claimed(row[e], age).recoveries =
             IF row[e].status = "leased" THEN row[e].recoveries + 1 ELSE row[e].recoveries
  BY <1>1 DEF Settled, Claimed, Rows
<1>7. Lease!Claims(ready, over)
  BY <1>4, <1>5, <1>6 DEF Lease!Claims
<1> QED
  BY <1>7 DEF Lease!Next

(* A mutation settles a row only while it is leased.                       *)
LEMMA SettledLease ==
  ASSUME TypeOK, NEW e \in Events, row[e].status = "leased",
         NEW r \in Rows, row' = [row EXCEPT ![e] = r],
         r.status \in {"pending", "succeeded", "failed"},
         r.attempts = row[e].attempts, r.recoveries = row[e].recoveries
  PROVE  Lease!Next
<1>1. \A b \in Events : row'[b] = IF b = e THEN r ELSE row[b]
  BY DEF TypeOK
<1>2. Lease!Settles(e, r.status)
  BY <1>1 DEF Lease!Settles, Lease!Becomes, Lease!KeepsCounts
<1> QED
  BY <1>2 DEF Lease!Next

(* Whatever the writer runs, however late, and whoever still waits for it. *)
LEMMA CommitsLeases ==
  ASSUME IInv, Commits
  PROVE  Lease!Next \/ UNCHANGED Lease!leaseVars
<1> DEFINE m == Head(queue)
<1>1. /\ m \in Mutations /\ m.age \in Nat /\ \A e \in Events : row[e] \in Rows
      /\ row \in [Events -> Rows]
  BY HeadFacts DEF IInv, TypeOK, Commits, Mutations
<1>2. CASE m.op = "lease"
  BY <1>1, <1>2, LeaseLease DEF Commits, CommitsLease, IInv
<1>3. CASE m.op = "absorb"
  BY <1>3, QuietLease DEF Commits, CommitsAbsorb
<1>4. CASE m.op \in {"ack", "requeue", "bury"}
  <2>1. m.event \in Events
    BY <1>4, HeadFacts DEF IInv, Subjects, Sent, Commits
  <2>2. \/ UNCHANGED row
        \/ /\ row[m.event].status = "leased"
           /\ \/ row' = [row EXCEPT ![m.event] = Settled(row[m.event], "succeeded")]
              \/ row' = [row EXCEPT ![m.event] = Requeued(row[m.event], m.age)]
              \/ row' = [row EXCEPT ![m.event] = Settled(row[m.event], "failed")]
    BY <1>4 DEF Commits, CommitsAck, CommitsRequeue, CommitsBury, Held
  <2>3. CASE UNCHANGED row
    BY <2>3, QuietLease
  <2>4. ASSUME row[m.event].status = "leased",
               NEW r \in {Settled(row[m.event], "succeeded"), Requeued(row[m.event], m.age),
                          Settled(row[m.event], "failed")},
               row' = [row EXCEPT ![m.event] = r]
        PROVE  Lease!Next
    <3>1. /\ r \in Rows /\ r.status \in {"pending", "succeeded", "failed"}
          /\ r.attempts = row[m.event].attempts /\ r.recoveries = row[m.event].recoveries
      BY <1>1, <2>1, RowFacts
    <3> QED
      BY <2>1, <2>4, <3>1, SettledLease DEF IInv
  <2> QED
    BY <2>2, <2>3, <2>4
<1> QED
  BY <1>1, <1>2, <1>3, <1>4 DEF Mutations, Ops

(* Publishing arms a row, and time, crashes and the worker itself leave    *)
(* its status and counts alone.                                            *)
LEMMA StepLeases ==
  ASSUME IInv, [Next]_vars
  PROVE  Lease!Next \/ UNCHANGED Lease!leaseVars
<1>1. row \in [Events -> Rows]
  BY DEF IInv, TypeOK
<1>2. CASE UNCHANGED row
  BY <1>2, QuietLease
<1>3. CASE Tick
  <2>1. \A e \in Events :
          /\ row'[e].status = row[e].status /\ row'[e].attempts = row[e].attempts
          /\ row'[e].recoveries = row[e].recoveries
    BY <1>1, <1>3 DEF Tick, Rows
  <2> QED
    BY <2>1, QuietLease
<1>4. ASSUME NEW e \in Events, Publishes(e) PROVE Lease!Next
  <2>1. \A b \in Events :
          /\ row'[b].status = IF b = e THEN "pending" ELSE row[b].status
          /\ row'[b].attempts = row[b].attempts /\ row'[b].recoveries = row[b].recoveries
    BY <1>1, <1>4 DEF Publishes, Rows
  <2>2. Lease!Arms({e})
    BY <1>4, <2>1 DEF Publishes, Lease!Arms, Lease!Becomes, Lease!KeepsCounts
  <2> QED
    BY <2>2 DEF Lease!Next
<1> QED
  BY <1>2, <1>3, <1>4, CommitsLeases
  DEF Next, vars, ledger, WorkerStep, AsksLease, Takes, Delivers, RunsHook, Retries, TimesOut,
      CommitFails, Crash, ParentEnds

(* The mutations of the publisher, however late they are run, do with its  *)
(* rows only what OutboxLease allows.                                      *)
THEOREM ImplementsLease == Spec => ImplementsOutboxLease
<1>1. Init => Lease!Init
  BY DEF Init, Lease!Init
<1>2. IInv /\ [Next]_vars => [Lease!Next]_Lease!leaseVars
  BY StepLeases
<1> QED
  BY <1>1, <1>2, Invariant, PTL DEF Spec, ImplementsOutboxLease, Lease!Spec

-----------------------------------------------------------------------------
(* How often an event is handed out in its life                            *)

(* History: the claims of each event, and the times its attempts started   *)
(* anew.                                                                   *)
VARIABLES claims, revivals

Counted == INSTANCE OutboxLeaseProofs WITH
  Actions    <- Events, Restartable <- {},
  restarts   <- [e \in Events |-> 0],
  status     <- [e \in Events |-> row[e].status],
  attempts   <- [e \in Events |-> row[e].attempts],
  recoveries <- [e \in Events |-> row[e].recoveries]

CountedSpec ==
  /\ Spec /\ Counted!CountsFromZero
  /\ [][Counted!Counts]_Counted!counted

(* An event is handed out for delivery at most once for each attempt and   *)
(* each recovery.                                                          *)
HandedOutBounded ==
  \A e \in Events : claims[e] <= MaxAttempts + MaxRecoveries

(* No event's attempts ever start anew.                                    *)
NeverRevived ==
  /\ claims \in [Events -> Nat]
  /\ revivals = [e \in Events |-> 0]

(* The publisher takes no attempt back.                                    *)
LEMMA AttemptsGrow ==
  ASSUME IInv, [Next]_vars, NEW e \in Events
  PROVE  row'[e].attempts >= row[e].attempts
<1>1. /\ row \in [Events -> Rows] /\ row[e] \in Rows /\ row[e].attempts \in Nat
  BY DEF IInv, TypeOK, Rows
<1>2. CASE UNCHANGED row
  BY <1>1, <1>2
<1>3. CASE Tick
  <2>1. row'[e].attempts = row[e].attempts
    BY <1>1, <1>3 DEF Tick, Rows
  <2> QED
    BY <1>1, <2>1
<1>4. ASSUME NEW f \in Events, Publishes(f) PROVE row'[e].attempts = row[e].attempts
  <2>1. row'[e].attempts = row[e].attempts
    BY <1>1, <1>4 DEF Publishes, Rows
  <2> QED
    BY <1>1, <2>1
<1>5. CASE Commits
  <2> DEFINE m == Head(queue)
  <2>1. m \in Mutations /\ m.age \in Nat
    BY <1>5, HeadFacts DEF Commits, Mutations
  <2>2. CASE m.op = "lease"
    <3>1. Leased(m.age)[e] \in {row[e], Settled(row[e], "failed"), Claimed(row[e], m.age)}
      BY DEF Leased
    <3>2. /\ Settled(row[e], "failed").attempts = row[e].attempts
          /\ Claimed(row[e], m.age).attempts \in {row[e].attempts, row[e].attempts + 1}
      BY <1>1 DEF Settled, Claimed, Rows
    <3> QED
      BY <1>1, <1>5, <2>2, <3>1, <3>2 DEF Commits, CommitsLease
  <2>3. CASE m.op \in {"absorb", "ack", "requeue", "bury"}
    <3>1. \/ UNCHANGED row
          \/ row' = [row EXCEPT ![m.event] = Settled(row[m.event], "succeeded")]
          \/ row' = [row EXCEPT ![m.event] = Requeued(row[m.event], m.age)]
          \/ row' = [row EXCEPT ![m.event] = Settled(row[m.event], "failed")]
      BY <1>5, <2>3 DEF Commits, CommitsAbsorb, CommitsAck, CommitsRequeue, CommitsBury
    <3>2. /\ Settled(row[e], "succeeded").attempts = row[e].attempts
          /\ Settled(row[e], "failed").attempts = row[e].attempts
          /\ Requeued(row[e], m.age).attempts = row[e].attempts
      BY <1>1, <2>1, RowFacts
    <3> QED
      BY <1>1, <3>1, <3>2
  <2> QED
    BY <2>1, <2>2, <2>3 DEF Mutations, Ops
<1> QED
  BY <1>1, <1>2, <1>3, <1>4, <1>5
  DEF Next, vars, ledger, WorkerStep, AsksLease, Takes, Delivers, RunsHook, Retries, TimesOut,
      CommitFails, Crash, ParentEnds

(* With timeouts, late mutations, crashes and refused commits in any order *)
(* an event is claimed no more often than its two budgets allow together.  *)
THEOREM DeliveriesBounded == CountedSpec => []HandedOutBounded
<1>1. MaxAttempts \in Nat /\ MaxRecoveries \in Nat
  BY PublishAssumption
<1>2. Counted!CountedSpec => []Counted!ClaimsBounded
  BY <1>1, Counted!ClaimsAreBounded
<1>3. Init /\ Counted!CountsFromZero => NeverRevived
  BY DEF Counted!CountsFromZero, NeverRevived
<1>4. /\ IInv /\ NeverRevived /\ [Next]_vars
      /\ [Counted!Counts]_Counted!counted
      => NeverRevived'
  <2> SUFFICES ASSUME IInv, NeverRevived, [Next]_vars,
                      [Counted!Counts]_Counted!counted
               PROVE  NeverRevived'
    OBVIOUS
  <2>1. CASE UNCHANGED <<claims, revivals>>
    BY <2>1 DEF NeverRevived
  <2>2. CASE Counted!Counts
    <3>1. claims' \in [Events -> Nat]
      BY <2>2 DEF Counted!Counts, NeverRevived
    <3>2. ASSUME NEW e \in Events PROVE ~Counted!Revived(e)
      <4>1. row'[e].attempts >= row[e].attempts
        BY AttemptsGrow
      <4>2. row \in [Events -> Rows] /\ row' \in [Events -> Rows]
        BY Preserved DEF IInv, TypeOK
      <4>3. row'[e].attempts \in Int /\ row[e].attempts \in Int
        BY <4>2 DEF Rows
      <4>4. Counted!Revived(e) <=> row'[e].attempts < row[e].attempts
        BY DEF Counted!Revived, Counted!Restarted
      <4> QED
        BY <4>1, <4>3, <4>4
    <3>3. revivals' = [e \in Events |-> 0]
      BY <2>2, <3>2 DEF Counted!Counts, NeverRevived
    <3> QED
      BY <3>1, <3>3 DEF NeverRevived
  <2> QED
    BY <2>1, <2>2 DEF Counted!counted
<1>5. NeverRevived /\ Counted!ClaimsBounded => HandedOutBounded
  <2>1. MaxAttempts * (0 + 1) = MaxAttempts /\ (MaxAttempts + MaxRecoveries) * 0 = 0
    BY <1>1
  <2> SUFFICES ASSUME NeverRevived, Counted!ClaimsBounded, NEW e \in Events
               PROVE  claims[e] <= MaxAttempts + MaxRecoveries
    BY DEF HandedOutBounded
  <2>2. claims[e] <= MaxAttempts * (0 + 1) + MaxRecoveries
                       + (MaxAttempts + MaxRecoveries) * 0
    BY DEF NeverRevived, Counted!ClaimsBounded
  <2>3. claims[e] \in Nat
    BY DEF NeverRevived
  <2> QED
    BY <1>1, <2>1, <2>2, <2>3
<1>6. Lease!Init => Counted!Init
  BY DEF Lease!Init, Counted!Init
<1>7. [Lease!Next]_Lease!leaseVars => [Counted!Next]_Counted!leaseVars
  BY DEF Lease!Next, Counted!Next, Lease!leaseVars, Counted!leaseVars, Lease!Claims,
     Counted!Claims, Lease!Settles, Counted!Settles, Lease!Cancels, Counted!Cancels,
     Lease!Arms, Counted!Arms, Lease!Revives, Counted!Revives, Lease!Becomes,
     Counted!Becomes, Lease!KeepsCounts, Counted!KeepsCounts, Lease!Live, Counted!Live,
     Lease!InBudget, Counted!InBudget, Lease!Restarts, Counted!Restarts
<1> QED
  BY <1>2, <1>3, <1>4, <1>5, <1>6, <1>7, ImplementsLease, Invariant, PTL
  DEF Spec, ImplementsOutboxLease, Lease!Spec, Counted!Spec, Counted!CountedSpec,
      CountedSpec
=============================================================================
