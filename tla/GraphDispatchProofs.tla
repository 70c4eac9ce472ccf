------------------------ MODULE GraphDispatchProofs ------------------------
(***************************************************************************)
(* Theorems about the leases of the outbox.  The invariant that carries    *)
(* them ties the row in the database to the worker that claimed it last:   *)
(* whatever the other workers do, the owner in a leased row is the owner   *)
(* of that worker.                                                         *)
(***************************************************************************)
EXTENDS GraphDispatch, TLAPS

(* The row names the owner of the last worker to claim it.                 *)
OwnerOfHolder ==
  \A a \in Actions : row[a].status = "leased" =>
    holder[a] \in Workers /\ Owner[holder[a]] = row[a].owner

IInv == TypeOK /\ OwnerOfHolder /\ BudgetsHold

Steps == {"claimed", "renew", "invoke", "upstream", "commit", "successor",
          "block", "requeue", "defer"}

(* The part of TypeOK about the workers' local state.                      *)
WorkersOK ==
  /\ pc \in [Workers -> {"idle"} \cup Steps]
  /\ task \in [Workers -> Actions \cup {"none"}]
  /\ \A w \in Workers : (task[w] = "none") <=> (pc[w] = "idle")
  /\ seen \in [Workers -> Nat] /\ lost \subseteq Workers

-----------------------------------------------------------------------------
(* The bounds are numbers, and a lease outlasts a statement's lag.         *)
LEMMA Bounds ==
  /\ LeaseTime \in Nat /\ RetryTime \in Nat /\ MaxAttempts \in Nat
  /\ MaxRecoveries \in Nat /\ MaxTransient \in Nat /\ MaxReconciles \in Nat
  /\ MaxLag \in Nat /\ MaxLag < LeaseTime
  /\ RetryTime > 0 /\ MaxAttempts > 0 /\ MaxRecoveries > 0
BY DispatchAssumption DEF DispatchAssumption

(* What each statement of repository.py makes of a row is a row.           *)
LEMMA RowFacts ==
  ASSUME NEW r \in Rows
  PROVE  /\ \A s \in Statuses : Settled(r, s) \in Rows
         /\ \A w \in Workers, lag \in Lags : Claimed(r, w, lag) \in Rows
         /\ \A lag \in Lags : Renewed(r, lag) \in Rows
         /\ \A wait \in -MaxLag..RetryTime : Requeued(r, wait) \in Rows
         /\ [r EXCEPT !.lease = Down(@), !.wait = Down(@)] \in Rows
<1> USE Bounds
<1>1. \A s \in Statuses : Settled(r, s) \in Rows
  <2>1. -MaxLag \in -MaxLag..LeaseTime
    OBVIOUS
  <2> QED BY <2>1 DEF Rows, Settled
<1>2. \A w \in Workers, lag \in Lags : Claimed(r, w, lag) \in Rows
  <2>1. SUFFICES ASSUME NEW w \in Workers, NEW lag \in Lags
                 PROVE  Claimed(r, w, lag) \in Rows
    OBVIOUS
  <2>2. LeaseTime - lag \in -MaxLag..LeaseTime
    BY DEF Lags
  <2>3. r.attempts \in Nat /\ r.recoveries \in Nat
    BY DEF Rows
  <2>4. r.attempts + 1 \in Nat /\ r.recoveries + 1 \in Nat
    BY <2>3
  <2> QED BY <2>2, <2>3, <2>4 DEF Rows, Claimed, Statuses
<1>3. \A lag \in Lags : Renewed(r, lag) \in Rows
  <2>1. \A lag \in Lags : LeaseTime - lag \in -MaxLag..LeaseTime
    BY DEF Lags
  <2> QED BY <2>1 DEF Rows, Renewed
<1>4. \A wait \in -MaxLag..RetryTime : Requeued(r, wait) \in Rows
  <2>1. Settled(r, "pending") \in Rows
    BY <1>1 DEF Statuses
  <2> QED BY <2>1 DEF Rows, Requeued
<1>5. [r EXCEPT !.lease = Down(@), !.wait = Down(@)] \in Rows
  <2>1. /\ r.lease \in -MaxLag..LeaseTime
        /\ r.wait \in -MaxLag..RetryTime
    BY DEF Rows
  <2>2. /\ Down(r.lease) \in -MaxLag..LeaseTime
        /\ Down(r.wait) \in -MaxLag..RetryTime
    BY <2>1 DEF Down
  <2> QED BY <2>2 DEF Rows
<1> QED BY <1>1, <1>2, <1>3, <1>4, <1>5

(* The lease scan changes a row only to fail it, and leaves nothing        *)
(* claimable that is over a gate.                                          *)
LEMMA SweptFacts ==
  ASSUME row \in [Actions -> Rows], NEW lag \in Lags
  PROVE  /\ Swept(lag) \in [Actions -> Rows]
         /\ \A a \in Actions :
              \/ Swept(lag)[a] = row[a]
              \/ /\ Swept(lag)[a] = Settled(row[a], "failed")
                 /\ Claimable(row[a], lag)
         /\ \A a \in Actions : Claimable(Swept(lag)[a], lag) =>
              /\ Swept(lag)[a] = row[a]
              /\ Claimable(row[a], lag) /\ ~OverGate(row[a])
<1>1. \A a \in Actions :
        Swept(lag)[a] = IF Claimable(row[a], lag) /\ OverGate(row[a])
                          THEN Settled(row[a], "failed") ELSE row[a]
  BY DEF Swept
<1>2. \A a \in Actions : row[a] \in Rows /\ Settled(row[a], "failed") \in Rows
  BY RowFacts DEF Statuses
<1>3. \A a \in Actions : ~Claimable(Settled(row[a], "failed"), lag)
  BY <1>2 DEF Claimable, Settled, Rows
<1>4. Swept(lag) \in [Actions -> Rows]
  BY <1>2 DEF Swept
<1> QED BY <1>1, <1>3, <1>4

(* Moving a busy worker on, and letting it rest, keep its state well typed.*)
LEMMA WorkerMoves ==
  ASSUME WorkersOK, NEW w \in Workers, task[w] # "none",
         \/ \E to \in Steps : Goes(w, to)
         \/ Rests(w)
  PROVE  WorkersOK'
<1>1. CASE \E to \in Steps : Goes(w, to)
  BY <1>1 DEF WorkersOK, Goes, Steps
<1>2. CASE Rests(w)
  BY <1>2, DispatchAssumption DEF WorkersOK, Rests, Steps, DispatchAssumption
<1> QED BY <1>1, <1>2

-----------------------------------------------------------------------------
(* The program starts with the invariant.                                  *)
LEMMA Initially == Init => IInv
<1> SUFFICES ASSUME Init PROVE IInv
  OBVIOUS
<1> USE Bounds
<1>1. row \in [Actions -> Rows]
  <2>1. -MaxLag \in -MaxLag..LeaseTime /\ 0 \in -MaxLag..RetryTime
    OBVIOUS
  <2> QED BY <2>1 DEF Init, Rows, Statuses
<1>2. WorkersOK
  BY DEF Init, WorkersOK, Steps
<1>3. TypeOK
  <2>1. fence \in BOOLEAN /\ late \subseteq Actions
    BY DEF Init
  <2>2. reconciles \in 0..MaxReconciles /\ sweep \in {"starting", "failed"}
    BY DEF Init
  <2>3. holder \in [Actions -> Workers \cup {"nobody"}]
    BY DEF Init
  <2>4. /\ kind \in [Nodes -> Kinds] /\ run \in [Nodes -> RunStatuses]
        /\ starting \subseteq Nodes /\ upstream \subseteq Nodes
    BY DEF Init, RunStatuses
  <2> QED BY <1>1, <1>2, <2>1, <2>2, <2>3, <2>4 DEF TypeOK, WorkersOK, Steps
<1>4. OwnerOfHolder
  BY DEF Init, OwnerOfHolder
<1>5. BudgetsHold
  BY DEF Init, BudgetsHold
<1> QED BY <1>3, <1>4, <1>5 DEF IInv

(* The invariant is kept by a step that keeps the types and changes one    *)
(* row at most, and that to a renewed one or one that is not leased.       *)
LEMMA RowKept ==
  ASSUME IInv, TypeOK', NEW a \in Actions, NEW r \in Rows,
         row' = [row EXCEPT ![a] = r],
         r.attempts <= MaxAttempts, r.recoveries <= MaxRecoveries,
         \/ r.status # "leased"
         \/ /\ r.status = row[a].status /\ r.owner = row[a].owner
            /\ holder'[a] = holder[a],
         \A b \in Actions : b # a => holder'[b] = holder[b]
  PROVE  IInv'
<1>1. row \in [Actions -> Rows]
  BY DEF IInv, TypeOK
<1>2. \A b \in Actions : row'[b] = IF b = a THEN r ELSE row[b]
  BY <1>1
<1>3. OwnerOfHolder'
  BY <1>2 DEF IInv, OwnerOfHolder
<1>4. BudgetsHold'
  BY <1>2 DEF IInv, BudgetsHold
<1> QED BY <1>3, <1>4 DEF IInv

(* So does a step of the maintenance thread or of a command, which may     *)
(* change several rows, none of them to a leased one.                      *)
LEMMA RowsRearmed ==
  ASSUME IInv, TypeOK',
         \A b \in Actions :
           \/ row'[b] = row[b] /\ holder'[b] = holder[b]
           \/ /\ row'[b].status # "leased"
              /\ row'[b].attempts <= MaxAttempts
              /\ row'[b].recoveries <= MaxRecoveries
  PROVE  IInv'
<1>1. OwnerOfHolder'
  BY DEF IInv, OwnerOfHolder
<1>2. BudgetsHold'
  BY DEF IInv, BudgetsHold
<1> QED BY <1>1, <1>2 DEF IInv

(* A step that keeps the rows and the holders keeps the invariant.         *)
LEMMA RowsUntouched ==
  ASSUME IInv, TypeOK', UNCHANGED <<row, holder>>
  PROVE  IInv'
BY DEF IInv, OwnerOfHolder, BudgetsHold

(* Claiming: the new owner is that of the new holder, and the gate, passed *)
(* in the same transaction, leaves room for one more attempt or recovery.  *)
LEMMA ClaimKeeps ==
  ASSUME IInv, NEW w \in Workers, Claim(w)
  PROVE  IInv'
<1> USE Bounds
<1>1. row \in [Actions -> Rows] /\ holder \in [Actions -> Workers \cup {"nobody"}]
  BY DEF IInv, TypeOK
<1>2. PICK lag \in Lags :
        LET ready == {a \in Actions : Claimable(Swept(lag)[a], lag)}
        IN  \/ /\ ready = {}
               /\ row' = Swept(lag)
               /\ UNCHANGED <<workerVars, holder>>
            \/ \E a \in ready :
                 /\ row' = [Swept(lag) EXCEPT ![a] = Claimed(@, w, lag)]
                 /\ holder' = [holder EXCEPT ![a] = w]
                 /\ \/ /\ pc' = [pc EXCEPT ![w] = "claimed"]
                       /\ task' = [task EXCEPT ![w] = a]
                       /\ seen' = [seen EXCEPT ![w] = row'[a].attempts]
                       /\ UNCHANGED lost
                    \/ UNCHANGED workerVars
  BY DEF Claim
<1>3. UNCHANGED <<runVars, aroundVars, reconciles>>
  BY DEF Claim
<1>4. /\ Swept(lag) \in [Actions -> Rows]
      /\ \A a \in Actions :
           Swept(lag)[a] = row[a] \/ Swept(lag)[a] = Settled(row[a], "failed")
      /\ \A a \in Actions : Claimable(Swept(lag)[a], lag) =>
           Swept(lag)[a] = row[a] /\ Claimable(row[a], lag) /\ ~OverGate(row[a])
  BY <1>1, SweptFacts
<1>5. \A a \in Actions :
        /\ Settled(row[a], "failed").status = "failed"
        /\ Settled(row[a], "failed").attempts = row[a].attempts
        /\ Settled(row[a], "failed").recoveries = row[a].recoveries
  BY <1>1 DEF Settled, Rows
<1>6. CASE row' = Swept(lag) /\ UNCHANGED <<workerVars, holder>>
  <2>1. TypeOK'
    BY <1>3, <1>4, <1>6 DEF IInv, TypeOK, workerVars, runVars, aroundVars
  <2>2. OwnerOfHolder'
    BY <1>4, <1>5, <1>6 DEF IInv, OwnerOfHolder
  <2>3. BudgetsHold'
    BY <1>4, <1>5, <1>6 DEF IInv, BudgetsHold
  <2> QED BY <2>1, <2>2, <2>3 DEF IInv
<1>7. ASSUME NEW a \in Actions, Claimable(Swept(lag)[a], lag),
             row' = [Swept(lag) EXCEPT ![a] = Claimed(@, w, lag)],
             holder' = [holder EXCEPT ![a] = w],
             \/ /\ pc' = [pc EXCEPT ![w] = "claimed"]
                /\ task' = [task EXCEPT ![w] = a]
                /\ seen' = [seen EXCEPT ![w] = row'[a].attempts]
                /\ UNCHANGED lost
             \/ UNCHANGED workerVars
      PROVE  IInv'
  <2>1. Swept(lag)[a] = row[a] /\ Claimable(row[a], lag) /\ ~OverGate(row[a])
    BY <1>4, <1>7
  <2>2. \A b \in Actions : row'[b] = IF b = a THEN Claimed(row[a], w, lag)
                                            ELSE Swept(lag)[b]
    BY <1>4, <1>7, <2>1
  <2>3. row[a] \in Rows /\ Claimed(row[a], w, lag) \in Rows
    BY <1>1, RowFacts
  <2>4. row' \in [Actions -> Rows]
    BY <1>4, <1>7, <2>1, <2>3
  <2>5. row'[a].attempts \in Nat
    BY <2>4 DEF Rows
  <2>6. WorkersOK'
    <3>1. WorkersOK
      BY DEF IInv, TypeOK, WorkersOK, Steps
    <3>2. CASE UNCHANGED workerVars
      BY <3>1, <3>2 DEF WorkersOK, workerVars
    <3>3. CASE /\ pc' = [pc EXCEPT ![w] = "claimed"]
               /\ task' = [task EXCEPT ![w] = a]
               /\ seen' = [seen EXCEPT ![w] = row'[a].attempts]
               /\ UNCHANGED lost
      <4>1. a # "none"
        BY DispatchAssumption DEF DispatchAssumption
      <4> QED BY <3>1, <3>3, <2>5, <4>1 DEF WorkersOK, Steps
    <3> QED BY <1>7, <3>2, <3>3
  <2>7. TypeOK'
    <3>1. holder' \in [Actions -> Workers \cup {"nobody"}]
      BY <1>1, <1>7
    <3> QED BY <1>3, <2>4, <2>6, <3>1
            DEF IInv, TypeOK, WorkersOK, Steps, runVars, aroundVars
  <2>8. /\ Claimed(row[a], w, lag).owner = Owner[w]
        /\ \/ /\ Claimed(row[a], w, lag).attempts = row[a].attempts + 1
              /\ Claimed(row[a], w, lag).recoveries = row[a].recoveries
           \/ /\ Claimed(row[a], w, lag).attempts = row[a].attempts
              /\ Claimed(row[a], w, lag).recoveries = row[a].recoveries + 1
    BY <2>1, <2>3 DEF Claimed, Claimable, Rows
  <2>9. OwnerOfHolder'
    <3> SUFFICES ASSUME NEW b \in Actions, row'[b].status = "leased"
                 PROVE  holder'[b] \in Workers /\ Owner[holder'[b]] = row'[b].owner
      BY DEF OwnerOfHolder
    <3>1. CASE b = a
      BY <1>1, <1>7, <2>2, <2>8, <3>1
    <3>2. CASE b # a
      <4>1. row'[b] = row[b]
        BY <1>4, <1>5, <2>2, <3>2
      <4>2. holder'[b] = holder[b]
        BY <1>1, <1>7, <3>2
      <4> QED BY <4>1, <4>2 DEF IInv, OwnerOfHolder
    <3> QED BY <3>1, <3>2
  <2>10. BudgetsHold'
    <3>1. row[a].attempts < MaxAttempts /\ row[a].recoveries < MaxRecoveries
      BY <2>1, <2>3 DEF OverGate, Rows
    <3>2. /\ Claimed(row[a], w, lag).attempts <= MaxAttempts
          /\ Claimed(row[a], w, lag).recoveries <= MaxRecoveries
      BY <2>3, <2>8, <3>1 DEF Rows
    <3>3. \A b \in Actions : /\ Swept(lag)[b].attempts <= MaxAttempts
                              /\ Swept(lag)[b].recoveries <= MaxRecoveries
      BY <1>4, <1>5 DEF IInv, BudgetsHold
    <3> QED BY <2>2, <3>2, <3>3 DEF BudgetsHold
  <2> QED BY <2>7, <2>9, <2>10 DEF IInv
<1> QED BY <1>2, <1>6, <1>7

-----------------------------------------------------------------------------
(* A busy worker has an action.                                            *)
LEMMA BusyHasTask ==
  ASSUME IInv, NEW w \in Workers, pc[w] \in Steps
  PROVE  /\ WorkersOK /\ task[w] \in Actions /\ task[w] # "none"
         /\ row \in [Actions -> Rows] /\ row[task[w]] \in Rows
         /\ row[task[w]].attempts <= MaxAttempts
         /\ row[task[w]].recoveries <= MaxRecoveries
<1>1. WorkersOK /\ row \in [Actions -> Rows]
  BY DEF IInv, TypeOK, WorkersOK, Steps
<1>2. task[w] \in Actions /\ task[w] # "none"
  BY <1>1 DEF WorkersOK, Steps
<1> QED BY <1>1, <1>2 DEF IInv, BudgetsHold

(* Which fields the statements set.                                        *)
LEMMA Fields ==
  ASSUME NEW r \in Rows
  PROVE  /\ \A s \in Statuses :
              /\ Settled(r, s).status = s
              /\ Settled(r, s).attempts = r.attempts
              /\ Settled(r, s).recoveries = r.recoveries
         /\ \A lag \in Lags :
              /\ Renewed(r, lag).status = r.status
              /\ Renewed(r, lag).owner = r.owner
              /\ Renewed(r, lag).attempts = r.attempts
              /\ Renewed(r, lag).recoveries = r.recoveries
         /\ \A wait \in -MaxLag..RetryTime :
              /\ Requeued(r, wait).status = "pending"
              /\ Requeued(r, wait).attempts = r.attempts
              /\ Requeued(r, wait).recoveries = r.recoveries
BY DEF Rows, Settled, Renewed, Requeued

(* A renewal by a worker that goes on.                                     *)
LEMMA RenewalKeeps ==
  ASSUME IInv, NEW w \in Workers, pc[w] \in Steps, NEW lag \in Lags,
         row' = [row EXCEPT ![task[w]] = Renewed(@, lag)],
         WorkersOK', upstream' \subseteq Nodes,
         UNCHANGED <<kind, starting, run, aroundVars, holder, reconciles>>
  PROVE  IInv'
<1>1. /\ task[w] \in Actions /\ row \in [Actions -> Rows]
      /\ row[task[w]] \in Rows
      /\ row[task[w]].attempts <= MaxAttempts
      /\ row[task[w]].recoveries <= MaxRecoveries
  BY BusyHasTask
<1> DEFINE r == Renewed(row[task[w]], lag)
<1>2. /\ r \in Rows /\ r.status = row[task[w]].status
      /\ r.owner = row[task[w]].owner
      /\ r.attempts = row[task[w]].attempts
      /\ r.recoveries = row[task[w]].recoveries
  BY <1>1, RowFacts, Fields
<1>3. row' = [row EXCEPT ![task[w]] = r]
  OBVIOUS
<1> HIDE DEF r
<1>4. row' \in [Actions -> Rows]
  BY <1>1, <1>2, <1>3
<1>5. TypeOK'
  BY <1>4 DEF IInv, TypeOK, WorkersOK, Steps, aroundVars
<1> QED BY <1>1, <1>2, <1>3, <1>5, RowKept

(* A transaction that ends the lease.                                      *)
LEMMA SettlesKeeps ==
  ASSUME IInv, NEW w \in Workers, NEW from \in Steps, NEW r \in Rows,
         Settles(w, from, r),
         r.status # "leased", r.attempts = row[task[w]].attempts,
         r.recoveries = row[task[w]].recoveries,
         starting' \subseteq Nodes, upstream' \subseteq Nodes,
         run' \in [Nodes -> RunStatuses]
  PROVE  IInv'
<1>1. pc[w] \in Steps
  BY DEF Settles
<1>2. /\ WorkersOK /\ task[w] \in Actions /\ task[w] # "none"
      /\ row \in [Actions -> Rows]
      /\ row[task[w]].attempts <= MaxAttempts
      /\ row[task[w]].recoveries <= MaxRecoveries
  BY <1>1, BusyHasTask
<1>3. WorkersOK'
  <2>1. AfterError(w) \in Steps
    BY DEF AfterError, Steps
  <2> QED BY <1>2, <2>1, WorkerMoves DEF Settles
<1>4. /\ row' = [row EXCEPT ![task[w]] = r]
      /\ holder' = [holder EXCEPT ![task[w]] = "nobody"]
      /\ UNCHANGED <<kind, sweep, fence, late, reconciles>>
  BY DEF Settles, aroundVars
<1>5. holder \in [Actions -> Workers \cup {"nobody"}]
  BY DEF IInv, TypeOK
<1>6. TypeOK'
  <2>1. row' \in [Actions -> Rows]
    BY <1>2, <1>4
  <2>2. holder' \in [Actions -> Workers \cup {"nobody"}]
    BY <1>4, <1>5
  <2> QED BY <1>3, <1>4, <2>1, <2>2 DEF IInv, TypeOK, WorkersOK, Steps
<1>7. \A b \in Actions : b # task[w] => holder'[b] = holder[b]
  BY <1>4, <1>5
<1> QED BY <1>2, <1>4, <1>6, <1>7, RowKept

(* Steps of a worker that leave the rows alone.                            *)
LEMMA QuietKeeps ==
  ASSUME IInv, NEW w \in Workers, pc[w] \in Steps, WorkersOK',
         UNCHANGED <<row, runVars, aroundVars, holder, reconciles>>
  PROVE  IInv'
<1>1. TypeOK'
  BY DEF IInv, TypeOK, WorkersOK, Steps, runVars, aroundVars
<1> QED BY <1>1, RowsUntouched

(* A worker keeps the invariant, whatever it does.                         *)
LEMMA WorksKeeps ==
  ASSUME IInv, NEW w \in Workers, Works(w) \/ Heartbeat(w) \/ LosesLease(w)
  PROVE  IInv'
<1> USE Bounds
<1>1. pc[w] \in Steps
  BY DEF Works, Handle, RenewsFirst, InvokeReturns, CommitUpstream, Commit, Block,
         Requeue, Defer, Misses, Settles, Heartbeat, LosesLease, Steps
<1>2. /\ WorkersOK /\ task[w] \in Actions /\ task[w] # "none"
      /\ row \in [Actions -> Rows] /\ row[task[w]] \in Rows
  BY <1>1, BusyHasTask
<1>3. AfterError(w) \in Steps
  BY DEF AfterError, Steps
<1>4. /\ starting \subseteq Nodes /\ upstream \subseteq Nodes
      /\ run \in [Nodes -> RunStatuses] /\ Node[task[w]] \in Nodes
  BY <1>2, DispatchAssumption DEF IInv, TypeOK, DispatchAssumption
<1>5. ASSUME Handle(w) PROVE IInv'
  <2>1. WorkersOK'
    <3>1. (\E to \in Steps : Goes(w, to))
      BY <1>5 DEF Handle, Steps
    <3> QED BY <1>2, <3>1, WorkerMoves
  <2> QED BY <1>1, <1>5, <2>1, QuietKeeps DEF Handle
<1>6. ASSUME RenewsFirst(w) PROVE IInv'
  <2>1. WorkersOK'
    <3>1. Goes(w, "invoke") \/ Rests(w)
      BY <1>6 DEF RenewsFirst
    <3> QED BY <1>2, <3>1, WorkerMoves DEF Steps
  <2>2. CASE UNCHANGED row
    BY <1>1, <1>4, <1>6, <2>1, <2>2, QuietKeeps DEF RenewsFirst
  <2>3. CASE \E lag \in Lags : row' = [row EXCEPT ![task[w]] = Renewed(@, lag)]
    BY <1>1, <1>4, <1>6, <2>1, <2>3, RenewalKeeps DEF RenewsFirst, runVars
  <2> QED BY <1>6, <2>2, <2>3 DEF RenewsFirst
<1>7. ASSUME InvokeReturns(w) PROVE IInv'
  <2>1. Rests(w) \/ \E to \in Steps : Goes(w, to)
    BY <1>3, <1>7 DEF InvokeReturns, Steps
  <2>2. WorkersOK'
    BY <1>2, <2>1, WorkerMoves
  <2> QED BY <1>1, <1>4, <1>7, <2>2, QuietKeeps DEF InvokeReturns
<1>8. ASSUME CommitUpstream(w) PROVE IInv'
  <2>1. Rests(w) \/ Goes(w, "successor")
    BY <1>8 DEF CommitUpstream
  <2>2. WorkersOK'
    BY <1>2, <2>1, WorkerMoves DEF Steps
  <2>3. CASE UNCHANGED <<row, upstream>>
    BY <1>1, <1>4, <1>8, <2>2, <2>3, QuietKeeps
       DEF CommitUpstream, runVars
  <2>4. CASE /\ \E lag \in Lags : row' = [row EXCEPT ![task[w]] = Renewed(@, lag)]
             /\ upstream' = upstream \cup {Node[task[w]]}
    BY <1>1, <1>2, <1>4, <1>8, <2>2, <2>4, RenewalKeeps DEF CommitUpstream
  <2> QED BY <1>8, <2>3, <2>4 DEF CommitUpstream
<1>9. ASSUME Commit(w) PROVE IInv'
  <2>1. PICK from \in {"commit", "successor"} :
          Settles(w, from, Settled(row[task[w]], "succeeded"))
    BY <1>9 DEF Commit
  <2>2. /\ starting' \subseteq Nodes /\ upstream' \subseteq Nodes
        /\ UNCHANGED run
    BY <1>4, <1>9 DEF Commit
  <2> DEFINE r == Settled(row[task[w]], "succeeded")
  <2>3. /\ r \in Rows /\ r.status # "leased"
        /\ r.attempts = row[task[w]].attempts
        /\ r.recoveries = row[task[w]].recoveries
    BY <1>2, RowFacts, Fields DEF Statuses
  <2> HIDE DEF r
  <2>4. Settles(w, from, r) /\ from \in Steps
    BY <2>1 DEF r, Steps
  <2> QED BY <1>4, <2>2, <2>3, <2>4, SettlesKeeps
<1>10. ASSUME Block(w) PROVE IInv'
  <2> DEFINE r == Settled(row[task[w]], "failed")
  <2>1. /\ r \in Rows /\ r.status # "leased"
        /\ r.attempts = row[task[w]].attempts
        /\ r.recoveries = row[task[w]].recoveries
    BY <1>2, RowFacts, Fields DEF Statuses
  <2>2. Settles(w, "block", r) /\ UNCHANGED upstream
    BY <1>10 DEF Block
  <2>3. starting' \subseteq Nodes
    BY <1>4, <1>10 DEF Block
  <2>4. run' \in [Nodes -> RunStatuses]
    BY <1>4, <1>10 DEF Block, RunBlocked, RunStatuses
  <2> HIDE DEF r
  <2> QED BY <1>4, <2>1, <2>2, <2>3, <2>4, SettlesKeeps DEF Steps
<1>11. ASSUME Requeue(w) PROVE IInv'
  <2>1. PICK lag \in Lags :
          /\ Settles(w, "requeue", Requeued(row[task[w]], RetryTime - lag))
          /\ UNCHANGED <<starting, upstream, run>>
    BY <1>11 DEF Requeue
  <2>2. RetryTime - lag \in -MaxLag..RetryTime
    BY DEF Lags
  <2> DEFINE r == Requeued(row[task[w]], RetryTime - lag)
  <2>3. /\ r \in Rows /\ r.status # "leased"
        /\ r.attempts = row[task[w]].attempts
        /\ r.recoveries = row[task[w]].recoveries
    BY <1>2, <2>2, RowFacts, Fields
  <2>4. Settles(w, "requeue", r)
    BY <2>1
  <2> HIDE DEF r
  <2> QED BY <1>4, <2>1, <2>3, <2>4, SettlesKeeps DEF Steps
<1>12. ASSUME Defer(w) PROVE IInv'
  <2> DEFINE wait(lag) == (IF fence THEN RetryTime ELSE 0) - lag
  <2>1. PICK lag \in Lags :
          /\ Settles(w, "defer", Requeued(row[task[w]], wait(lag)))
          /\ UNCHANGED <<starting, upstream, run>>
    BY <1>12 DEF Defer
  <2>2. wait(lag) \in -MaxLag..RetryTime
    BY DEF Lags
  <2> DEFINE r == Requeued(row[task[w]], wait(lag))
  <2>3. /\ r \in Rows /\ r.status # "leased"
        /\ r.attempts = row[task[w]].attempts
        /\ r.recoveries = row[task[w]].recoveries
    BY <1>2, <2>2, RowFacts, Fields
  <2>4. Settles(w, "defer", r)
    BY <2>1
  <2> HIDE DEF r
  <2> QED BY <1>4, <2>1, <2>3, <2>4, SettlesKeeps DEF Steps
<1>13. ASSUME Misses(w) PROVE IInv'
  <2>1. Rests(w) \/ \E to \in Steps : Goes(w, to)
    BY <1>3, <1>13 DEF Misses
  <2>2. WorkersOK'
    BY <1>2, <2>1, WorkerMoves
  <2> QED BY <1>1, <1>4, <1>13, <2>2, QuietKeeps DEF Misses
<1>14. ASSUME Heartbeat(w) PROVE IInv'
  <2>1. WorkersOK'
    BY <1>2, <1>14 DEF Heartbeat, workerVars, WorkersOK
  <2> QED BY <1>1, <1>4, <1>14, <2>1, RenewalKeeps DEF Heartbeat, runVars
<1>15. ASSUME LosesLease(w) PROVE IInv'
  <2>1. WorkersOK'
    BY <1>2, <1>15 DEF LosesLease, WorkersOK
  <2> QED BY <1>1, <1>4, <1>15, <2>1, QuietKeeps DEF LosesLease
<1> QED BY <1>5, <1>6, <1>7, <1>8, <1>9, <1>10, <1>11, <1>12, <1>13, <1>14, <1>15
        DEF Works

-----------------------------------------------------------------------------
(* Around the workers: repair, reconciliation, cancellation, the fence, a  *)
(* crash and the clock.                                                    *)
LEMMA OthersKeep ==
  ASSUME IInv,
         \/ \E n \in Nodes : Reconciles(n) \/ CancelsRun(n) \/ Archives(n)
         \/ Maintains \/ FenceRises \/ FenceLifts \/ Crash \/ Tick
  PROVE  IInv'
<1> USE Bounds
<1>1. /\ row \in [Actions -> Rows] /\ run \in [Nodes -> RunStatuses]
      /\ holder \in [Actions -> Workers \cup {"nobody"}]
      /\ \A b \in Actions : /\ row[b].attempts <= MaxAttempts
                            /\ row[b].recoveries <= MaxRecoveries
  BY DEF IInv, TypeOK, BudgetsHold
<1>2. \A b \in Actions :
        /\ Requeued(row[b], 0) \in Rows
        /\ Requeued(row[b], 0).status = "pending"
        /\ Requeued(row[b], 0).attempts = row[b].attempts
        /\ Requeued(row[b], 0).recoveries = row[b].recoveries
  <2>1. 0 \in -MaxLag..RetryTime
    OBVIOUS
  <2> QED BY <1>1, <2>1, RowFacts, Fields
<1>3. ASSUME NEW n \in Nodes, Reconciles(n) PROVE IInv'
  <2> DEFINE again(b) == [Requeued(row[b], 0) EXCEPT !.attempts = 0]
             dead == {a \in Actions : Node[a] = n /\ row[a].status = "failed"}
  <2>1. \A b \in Actions : /\ again(b) \in Rows /\ again(b).status = "pending"
                            /\ again(b).attempts = 0
                            /\ again(b).recoveries = row[b].recoveries
    <3>1. ASSUME NEW q \in Rows
          PROVE  LET s == [q EXCEPT !.attempts = 0]
                 IN  /\ s \in Rows /\ s.status = q.status /\ s.attempts = 0
                     /\ s.recoveries = q.recoveries
      BY DEF Rows
    <3> QED BY <1>2, <3>1
  <2>2. row' = [a \in Actions |-> IF a \in dead THEN again(a) ELSE row[a]]
    BY <1>3 DEF Reconciles
  <2> HIDE DEF again, dead
  <2>3. row' \in [Actions -> Rows]
    BY <1>1, <2>1, <2>2
  <2>4. run' \in [Nodes -> RunStatuses]
    BY <1>1, <1>3 DEF Reconciles, RunStatuses
  <2>5. reconciles' \in 0..MaxReconciles
    BY <1>3 DEF Reconciles, IInv, TypeOK
  <2>6. TypeOK'
    BY <1>3, <2>3, <2>4, <2>5 DEF Reconciles, IInv, TypeOK, workerVars, aroundVars
  <2>7. ASSUME NEW b \in Actions
        PROVE  \/ row'[b] = row[b] /\ holder'[b] = holder[b]
               \/ /\ row'[b].status # "leased"
                  /\ row'[b].attempts <= MaxAttempts
                  /\ row'[b].recoveries <= MaxRecoveries
    <3>1. CASE b \in dead
      BY <1>1, <2>1, <2>2, <3>1
    <3>2. CASE b \notin dead
      BY <1>3, <2>2, <3>2 DEF Reconciles
    <3> QED BY <3>1, <3>2
  <2> QED BY <2>6, <2>7, RowsRearmed
<1>4. ASSUME NEW n \in Nodes, CancelsRun(n) PROVE IInv'
  <2>1. run' \in [Nodes -> RunStatuses]
    BY <1>1, <1>4 DEF CancelsRun, RunStatuses
  <2>2. TypeOK'
    BY <1>4, <2>1 DEF CancelsRun, IInv, TypeOK, workerVars, aroundVars
  <2> QED BY <1>4, <2>2, RowsUntouched DEF CancelsRun
<1>5. ASSUME NEW n \in Nodes, Archives(n) PROVE IInv'
  <2> DEFINE live == {a \in Actions : /\ Node[a] = n
                                      /\ row[a].status \in {"pending", "leased"}}
  <2>1. \A b \in Actions :
          /\ Settled(row[b], "cancelled") \in Rows
          /\ Settled(row[b], "cancelled").status = "cancelled"
          /\ Settled(row[b], "cancelled").attempts = row[b].attempts
          /\ Settled(row[b], "cancelled").recoveries = row[b].recoveries
    BY <1>1, RowFacts, Fields DEF Statuses
  <2>2. /\ row' = [a \in Actions |->
                    IF a \in live THEN Settled(row[a], "cancelled") ELSE row[a]]
        /\ holder' = [a \in Actions |-> IF a \in live THEN "nobody" ELSE holder[a]]
    BY <1>5 DEF Archives
  <2> HIDE DEF live
  <2>3. /\ row' \in [Actions -> Rows]
        /\ holder' \in [Actions -> Workers \cup {"nobody"}]
    BY <1>1, <2>1, <2>2
  <2>4. run' \in [Nodes -> RunStatuses]
    BY <1>1, <1>5 DEF Archives, RunStatuses
  <2>5. TypeOK'
    BY <1>5, <2>3, <2>4 DEF Archives, IInv, TypeOK, workerVars, aroundVars
  <2>6. ASSUME NEW b \in Actions
        PROVE  \/ row'[b] = row[b] /\ holder'[b] = holder[b]
               \/ /\ row'[b].status # "leased"
                  /\ row'[b].attempts <= MaxAttempts
                  /\ row'[b].recoveries <= MaxRecoveries
    BY <1>1, <2>1, <2>2
  <2> QED BY <2>5, <2>6, RowsRearmed
<1>6. ASSUME SweepsStarting PROVE IInv'
  <2> DEFINE dead == {Repair[n] : n \in {m \in starting : ~Live(m)}}
  <2>1. /\ row' = [a \in Actions |-> IF a \in dead THEN Requeued(row[a], 0) ELSE row[a]]
        /\ late' = IF fence THEN late \cup {a \in dead : row[a].status = "absent"}
                            ELSE late
        /\ sweep' = "failed"
        /\ UNCHANGED <<workerVars, runVars, fence, holder, reconciles>>
    BY <1>6 DEF SweepsStarting
  <2>2. dead \subseteq Actions
    BY DispatchAssumption DEF DispatchAssumption, IInv, TypeOK
  <2> HIDE DEF dead
  <2>3. row' \in [Actions -> Rows]
    BY <1>1, <1>2, <2>1
  <2>4. late' \subseteq Actions
    BY <2>1, <2>2 DEF IInv, TypeOK
  <2>5. TypeOK'
    BY <2>1, <2>3, <2>4 DEF IInv, TypeOK, workerVars, runVars
  <2>6. ASSUME NEW b \in Actions
        PROVE  \/ row'[b] = row[b] /\ holder'[b] = holder[b]
               \/ /\ row'[b].status # "leased"
                  /\ row'[b].attempts <= MaxAttempts
                  /\ row'[b].recoveries <= MaxRecoveries
    BY <1>1, <1>2, <2>1
  <2> QED BY <2>5, <2>6, RowsRearmed
<1>7. ASSUME SweepsFailed PROVE IInv'
  <2>1. run' \in [Nodes -> RunStatuses]
    BY <1>1, <1>7 DEF SweepsFailed, RunStatuses
  <2>2. TypeOK'
    BY <1>7, <2>1 DEF SweepsFailed, IInv, TypeOK, workerVars
  <2> QED BY <1>7, <2>2, RowsUntouched DEF SweepsFailed
<1>8. ASSUME FenceRises \/ FenceLifts PROVE IInv'
  <2>1. fence' \in BOOLEAN /\ late' \subseteq Actions
    BY <1>8 DEF FenceRises, FenceLifts, IInv, TypeOK
  <2>2. UNCHANGED <<row, workerVars, runVars, sweep, holder, reconciles>>
    BY <1>8 DEF FenceRises, FenceLifts
  <2>3. TypeOK'
    BY <2>1, <2>2 DEF IInv, TypeOK, workerVars, runVars
  <2> QED BY <2>2, <2>3, RowsUntouched
<1>9. ASSUME Crash PROVE IInv'
  <2>1. WorkersOK'
    BY <1>9 DEF Crash, WorkersOK
  <2>2. TypeOK'
    BY <1>9, <2>1
       DEF Crash, IInv, TypeOK, WorkersOK, Steps, runVars
  <2> QED BY <1>9, <2>2, RowsUntouched DEF Crash
<1>10. ASSUME Tick PROVE IInv'
  <2> DEFINE aged(a) == [row[a] EXCEPT !.lease = Down(@), !.wait = Down(@)]
  <2>1. \A a \in Actions : aged(a) \in Rows
    BY <1>1, RowFacts
  <2>2. row' = [a \in Actions |-> aged(a)]
    BY <1>10 DEF Tick
  <2>3. \A a \in Actions :
          /\ aged(a).status = row[a].status /\ aged(a).owner = row[a].owner
          /\ aged(a).attempts = row[a].attempts
          /\ aged(a).recoveries = row[a].recoveries
    BY <1>1 DEF Rows
  <2> HIDE DEF aged
  <2>4. TypeOK'
    <3>1. row' \in [Actions -> Rows]
      BY <2>1, <2>2
    <3> QED BY <1>10, <3>1
       DEF Tick, IInv, TypeOK, workerVars, runVars, aroundVars
  <2>5. OwnerOfHolder'
    <3>1. \A a \in Actions : row'[a] = aged(a)
      BY <2>2
    <3>2. holder' = holder
      BY <1>10 DEF Tick
    <3> QED BY <2>3, <3>1, <3>2 DEF IInv, OwnerOfHolder
  <2>6. BudgetsHold'
    BY <2>2, <2>3 DEF IInv, BudgetsHold
  <2> QED BY <2>4, <2>5, <2>6 DEF IInv
<1> QED BY <1>3, <1>4, <1>5, <1>6, <1>7, <1>8, <1>9, <1>10 DEF Maintains

(* IInv is inductive.                                                      *)
THEOREM Invariance == Spec => []IInv
<1>1. IInv /\ [Next]_vars => IInv'
  <2>1. ASSUME IInv, Next PROVE IInv'
    BY <2>1, ClaimKeeps, WorksKeeps, OthersKeep DEF Next
  <2>2. ASSUME IInv, UNCHANGED vars PROVE IInv'
    <3>1. TypeOK'
      BY <2>2 DEF vars, workerVars, runVars, aroundVars, IInv, TypeOK
    <3> QED BY <2>2, <3>1, RowsUntouched DEF vars
  <2> QED BY <2>1, <2>2
<1> QED BY <1>1, Initially, PTL DEF Spec

(* Every variable keeps its type.                                          *)
THEOREM TypeCorrect == Spec => []TypeOK
<1>1. IInv => TypeOK
  BY DEF IInv
<1> QED BY <1>1, Invariance, PTL

(* However many workers claim, crash and let leases expire, no action is   *)
(* claimed more often than its two budgets allow.                          *)
THEOREM BudgetsBounded == Spec => []BudgetsHold
<1>1. IInv => BudgetsHold
  BY DEF IInv
<1> QED BY <1>1, Invariance, PTL

-----------------------------------------------------------------------------
(* A claim changes only rows whose lease has run out.                      *)
LEMMA ClaimTakesExpired ==
  ASSUME IInv, NEW w \in Workers, Claim(w), NEW a \in Actions, Changes(a)
  PROVE  row[a].lease <= 0
<1> USE Bounds
<1>1. row \in [Actions -> Rows]
  BY DEF IInv, TypeOK
<1>2. PICK lag \in Lags :
        \/ row' = Swept(lag)
        \/ \E b \in Actions :
             /\ Claimable(Swept(lag)[b], lag)
             /\ row' = [Swept(lag) EXCEPT ![b] = Claimed(@, w, lag)]
  BY DEF Claim
<1>3. \A b \in Actions : row'[b] = Swept(lag)[b] \/ Claimable(row[b], lag)
  BY <1>1, <1>2, SweptFacts
<1>4. row'[a] = row[a] \/ Claimable(row[a], lag)
  BY <1>1, <1>3, SweptFacts
<1>5. row[a].lease \in Int
  BY <1>1 DEF Rows
<1>6. Claimable(row[a], lag)
  BY <1>4, <1>5 DEF Changes
<1> QED BY <1>5, <1>6 DEF Claimable, Lags

(* A worker whose owner check succeeds has the owner of the last worker to *)
(* claim the action.                                                       *)
LEMMA HoldsMeansOwner ==
  ASSUME IInv, NEW w \in Workers, pc[w] \in Steps, NEW lag \in Lags, Holds(w, lag)
  PROVE  /\ task[w] \in Actions /\ holder[task[w]] \in Workers
         /\ Owner[holder[task[w]]] = Owner[w]
BY BusyHasTask DEF Holds, IInv, OwnerOfHolder

(* A worker changes only the row of its own action, and only when its      *)
(* owner check succeeds.                                                   *)
LEMMA WorkerTakesOwn ==
  ASSUME IInv, NEW w \in Workers, Works(w) \/ Heartbeat(w) \/ LosesLease(w),
         NEW a \in Actions, Changes(a)
  PROVE  /\ task[w] = a /\ pc[w] \in Steps
         /\ \E lag \in Lags : Holds(w, lag)
         /\ Works(w) \/ Heartbeat(w)
<1>1. pc[w] \in Steps
  BY DEF Works, Handle, RenewsFirst, InvokeReturns, CommitUpstream, Commit, Block,
         Requeue, Defer, Misses, Settles, Heartbeat, LosesLease, Steps
<1>2. /\ row \in [Actions -> Rows] /\ row[a].lease \in Int
  BY DEF IInv, TypeOK, Rows
<1>3. row' # row
  BY <1>2 DEF Changes
<1>4. \E lag \in Lags : \E r : Holds(w, lag) /\ row' = [row EXCEPT ![task[w]] = r]
  <2>1. CASE RenewsFirst(w) \/ Heartbeat(w)
    BY <1>3, <2>1 DEF RenewsFirst, Heartbeat
  <2>2. CASE CommitUpstream(w)
    BY <1>3, <2>2 DEF CommitUpstream
  <2>3. CASE Commit(w) \/ Block(w) \/ Requeue(w) \/ Defer(w)
    BY <2>3 DEF Commit, Block, Requeue, Defer, Settles
  <2>4. CASE Handle(w) \/ InvokeReturns(w) \/ Misses(w) \/ LosesLease(w)
    BY <1>3, <2>4 DEF Handle, InvokeReturns, Misses, LosesLease
  <2> QED BY <2>1, <2>2, <2>3, <2>4 DEF Works
<1>5. task[w] = a
  BY <1>2, <1>4 DEF Changes
<1>6. ~LosesLease(w)
  BY <1>3 DEF LosesLease
<1> QED BY <1>1, <1>4, <1>5, <1>6

(* The leases fence other owners out: a live row is renewed, put back or   *)
(* settled only for the owner that claimed it last, and taken from it only *)
(* when its lease has run out, or cancelled with its run.                  *)
THEOREM OwnersFenced == Spec => OnlyOwnerChanges
<1> DEFINE Allowed(a) ==
      \/ Archives(Node[a])
      \/ row[a].lease <= 0 /\ \E w \in Workers : Claim(w)
      \/ \E w \in Workers :
           /\ task[w] = a /\ holder[a] # "nobody"
           /\ Owner[holder[a]] = Owner[w]
           /\ Works(w) \/ Heartbeat(w)
<1>1. ASSUME IInv, Next, NEW a \in Actions,
             row[a].status \in {"pending", "leased"}, Changes(a)
      PROVE  Allowed(a)
  <2>1. row \in [Actions -> Rows] /\ row[a].lease \in Int
    BY <1>1 DEF IInv, TypeOK, Rows
  <2>2. CASE \E w \in Workers : Claim(w)
    BY <1>1, <2>2, ClaimTakesExpired
  <2>3. ASSUME NEW w \in Workers, Works(w) \/ Heartbeat(w) \/ LosesLease(w)
        PROVE  Allowed(a)
    <3>1. /\ task[w] = a /\ pc[w] \in Steps
          /\ \E lag \in Lags : Holds(w, lag)
          /\ Works(w) \/ Heartbeat(w)
      BY <1>1, <2>3, WorkerTakesOwn
    <3>2. holder[a] \in Workers /\ Owner[holder[a]] = Owner[w]
      BY <1>1, <3>1, HoldsMeansOwner
    <3>3. "nobody" \notin Workers
      BY DispatchAssumption DEF DispatchAssumption
    <3> QED BY <3>1, <3>2, <3>3
  <2>4. row'[a] # row[a]
    BY <1>1, <2>1 DEF Changes
  <2>5. ASSUME NEW n \in Nodes, Archives(n) PROVE Allowed(a)
    <3>1. Node[a] = n
      BY <2>4, <2>5 DEF Archives
    <3> QED BY <2>5, <3>1
  <2>6. ~\E n \in Nodes : Reconciles(n)
    BY <1>1, <2>4 DEF Reconciles
  <2>7. ~SweepsStarting
    <3>1. SUFFICES ASSUME SweepsStarting PROVE FALSE
      OBVIOUS
    <3>2. PICK n \in starting : ~Live(n) /\ a = Repair[n]
      BY <2>4, <3>1 DEF SweepsStarting
    <3>3. Node[a] = n
      BY <1>1, <3>2, DispatchAssumption DEF DispatchAssumption, IInv, TypeOK
    <3> QED BY <1>1, <3>2, <3>3 DEF Live
  <2>8. ~(SweepsFailed \/ FenceRises \/ FenceLifts \/ Crash)
        /\ ~\E n \in Nodes : CancelsRun(n)
    BY <2>4 DEF SweepsFailed, FenceRises, FenceLifts, Crash, CancelsRun
  <2>9. ~Tick
    <3>1. SUFFICES ASSUME Tick PROVE FALSE
      OBVIOUS
    <3>2. /\ row'[a].status = row[a].status /\ row'[a].owner = row[a].owner
          /\ row'[a].lease = Down(row[a].lease)
      BY <2>1, <3>1 DEF Tick, Rows
    <3>3. Down(row[a].lease) \in Int /\ Down(row[a].lease) <= row[a].lease
      BY <2>1 DEF Down
    <3> QED BY <1>1, <2>1, <3>2, <3>3 DEF Changes
  <2> HIDE DEF Allowed
  <2> QED BY <1>1, <2>2, <2>3, <2>5, <2>6, <2>7, <2>8, <2>9 DEF Next, Maintains
<1>2. IInv /\ [Next]_vars =>
        [\A a \in Actions : row[a].status \in {"pending", "leased"} /\ Changes(a)
                               => Allowed(a)]_vars
  BY <1>1
<1> QED BY <1>2, Invariance, PTL DEF Spec, OnlyOwnerChanges

(* With an owner of its own for each worker, the owner check before the    *)
(* node attempt and handoff are committed is the fence that its comment    *)
(* says it is; with one owner for all of them it is not (the run           *)
(* graph_dispatch_fencing).                                                *)
THEOREM DistinctOwnersFence ==
  ASSUME \A v, w \in Workers : Owner[v] = Owner[w] => v = w
  PROVE  Spec => StaleWorkerFenced
<1>1. ASSUME IInv, Next, NEW w \in Workers, CommitUpstream(w), upstream' # upstream
      PROVE  holder[task[w]] = w
  <2>1. pc[w] \in Steps /\ \E lag \in Lags : Holds(w, lag)
    BY <1>1 DEF CommitUpstream, Steps
  <2>2. holder[task[w]] \in Workers /\ Owner[holder[task[w]]] = Owner[w]
    BY <1>1, <2>1, HoldsMeansOwner
  <2> QED BY <2>2
<1>2. IInv /\ [Next]_vars =>
        [\A w \in Workers : CommitUpstream(w) /\ upstream' # upstream
                              => holder[task[w]] = w]_vars
  BY <1>1
<1> QED BY <1>2, Invariance, PTL DEF Spec, StaleWorkerFenced

-----------------------------------------------------------------------------
(* The leases implement OutboxLease.                                       *)

(* An attempt that is still starting has no dispatch that has succeeded.   *)
StartingUndone ==
  \A a \in Actions : row[a].status = "succeeded" => Node[a] \notin starting

(* A row that keeps its status and counts has not moved for OutboxLease.   *)
LEMMA QuietLease ==
  ASSUME \A b \in Actions :
           /\ row'[b].status = row[b].status
           /\ row'[b].attempts = row[b].attempts
           /\ row'[b].recoveries = row[b].recoveries
  PROVE  UNCHANGED Lease!leaseVars
BY DEF Lease!leaseVars

(* A row that is put back, failed or completed under its lease.            *)
LEMMA SettledLease ==
  ASSUME row \in [Actions -> Rows], NEW a \in Actions, row[a].status = "leased",
         NEW r \in Rows, row' = [row EXCEPT ![a] = r],
         r.status \in {"pending", "succeeded", "failed"},
         r.attempts = row[a].attempts, r.recoveries = row[a].recoveries
  PROVE  Lease!Next
<1>1. \A b \in Actions : row'[b] = IF b = a THEN r ELSE row[b]
  OBVIOUS
<1>2. Lease!Settles(a, r.status)
  BY <1>1 DEF Lease!Settles, Lease!Becomes, Lease!KeepsCounts
<1> QED BY <1>2 DEF Lease!Next

(* Rows that are cancelled, armed or revived together.                     *)
LEMMA ManyLease ==
  ASSUME NEW S \in SUBSET Actions, NEW s,
         \A b \in Actions : row'[b].recoveries = row[b].recoveries,
         \A b \in Actions : row'[b].status = IF b \in S THEN s ELSE row[b].status,
         \/ /\ s = "cancelled" /\ \A b \in S : row[b].status \in {"pending", "leased"}
            /\ \A b \in Actions : row'[b].attempts = row[b].attempts
         \/ /\ s = "pending"
            /\ \A b \in S : row[b].status \in {"absent", "failed", "cancelled"}
            /\ \A b \in Actions : row'[b].attempts = row[b].attempts
         \/ /\ s = "pending" /\ \A b \in S : row[b].status = "failed"
            /\ \A b \in Actions : row'[b].attempts = IF b \in S THEN 0 ELSE row[b].attempts
  PROVE  Lease!Next
<1>1. Lease!Becomes(S, s)
  BY DEF Lease!Becomes
<1>2. Lease!Cancels(S) \/ Lease!Arms(S) \/ Lease!Revives(S)
  BY <1>1 DEF Lease!Cancels, Lease!Arms, Lease!Revives, Lease!KeepsCounts, Lease!Live
<1> QED BY <1>2 DEF Lease!Next

(* A claim and the gate before it.                                         *)
LEMMA OneClaim ==
  ASSUME NEW T \in SUBSET Actions, NEW F \in SUBSET Actions, Lease!Claims(T, F)
  PROVE  Lease!Next
BY DEF Lease!Next

(* The lease scan and the claim after it are one step of OutboxLease.      *)
LEMMA ClaimLease ==
  ASSUME IInv, NEW w \in Workers, Claim(w)
  PROVE  Lease!Next
<1> USE Bounds
<1>1. row \in [Actions -> Rows]
  BY DEF IInv, TypeOK
<1>2. PICK lag \in Lags :
        \/ row' = Swept(lag)
        \/ \E b \in Actions :
             /\ Claimable(Swept(lag)[b], lag)
             /\ row' = [Swept(lag) EXCEPT ![b] = Claimed(@, w, lag)]
  BY DEF Claim
<1>a. PICK over \in SUBSET Actions :
        over = {b \in Actions : Claimable(row[b], lag) /\ OverGate(row[b])}
  OBVIOUS
<1>3. /\ over \in SUBSET Actions /\ over \subseteq Lease!Live
      /\ \A b \in over : ~Lease!InBudget(b)
  BY <1>1, <1>a DEF Lease!Live, Lease!InBudget, Claimable, OverGate, Rows
<1>4. \A b \in Actions :
        /\ Swept(lag)[b].status = IF b \in over THEN "failed" ELSE row[b].status
        /\ Swept(lag)[b].attempts = row[b].attempts
        /\ Swept(lag)[b].recoveries = row[b].recoveries
  BY <1>1, <1>a, Fields DEF Swept, Statuses
<1>5. CASE row' = Swept(lag)
  <2>1. Lease!Claims({}, over)
    BY <1>3, <1>4, <1>5 DEF Lease!Claims
  <2> QED BY <1>3, <2>1, OneClaim
<1>6. ASSUME NEW a \in Actions, Claimable(Swept(lag)[a], lag),
             row' = [Swept(lag) EXCEPT ![a] = Claimed(@, w, lag)]
      PROVE  Lease!Next
  <2>1. /\ Swept(lag)[a] = row[a] /\ Claimable(row[a], lag) /\ ~OverGate(row[a])
        /\ Swept(lag) \in [Actions -> Rows]
    BY <1>1, <1>6, SweptFacts
  <2>2. \A b \in Actions : row'[b] = IF b = a THEN Claimed(row[a], w, lag) ELSE Swept(lag)[b]
    BY <1>6, <2>1
  <2>3. /\ row[a] \in Rows
        /\ Claimed(row[a], w, lag).status = "leased"
        /\ Claimed(row[a], w, lag).attempts =
             IF row[a].status = "pending" THEN row[a].attempts + 1 ELSE row[a].attempts
        /\ Claimed(row[a], w, lag).recoveries =
             IF row[a].status = "leased" THEN row[a].recoveries + 1 ELSE row[a].recoveries
    BY <1>1 DEF Claimed, Rows
  <2>4. {a} \subseteq Lease!Live /\ Lease!InBudget(a)
    BY <2>1, <2>3 DEF Lease!Live, Lease!InBudget, Claimable, OverGate, Rows
  <2>5. Lease!Claims({a}, over)
    BY <1>3, <1>4, <2>2, <2>3, <2>4 DEF Lease!Claims
  <2>6. {a} \in SUBSET Actions
    OBVIOUS
  <2> QED BY <1>3, <2>5, <2>6, OneClaim
<1> QED BY <1>2, <1>5, <1>6

(* A worker's transaction that ends the lease.                             *)
LEMMA WorkerSettlesLease ==
  ASSUME IInv, NEW w \in Workers, NEW from \in Steps, NEW lag \in Lags, Holds(w, lag),
         NEW s \in {"pending", "succeeded", "failed"}, NEW r \in Rows,
         r.status = s, r.attempts = row[task[w]].attempts,
         r.recoveries = row[task[w]].recoveries, Settles(w, from, r)
  PROVE  Lease!Next
<1>1. /\ task[w] \in Actions /\ row \in [Actions -> Rows]
  BY BusyHasTask DEF Settles
<1>2. row[task[w]].status = "leased" /\ row' = [row EXCEPT ![task[w]] = r]
  BY DEF Holds, Settles
<1> QED BY <1>1, <1>2, SettledLease

(* A worker renews, settles or leaves its row.                             *)
LEMMA WorksLease ==
  ASSUME IInv, NEW w \in Workers, Works(w) \/ Heartbeat(w) \/ LosesLease(w)
  PROVE  Lease!Next \/ UNCHANGED Lease!leaseVars
<1> USE Bounds
<1>1. pc[w] \in Steps
  BY DEF Works, Handle, RenewsFirst, InvokeReturns, CommitUpstream, Commit, Block,
         Requeue, Defer, Misses, Settles, Heartbeat, LosesLease, Steps
<1>2. task[w] \in Actions /\ row \in [Actions -> Rows] /\ row[task[w]] \in Rows
  BY <1>1, BusyHasTask
<1>3. CASE UNCHANGED row
  BY <1>3, QuietLease
<1>4. ASSUME NEW lag \in Lags, row' = [row EXCEPT ![task[w]] = Renewed(@, lag)]
      PROVE  UNCHANGED Lease!leaseVars
  <2> DEFINE r == Renewed(row[task[w]], lag)
  <2>1. /\ r.status = row[task[w]].status /\ r.attempts = row[task[w]].attempts
        /\ r.recoveries = row[task[w]].recoveries
    BY <1>2, Fields
  <2>2. row' = [row EXCEPT ![task[w]] = r]
    BY <1>4
  <2> HIDE DEF r
  <2> QED BY <1>2, <2>1, <2>2, QuietLease
<1>5. CASE RenewsFirst(w) \/ Heartbeat(w) \/ CommitUpstream(w)
  BY <1>3, <1>4, <1>5 DEF RenewsFirst, Heartbeat, CommitUpstream
<1>6. CASE Commit(w) \/ Block(w)
  <2>1. PICK from \in Steps, lag \in Lags, s \in {"succeeded", "failed"} :
          Holds(w, lag) /\ Settles(w, from, Settled(row[task[w]], s))
    <3>1. CASE Commit(w)
      BY <3>1 DEF Commit, Steps
    <3>2. CASE Block(w)
      BY <3>2 DEF Block, Steps
    <3> QED BY <1>6, <3>1, <3>2
  <2> DEFINE r == Settled(row[task[w]], s)
  <2>2. s \in Statuses
    BY DEF Statuses
  <2>4. /\ r \in Rows /\ r.status = s /\ r.attempts = row[task[w]].attempts
        /\ r.recoveries = row[task[w]].recoveries
    BY <1>2, <2>2, RowFacts, Fields
  <2>3. Settles(w, from, r)
    BY <2>1
  <2> HIDE DEF r
  <2>5. s \in {"pending", "succeeded", "failed"}
    OBVIOUS
  <2> QED BY <2>1, <2>3, <2>4, <2>5, WorkerSettlesLease
<1>7. CASE Requeue(w) \/ Defer(w)
  <2>1. PICK from \in Steps, lag \in Lags, wait \in -MaxLag..RetryTime :
          Holds(w, lag) /\ Settles(w, from, Requeued(row[task[w]], wait))
    <3>1. \A lag \in Lags : /\ RetryTime - lag \in -MaxLag..RetryTime
                            /\ 0 - lag \in -MaxLag..RetryTime
      BY DEF Lags
    <3> QED BY <1>7, <3>1 DEF Requeue, Defer, Steps
  <2> DEFINE r == Requeued(row[task[w]], wait)
  <2>3. /\ r \in Rows /\ r.status = "pending" /\ r.attempts = row[task[w]].attempts
        /\ r.recoveries = row[task[w]].recoveries
    BY <1>2, RowFacts, Fields
  <2>4. Settles(w, from, r)
    BY <2>1
  <2> HIDE DEF r
  <2> QED BY <2>1, <2>3, <2>4, WorkerSettlesLease
<1>8. CASE Handle(w) \/ InvokeReturns(w) \/ Misses(w) \/ LosesLease(w)
  BY <1>3, <1>8 DEF Handle, InvokeReturns, Misses, LosesLease
<1> QED BY <1>5, <1>6, <1>7, <1>8 DEF Works

(* Repairs arm, reconciliations revive, archiving cancels, and the rest of *)
(* the system leaves what OutboxLease speaks of alone.                     *)
LEMMA OthersLease ==
  ASSUME IInv, StartingUndone,
         \/ \E n \in Nodes : Reconciles(n) \/ CancelsRun(n) \/ Archives(n)
         \/ Maintains \/ FenceRises \/ FenceLifts \/ Crash \/ Tick
  PROVE  Lease!Next \/ UNCHANGED Lease!leaseVars
<1> USE Bounds
<1>1. /\ row \in [Actions -> Rows] /\ \A b \in Actions : row[b] \in Rows
      /\ starting \subseteq Nodes
  BY DEF IInv, TypeOK
<1>2. \A b \in Actions :
        /\ Requeued(row[b], 0) \in Rows
        /\ Requeued(row[b], 0).status = "pending"
        /\ Requeued(row[b], 0).attempts = row[b].attempts
        /\ Requeued(row[b], 0).recoveries = row[b].recoveries
  <2>1. 0 \in -MaxLag..RetryTime
    OBVIOUS
  <2> QED BY <1>1, <2>1, RowFacts, Fields
<1>3. ASSUME NEW n \in Nodes, Reconciles(n) PROVE Lease!Next
  <2> DEFINE again(b) == [Requeued(row[b], 0) EXCEPT !.attempts = 0]
             dead == {a \in Actions : Node[a] = n /\ row[a].status = "failed"}
  <2>1. \A b \in Actions : /\ again(b).status = "pending" /\ again(b).attempts = 0
                           /\ again(b).recoveries = row[b].recoveries
    BY <1>2 DEF Rows
  <2>2. row' = [a \in Actions |-> IF a \in dead THEN again(a) ELSE row[a]]
    BY <1>3 DEF Reconciles
  <2>3. \A b \in dead : b \in Actions /\ row[b].status = "failed"
    OBVIOUS
  <2> HIDE DEF again, dead
  <2> QED BY <2>1, <2>2, <2>3, ManyLease
<1>4. ASSUME NEW n \in Nodes, Archives(n) PROVE Lease!Next
  <2> DEFINE live == {a \in Actions : /\ Node[a] = n
                                      /\ row[a].status \in {"pending", "leased"}}
  <2>1. \A b \in Actions :
          /\ Settled(row[b], "cancelled").status = "cancelled"
          /\ Settled(row[b], "cancelled").attempts = row[b].attempts
          /\ Settled(row[b], "cancelled").recoveries = row[b].recoveries
    BY <1>1, Fields DEF Statuses
  <2>2. row' = [a \in Actions |->
                  IF a \in live THEN Settled(row[a], "cancelled") ELSE row[a]]
    BY <1>4 DEF Archives
  <2>3. \A b \in live : b \in Actions /\ row[b].status \in {"pending", "leased"}
    OBVIOUS
  <2> HIDE DEF live
  <2> QED BY <2>1, <2>2, <2>3, ManyLease
<1>5. CASE SweepsStarting
  <2> DEFINE dead == {Repair[n] : n \in {m \in starting : ~Live(m)}}
  <2>1. row' = [a \in Actions |-> IF a \in dead THEN Requeued(row[a], 0) ELSE row[a]]
    BY <1>5 DEF SweepsStarting
  <2>2. \A b \in dead : b \in Actions /\ row[b].status \in {"absent", "failed", "cancelled"}
    <3> SUFFICES ASSUME NEW n \in starting, ~Live(n)
                 PROVE  /\ Repair[n] \in Actions
                        /\ row[Repair[n]].status \in {"absent", "failed", "cancelled"}
      OBVIOUS
    <3>1. n \in Nodes /\ Repair[n] \in Actions /\ Node[Repair[n]] = n
      BY <1>1, DispatchAssumption DEF DispatchAssumption
    <3>2. row[Repair[n]].status \notin {"pending", "leased", "succeeded"}
      BY <3>1 DEF Live, StartingUndone
    <3> QED BY <1>1, <3>1, <3>2 DEF Rows, Statuses
  <2> HIDE DEF dead
  <2> QED BY <1>2, <2>1, <2>2, ManyLease
<1>6. CASE SweepsFailed \/ FenceRises \/ FenceLifts \/ Crash \/ \E n \in Nodes : CancelsRun(n)
  BY <1>6, QuietLease DEF SweepsFailed, FenceRises, FenceLifts, Crash, CancelsRun
<1>7. CASE Tick
  <2>1. \A b \in Actions :
          /\ row'[b].status = row[b].status /\ row'[b].attempts = row[b].attempts
          /\ row'[b].recoveries = row[b].recoveries
    BY <1>1, <1>7 DEF Tick, Rows
  <2> QED BY <2>1, QuietLease
<1> QED BY <1>3, <1>4, <1>5, <1>6, <1>7 DEF Maintains

(* Only a commit completes an action.                                      *)
LEMMA OnlyCommitCompletes ==
  ASSUME IInv, [Next]_vars, NEW a \in Actions,
         row'[a].status = "succeeded", row[a].status # "succeeded"
  PROVE  \E w \in Workers : Commit(w) /\ a = task[w]
<1> USE Bounds
<1>1. row \in [Actions -> Rows] /\ row[a] \in Rows
  BY DEF IInv, TypeOK
<1>2. ~UNCHANGED row
  OBVIOUS
<1>3. /\ \A s \in Statuses : Settled(row[a], s).status = s
      /\ \A lag \in Lags : Renewed(row[a], lag).status = row[a].status
      /\ \A wait \in -MaxLag..RetryTime : Requeued(row[a], wait).status = "pending"
      /\ \A w \in Workers, lag \in Lags : Claimed(row[a], w, lag).status = "leased"
      /\ 0 \in -MaxLag..RetryTime
      /\ \A lag \in Lags : /\ RetryTime - lag \in -MaxLag..RetryTime
                           /\ 0 - lag \in -MaxLag..RetryTime
  <2>1. \A w \in Workers, lag \in Lags : Claimed(row[a], w, lag).status = "leased"
    BY <1>1 DEF Claimed, Rows
  <2>2. \A lag \in Lags : /\ RetryTime - lag \in -MaxLag..RetryTime
                          /\ 0 - lag \in -MaxLag..RetryTime
    BY DEF Lags
  <2>3. 0 \in -MaxLag..RetryTime
    OBVIOUS
  <2> QED BY <1>1, <2>1, <2>2, <2>3, Fields
<1>4. ASSUME NEW w \in Workers, Claim(w) PROVE FALSE
  <2>1. PICK lag \in Lags :
          \/ row' = Swept(lag)
          \/ \E b \in Actions :
               /\ Claimable(Swept(lag)[b], lag)
               /\ row' = [Swept(lag) EXCEPT ![b] = Claimed(@, w, lag)]
    BY <1>4 DEF Claim
  <2>2. Swept(lag) \in [Actions -> Rows] /\ Swept(lag)[a].status # "succeeded"
    BY <1>1, <1>3, SweptFacts DEF Statuses
  <2>3. PICK b \in Actions : /\ Claimable(Swept(lag)[b], lag)
                             /\ row' = [Swept(lag) EXCEPT ![b] = Claimed(@, w, lag)]
    BY <2>1, <2>2
  <2>4. a = b /\ Swept(lag)[a] = row[a]
    BY <1>1, <2>2, <2>3, SweptFacts
  <2> QED BY <1>3, <2>2, <2>3, <2>4
<1>5. ASSUME NEW w \in Workers, Works(w) \/ Heartbeat(w), ~Commit(w) PROVE FALSE
  <2>1. CASE Block(w) \/ Requeue(w) \/ Defer(w)
    <3>1. CASE Block(w)
      BY <1>1, <1>3, <3>1 DEF Block, Settles, Statuses
    <3>2. CASE Requeue(w) \/ Defer(w)
      BY <1>1, <1>3, <3>2 DEF Requeue, Defer, Settles
    <3> QED BY <2>1, <3>1, <3>2
  <2>2. CASE RenewsFirst(w) \/ Heartbeat(w) \/ CommitUpstream(w)
    BY <1>1, <1>2, <1>3, <2>2 DEF RenewsFirst, Heartbeat, CommitUpstream
  <2> QED BY <1>2, <1>5, <2>1, <2>2 DEF Works, Handle, InvokeReturns, Misses
<1>6. ASSUME NEW w \in Workers, Commit(w) PROVE a = task[w]
  BY <1>1, <1>6 DEF Commit, Settles
<1>7. ASSUME NEW n \in Nodes, Reconciles(n) PROVE FALSE
  <2>1. [Requeued(row[a], 0) EXCEPT !.attempts = 0].status = "pending"
    BY <1>1, <1>3 DEF Requeued, Settled, Rows
  <2> QED BY <1>7, <2>1 DEF Reconciles
<1>8. ASSUME NEW n \in Nodes, Archives(n) PROVE FALSE
  BY <1>3, <1>8 DEF Archives, Statuses
<1>9. CASE SweepsStarting
  BY <1>3, <1>9 DEF SweepsStarting
<1>10. CASE Tick
  BY <1>1, <1>10 DEF Tick, Rows
<1> QED
  BY <1>2, <1>4, <1>5, <1>6, <1>7, <1>8, <1>9, <1>10
  DEF Next, vars, LosesLease, Maintains, SweepsFailed, CancelsRun, FenceRises, FenceLifts, Crash

(* A commit ends the start of its attempt, and nothing starts one again.   *)
LEMMA StartingUndoneKept ==
  ASSUME IInv, StartingUndone, [Next]_vars
  PROVE  StartingUndone'
<1>1. starting' \subseteq starting
  <2>1. ASSUME NEW w \in Workers, Claim(w) \/ Works(w) \/ Heartbeat(w) \/ LosesLease(w)
        PROVE  starting' \subseteq starting
    <3>1. CASE CommitUpstream(w) \/ Commit(w)
      BY <3>1 DEF CommitUpstream, Commit, runVars
    <3>2. CASE Claim(w) \/ Heartbeat(w) \/ LosesLease(w)
      BY <3>2 DEF Claim, Heartbeat, LosesLease, runVars
    <3>3. CASE RenewsFirst(w) \/ InvokeReturns(w) \/ Handle(w) \/ Misses(w)
      BY <3>3 DEF RenewsFirst, InvokeReturns, Handle, Misses, runVars
    <3>4. CASE Block(w) \/ Requeue(w) \/ Defer(w)
      BY <3>4 DEF Block, Requeue, Defer, runVars
    <3> QED BY <2>1, <3>1, <3>2, <3>3, <3>4 DEF Works
  <2>2. ASSUME NEW n \in Nodes, Reconciles(n) \/ CancelsRun(n) \/ Archives(n)
        PROVE  starting' \subseteq starting
    BY <2>2 DEF Reconciles, CancelsRun, Archives, runVars
  <2>3. CASE Maintains \/ FenceRises \/ FenceLifts \/ Crash \/ Tick \/ UNCHANGED vars
    BY <2>3 DEF Maintains, SweepsStarting, SweepsFailed, FenceRises, FenceLifts, Crash, Tick,
       runVars, vars
  <2> QED BY <2>1, <2>2, <2>3 DEF Next
<1>2. ASSUME NEW a \in Actions, row'[a].status = "succeeded", row[a].status # "succeeded"
      PROVE  Node[a] \notin starting'
  BY <1>2, OnlyCommitCompletes DEF Commit
<1> QED BY <1>1, <1>2 DEF StartingUndone

(* Whatever the threads of the pump, the sweeps, the commands, the fence   *)
(* and the clock do with the rows of graph_dispatch actions, OutboxLease   *)
(* allows it.                                                              *)
THEOREM ImplementsLease == Spec => ImplementsOutboxLease
<1>1. Init => StartingUndone /\ Lease!Init
  <2> SUFFICES ASSUME Init PROVE StartingUndone /\ Lease!Init
    OBVIOUS
  <2>1. \A a \in Actions : /\ row[a].status \in {"absent", "pending"}
                           /\ row[a].attempts = 0 /\ row[a].recoveries = 0
    BY DEF Init
  <2> QED BY <2>1 DEF StartingUndone, Lease!Init
<1>2. IInv /\ StartingUndone /\ [Next]_vars =>
        StartingUndone' /\ [Lease!Next]_Lease!leaseVars
  <2> SUFFICES ASSUME IInv, StartingUndone, [Next]_vars
               PROVE  Lease!Next \/ UNCHANGED Lease!leaseVars
    BY StartingUndoneKept
  <2>1. CASE UNCHANGED vars
    BY <2>1, QuietLease DEF vars
  <2>2. CASE Next
    BY <2>2, ClaimLease, WorksLease, OthersLease DEF Next
  <2> QED BY <2>1, <2>2
<1> QED BY <1>1, <1>2, Invariance, PTL DEF Spec, ImplementsOutboxLease, Lease!Spec

-----------------------------------------------------------------------------
(* How often a dispatch is claimed in its life                             *)

(* History: the claims of each action, and the times its attempts started  *)
(* anew.                                                                   *)
VARIABLES claims, revivals

(* No dispatch is ever put back as if it were new.                         *)
Counted == INSTANCE OutboxLeaseProofs WITH
  Restartable <- {},
  restarts   <- [a \in Actions |-> 0],
  status     <- [a \in Actions |-> row[a].status],
  attempts   <- [a \in Actions |-> row[a].attempts],
  recoveries <- [a \in Actions |-> row[a].recoveries]

CountedSpec ==
  /\ Spec /\ Counted!CountsFromZero
  /\ [][Counted!Counts]_Counted!counted

(* An action is claimed within one budget of attempts for each command and *)
(* the first, and one budget of recoveries.                                *)
DispatchesBounded ==
  \A a \in Actions : claims[a] <= MaxAttempts * (reconciles + 1) + MaxRecoveries

(* Every revival of an action is a command's.                              *)
RevivalsCommanded ==
  /\ reconciles \in Nat /\ claims \in [Actions -> Nat]
  /\ revivals \in [Actions -> Nat] /\ \A a \in Actions : revivals[a] <= reconciles

(* Only a command takes an attempt back.                                   *)
LEMMA OnlyReconcilesRevive ==
  ASSUME IInv, [Next]_vars, NEW a \in Actions, row'[a].attempts < row[a].attempts
  PROVE  \E n \in Nodes : Reconciles(n)
<1> USE Bounds
<1>1. row \in [Actions -> Rows] /\ row[a] \in Rows /\ row[a].attempts \in Nat
  BY DEF IInv, TypeOK, Rows
<1>2. row'[a].attempts # row[a].attempts
  BY <1>1
<1>3. /\ \A s \in Statuses : Settled(row[a], s).attempts = row[a].attempts
      /\ \A lag \in Lags : Renewed(row[a], lag).attempts = row[a].attempts
      /\ \A wait \in -MaxLag..RetryTime : Requeued(row[a], wait).attempts = row[a].attempts
      /\ \A w \in Workers, lag \in Lags : Claimed(row[a], w, lag).attempts >= row[a].attempts
      /\ 0 \in -MaxLag..RetryTime
      /\ \A lag \in Lags : /\ RetryTime - lag \in -MaxLag..RetryTime
                           /\ 0 - lag \in -MaxLag..RetryTime
  <2>1. \A w \in Workers, lag \in Lags : Claimed(row[a], w, lag).attempts >= row[a].attempts
    BY <1>1 DEF Claimed, Rows
  <2>2. \A lag \in Lags : /\ RetryTime - lag \in -MaxLag..RetryTime
                          /\ 0 - lag \in -MaxLag..RetryTime
    BY DEF Lags
  <2>3. 0 \in -MaxLag..RetryTime
    OBVIOUS
  <2> QED BY <1>1, <2>1, <2>2, <2>3, Fields
<1>4. ASSUME NEW w \in Workers, Claim(w) PROVE FALSE
  <2>1. PICK lag \in Lags :
          \/ row' = Swept(lag)
          \/ \E b \in Actions :
               /\ Claimable(Swept(lag)[b], lag)
               /\ row' = [Swept(lag) EXCEPT ![b] = Claimed(@, w, lag)]
    BY <1>4 DEF Claim
  <2>2. Swept(lag) \in [Actions -> Rows] /\ Swept(lag)[a].attempts = row[a].attempts
    BY <1>1, <1>3, SweptFacts DEF Statuses
  <2>3. PICK b \in Actions : /\ Claimable(Swept(lag)[b], lag)
                             /\ row' = [Swept(lag) EXCEPT ![b] = Claimed(@, w, lag)]
    BY <1>2, <2>1, <2>2
  <2>4. a = b /\ Swept(lag)[a] = row[a]
    BY <1>1, <1>2, <2>2, <2>3, SweptFacts
  <2>5. row'[a] = Claimed(row[a], w, lag)
    BY <2>2, <2>3, <2>4
  <2>6. Claimed(row[a], w, lag).attempts \in Nat
    BY <1>1, RowFacts DEF Rows
  <2> QED BY <1>1, <1>3, <2>5, <2>6
<1>5. ASSUME NEW w \in Workers, Works(w) \/ Heartbeat(w) PROVE FALSE
  <2>1. CASE Commit(w) \/ Block(w)
    BY <1>1, <1>2, <1>3, <2>1 DEF Commit, Block, Settles, Statuses
  <2>2. CASE Requeue(w) \/ Defer(w)
    BY <1>1, <1>2, <1>3, <2>2 DEF Requeue, Defer, Settles
  <2>3. CASE RenewsFirst(w) \/ Heartbeat(w) \/ CommitUpstream(w)
    BY <1>1, <1>2, <1>3, <2>3 DEF RenewsFirst, Heartbeat, CommitUpstream
  <2> QED BY <1>2, <1>5, <2>1, <2>2, <2>3 DEF Works, Handle, InvokeReturns, Misses
<1>6. ASSUME NEW n \in Nodes, Archives(n) PROVE FALSE
  BY <1>2, <1>3, <1>6 DEF Archives, Statuses
<1>7. CASE SweepsStarting
  BY <1>2, <1>3, <1>7 DEF SweepsStarting
<1>8. CASE Tick
  BY <1>1, <1>2, <1>8 DEF Tick, Rows
<1> QED
  BY <1>2, <1>4, <1>5, <1>6, <1>7, <1>8
  DEF Next, vars, LosesLease, Maintains, SweepsFailed, CancelsRun, FenceRises, FenceLifts, Crash

(* Commands only add up.                                                   *)
LEMMA ReconcilesGrow ==
  ASSUME RevivalsCommanded, [Next]_vars
  PROVE  /\ reconciles' \in Nat /\ reconciles <= reconciles'
         /\ \A n \in Nodes : Reconciles(n) => reconciles' = reconciles + 1
<1>1. reconciles' = reconciles \/ reconciles' = reconciles + 1
  <2>1. ASSUME NEW w \in Workers, Claim(w) \/ Works(w) \/ Heartbeat(w) \/ LosesLease(w)
        PROVE  reconciles' = reconciles
    <3>1. CASE CommitUpstream(w)
      BY <3>1 DEF CommitUpstream, runVars
    <3>2. CASE Commit(w)
      BY <3>2 DEF Commit, Settles
    <3>3. CASE Claim(w) \/ Heartbeat(w) \/ LosesLease(w)
      BY <3>3 DEF Claim, Heartbeat, LosesLease, runVars
    <3>4. CASE RenewsFirst(w) \/ InvokeReturns(w) \/ Handle(w) \/ Misses(w)
      BY <3>4 DEF RenewsFirst, InvokeReturns, Handle, Misses, runVars
    <3>5. CASE Block(w)
      BY <3>5 DEF Block, Settles
    <3>6. CASE Requeue(w) \/ Defer(w)
      BY <3>6 DEF Requeue, Defer, Settles, Misses
    <3> QED BY <2>1, <3>1, <3>2, <3>3, <3>4, <3>5, <3>6 DEF Works
  <2>2. ASSUME NEW n \in Nodes, Reconciles(n) \/ CancelsRun(n) \/ Archives(n)
        PROVE  reconciles' = reconciles \/ reconciles' = reconciles + 1
    BY <2>2 DEF Reconciles, CancelsRun, Archives, runVars
  <2>3. CASE Maintains \/ FenceRises \/ FenceLifts \/ Crash \/ Tick \/ UNCHANGED vars
    BY <2>3 DEF Maintains, SweepsStarting, SweepsFailed, FenceRises, FenceLifts, Crash, Tick,
       runVars, vars
  <2> QED BY <2>1, <2>2, <2>3 DEF Next
<1>2. \A n \in Nodes : Reconciles(n) => reconciles' = reconciles + 1
  BY DEF Reconciles
<1> QED BY <1>1, <1>2 DEF RevivalsCommanded

(* A step that revives an action is a command, and is counted as one.      *)
LEMMA RevivalsCommandedKept ==
  ASSUME IInv, RevivalsCommanded, [Next]_vars,
         [Counted!Counts]_Counted!counted
  PROVE  RevivalsCommanded'
<1>1. CASE UNCHANGED <<claims, revivals>>
  BY <1>1, ReconcilesGrow DEF RevivalsCommanded
<1>2. CASE Counted!Counts
  <2>1. claims' \in [Actions -> Nat] /\ revivals' \in [Actions -> Nat]
    BY <1>2 DEF Counted!Counts, RevivalsCommanded
  <2>2. ASSUME NEW a \in Actions PROVE revivals'[a] <= reconciles'
    <3>1. revivals'[a] = IF row'[a].attempts < row[a].attempts
                           THEN revivals[a] + 1 ELSE revivals[a]
      BY <1>2 DEF Counted!Counts, Counted!Revived, Counted!Restarted
    <3>2. revivals[a] \in Nat /\ revivals[a] <= reconciles /\ reconciles \in Nat
      BY DEF RevivalsCommanded
    <3> QED BY <3>1, <3>2, OnlyReconcilesRevive, ReconcilesGrow
  <2> QED BY <2>1, <2>2, ReconcilesGrow DEF RevivalsCommanded
<1> QED BY <1>1, <1>2 DEF Counted!counted

(* More commands pay for no fewer claims.                                  *)
LEMMA MoreCommands ==
  ASSUME NEW m \in Nat, NEW k \in Nat, NEW r \in Nat, NEW q \in Nat, NEW c \in Nat,
         r <= q, c <= m * (r + 1) + k
  PROVE  c <= m * (q + 1) + k
<1>1. m * (q + 1) = m * (r + 1) + m * (q - r)
  OBVIOUS
<1>2. q - r \in Nat
  OBVIOUS
<1>3. m * (q - r) \in Nat /\ m * (r + 1) \in Nat
  BY <1>2
<1> QED
  BY <1>1, <1>3

(* Crashes, expiries, refusals, requeues, deferrals and repairs never make *)
(* the graph run for an action once more than the commands have paid for.  *)
THEOREM DispatchClaimsBounded == CountedSpec => []DispatchesBounded
<1>1. MaxAttempts \in Nat /\ MaxRecoveries \in Nat
  BY Bounds
<1>2. Counted!CountedSpec => []Counted!ClaimsBounded
  BY <1>1, Counted!ClaimsAreBounded
<1>3. Lease!Init => Counted!Init
  BY DEF Lease!Init, Counted!Init
<1>4. [Lease!Next]_Lease!leaseVars => [Counted!Next]_Counted!leaseVars
  BY DEF Lease!Next, Counted!Next, Lease!leaseVars, Counted!leaseVars, Lease!Claims,
     Counted!Claims, Lease!Settles, Counted!Settles, Lease!Cancels, Counted!Cancels,
     Lease!Arms, Counted!Arms, Lease!Revives, Counted!Revives, Lease!Becomes,
     Counted!Becomes, Lease!KeepsCounts, Counted!KeepsCounts, Lease!Live, Counted!Live,
     Lease!InBudget, Counted!InBudget, Lease!Restarts, Counted!Restarts
<1>5. Init /\ Counted!CountsFromZero => RevivalsCommanded
  BY DEF Init, Counted!CountsFromZero, RevivalsCommanded
<1>6. /\ IInv /\ RevivalsCommanded /\ [Next]_vars
      /\ [Counted!Counts]_Counted!counted
      => RevivalsCommanded'
  BY RevivalsCommandedKept
<1>7. RevivalsCommanded /\ Counted!ClaimsBounded => DispatchesBounded
  <2> SUFFICES ASSUME RevivalsCommanded, Counted!ClaimsBounded, NEW a \in Actions
               PROVE  claims[a] <= MaxAttempts * (reconciles + 1) + MaxRecoveries
    BY DEF DispatchesBounded
  <2>1. /\ claims[a] \in Nat /\ revivals[a] \in Nat /\ reconciles \in Nat
        /\ revivals[a] <= reconciles
        /\ claims[a] <= MaxAttempts * (revivals[a] + 1) + MaxRecoveries
    <3>1. (MaxAttempts + MaxRecoveries) * 0 = 0
      BY <1>1
    <3>2. MaxAttempts * (revivals[a] + 1) \in Nat
      BY <1>1 DEF RevivalsCommanded
    <3> QED
      BY <1>1, <3>1, <3>2 DEF RevivalsCommanded, Counted!ClaimsBounded
  <2> QED
    BY <1>1, <2>1, MoreCommands
<1> QED
  BY <1>2, <1>3, <1>4, <1>5, <1>6, <1>7, ImplementsLease, Invariance, PTL
  DEF Spec, ImplementsOutboxLease, Lease!Spec, Counted!Spec, Counted!CountedSpec,
      CountedSpec
=============================================================================
