----------------------- MODULE AdapterDispatchProofs ------------------------
(***************************************************************************)
(* Proofs about AdapterDispatch, for any threads and any gates.            *)
(***************************************************************************)
EXTENDS AdapterDispatch, TLAPS

Final == {"settled", "voided", "released"}

(* What an action or a worker has seen delivered is delivered, and a worker*)
(* that found the receipt missing had not seen it.                         *)
SeenIsDelivered ==
  /\ row.seen => delivery = "delivered"
  /\ \A w \in Workers : /\ task[w].seen => delivery = "delivered"
                        /\ pc[w] = "defer" => ~task[w].seen

(* Nothing of a turn happens before its reservation.                       *)
ReservedFirst ==
  /\ row.problem = "completion" => receipt.status # "none"
  /\ \A w \in Workers : pc[w] \in {"start", "execute", "defer"} => receipt.status # "none"

(* A dispatch that was failed for its receipt has none that could still be *)
(* recorded or delivered.                                                  *)
Undelivered ==
  row.status = "failed" /\ row.problem = "completion"
    => delivery \in {"none", "failed"} /\ receipt.status \in Final

IInv ==
  /\ TypeOK /\ CommittedIsSettled /\ EndedAttemptRests
  /\ SeenIsDelivered /\ ReservedFirst /\ Undelivered

-----------------------------------------------------------------------------
LEMMA InitHolds == Init => IInv
BY DEF Init, IInv, TypeOK, Rows, NoTask, CommittedIsSettled, EndedAttemptRests, Live,
       SeenIsDelivered, ReservedFirst, Undelivered

-----------------------------------------------------------------------------
(* Types                                                                   *)

Pcs == {"idle", "reserve", "start", "execute", "undoFail", "undoBlock", "fail", "block", "void",
        "wait", "defer", "settle"}

Tasks == [tries : Nat, seen : BOOLEAN]

RowTyped     == row \in Rows /\ (row.late => row.status = "leased")
WorkersTyped == pc \in [Workers -> Pcs] /\ task \in [Workers -> Tasks]
OthersTyped  ==
  /\ attempt \in {"starting", "dispatching", "running", "succeeded", "failed", "blocked",
                  "stale", "cancelled"}
  /\ latest \in BOOLEAN
  /\ run \in {"running", "blocked", "completion", "reconciliation", "cancelled"}
  /\ receipt \in [status : {"none", "reserved", "settled", "voided", "released"}, used : BOOLEAN]
  /\ turn \in {"none", "live", "done"}
  /\ delivery \in {"none", "pending", "delivered", "failed"}

LEMMA TypeParts == TypeOK <=> RowTyped /\ WorkersTyped /\ OthersTyped
BY DEF TypeOK, RowTyped, WorkersTyped, OthersTyped, Pcs, Tasks

LEMMA GoesTypes ==
  ASSUME TypeOK, NEW w \in Workers, NEW to \in Pcs, Goes(w, to)
  PROVE  WorkersTyped'
BY DEF TypeOK, Goes, NoTask, Pcs, WorkersTyped, Tasks

LEMMA RowTypes ==
  ASSUME TypeOK
  PROVE  /\ \A s \in {"succeeded", "failed", "pending"},
               p \in {"none", "completion", "exhausted", "other"} :
              Settled(s, p) \in Rows /\ Settled(s, p).late = FALSE
         /\ \A r \in Rows : Reset(r) \in Rows /\ Reset(r).late = r.late
         /\ Claimed \in Rows /\ Claimed.late = FALSE
         /\ Rearmed \in Rows
<1>1. row \in Rows
  BY DEF TypeOK
<1>2. ASSUME NEW s \in {"succeeded", "failed", "pending"},
             NEW p \in {"none", "completion", "exhausted", "other"}
      PROVE  Settled(s, p) \in Rows /\ Settled(s, p).late = FALSE
  BY <1>1 DEF Settled, Rows
<1>3. ASSUME NEW r \in Rows
      PROVE  Reset(r) \in Rows /\ Reset(r).late = r.late
  BY DEF Reset, Rows
<1>4. Claimed \in Rows /\ Claimed.late = FALSE
  <2> DEFINE a == IF row.status = "pending" THEN row.attempts + 1 ELSE row.attempts
             r == IF row.status = "leased" THEN row.recoveries + 1 ELSE row.recoveries
  <2>1. a \in Nat /\ r \in Nat
    BY <1>1 DEF Rows
  <2>2. Claimed = [row EXCEPT !.status = "leased", !.late = FALSE, !.attempts = a, !.recoveries = r]
    BY DEF Claimed
  <2> HIDE DEF a, r
  <2> QED
    BY <1>1, <2>1, <2>2 DEF Rows
<1>5. Rearmed \in Rows
  BY <1>1 DEF Rearmed, Rows
<1> QED
  BY <1>2, <1>3, <1>4, <1>5

LEMMA RowStep == TypeOK /\ [Next]_vars => RowTyped'
<1> SUFFICES ASSUME TypeOK, [Next]_vars PROVE RowTyped'
  OBVIOUS
<1>1. RowTyped
  BY TypeParts
<1>2. ASSUME row' = row PROVE RowTyped'
  BY <1>1, <1>2 DEF RowTyped
<1>3. ASSUME NEW s \in {"succeeded", "failed", "pending"},
             NEW p \in {"none", "completion", "exhausted", "other"}, row' = Settled(s, p)
      PROVE  RowTyped'
  BY <1>3, RowTypes DEF RowTyped
<1>4. ASSUME NEW w \in Workers, Claims(w) PROVE RowTyped'
  <2>1. row' = Settled("failed", "exhausted") \/ row' = Claimed
    BY <1>4 DEF Claims
  <2> QED
    BY <1>3, <2>1, RowTypes DEF RowTyped
<1>5. ASSUME NEW w \in Workers, Waits(w) \/ Defers(w) PROVE RowTyped'
  <2> DEFINE s(p) == Settled("pending", p)
  <2>1. \A p \in {"completion", "other"} :
          s(p) \in Rows /\ s(p).late = FALSE /\ Reset(s(p)) \in Rows /\ Reset(s(p)).late = FALSE
    BY RowTypes
  <2>2. \/ row' \in {row, Settled("failed", "completion"), Reset(s("other"))}
        \/ row' = [Reset(s("completion")) EXCEPT !.seen = (delivery = "delivered")]
    BY <1>5 DEF Waits, Defers, Requeued
  <2> HIDE DEF s
  <2> QED
    BY <1>2, <1>3, <2>1, <2>2 DEF RowTyped, Rows
<1>6. CASE Lapses \/ Crowds
  BY <1>1, <1>6 DEF Lapses, Crowds, Exhausted, RowTyped, Rows
<1>7. CASE Delivers \/ Redrives
  <2>1. row' = row \/ (row' = Rearmed /\ row.status # "leased")
    BY <1>7 DEF Delivers, Redrives, WaitsForReceipt
  <2>2. Rearmed.late = row.late
    BY <1>1 DEF Rearmed, RowTyped, Rows
  <2> QED
    BY <1>1, <1>2, <2>1, <2>2, RowTypes DEF RowTyped
<1>8. ASSUME NEW w \in Workers,
             \/ Reserves(w) \/ StartsTurn(w) \/ Executes(w) \/ LosesLease(w) \/ Leaves(w)
             \/ Voids(w) \/ SettlesDomain(w)
      PROVE  RowTyped'
  BY <1>2, <1>8 DEF Reserves, StartsTurn, Executes, LosesLease, Leaves, Voids, SettlesDomain, ledger
<1>9. ASSUME NEW w \in Workers, Fails(w) \/ Blocks(w) \/ Requeues(w) \/ Commits(w)
      PROVE  RowTyped'
  BY <1>2, <1>3, <1>9 DEF Fails, Blocks, Requeues, Commits, Ends, EndsNothing, Requeued
<1>10. CASE Dispatches
  BY <1>2, <1>3, <1>10 DEF Dispatches, Dispatched, Requeued
<1>11. CASE \/ TurnEnds \/ Records \/ DeliveryFails \/ Repairs \/ Retries \/ CancelsNode
            \/ CancelsRun \/ CleansUp \/ Reconciles \/ UNCHANGED vars
  BY <1>2, <1>11 DEF TurnEnds, Records, DeliveryFails, Repairs, Retries, CancelsNode, CancelsRun,
     CleansUp, Reconciles, vars, ledger
<1> QED
  BY <1>4, <1>5, <1>6, <1>7, <1>8, <1>9, <1>10, <1>11 DEF Next, WorkerStep

LEMMA WorkersStep == TypeOK /\ [Next]_vars => WorkersTyped'
<1> SUFFICES ASSUME TypeOK, [Next]_vars PROVE WorkersTyped'
  OBVIOUS
<1>1. WorkersTyped
  BY TypeParts
<1>2. ASSUME NEW w \in Workers, NEW to \in Pcs, Goes(w, to) PROVE WorkersTyped'
  BY <1>2, GoesTypes
<1>3. ASSUME NEW w \in Workers, Claims(w) PROVE WorkersTyped'
  <2>1. CASE OverGate(row)
    BY <1>1, <1>3, <2>1 DEF Claims, worker, WorkersTyped
  <2>2. CASE ~OverGate(row)
    <3>1. row'.attempts \in Nat /\ row.seen \in BOOLEAN
      BY RowStep, TypeParts DEF RowTyped, Rows
    <3>2. PICK to \in Pcs : pc' = [pc EXCEPT ![w] = to]
      BY <1>3, <2>2 DEF Claims, Pcs
    <3>3. task' = [task EXCEPT ![w] = [tries |-> row'.attempts, seen |-> row.seen]]
      BY <1>3, <2>2 DEF Claims
    <3> QED
      BY <1>1, <3>1, <3>2, <3>3 DEF WorkersTyped, Tasks
  <2> QED
    BY <2>1, <2>2
<1>4. ASSUME NEW w \in Workers, Claims(w) \/ WorkerStep(w) \/ LosesLease(w) \/ Leaves(w)
      PROVE  WorkersTyped'
  BY <1>2, <1>3, <1>4 DEF WorkerStep, Reserves, StartsTurn, Executes, Voids, Fails, Blocks,
     Requeues, Waits, Defers, Commits, SettlesDomain, LosesLease, Leaves, Pcs
<1>5. ASSUME UNCHANGED worker PROVE WorkersTyped'
  BY <1>1, <1>5 DEF worker, WorkersTyped
<1>6. CASE \/ Lapses \/ TurnEnds \/ Records \/ Delivers \/ DeliveryFails \/ Crowds \/ Repairs
           \/ Redrives \/ Dispatches \/ Retries \/ CancelsNode \/ CancelsRun \/ CleansUp
           \/ Reconciles \/ UNCHANGED vars
  BY <1>5, <1>6 DEF Lapses, TurnEnds, Records, Delivers, DeliveryFails, Crowds, Repairs, Redrives,
     Dispatches, Retries, CancelsNode, CancelsRun, CleansUp, Reconciles, vars, worker
<1> QED
  BY <1>4, <1>6 DEF Next

LEMMA OthersStep == TypeOK /\ [Next]_vars => OthersTyped'
<1> SUFFICES ASSUME TypeOK, [Next]_vars PROVE OthersTyped'
  OBVIOUS
<1>1. OthersTyped
  BY TypeParts
<1>2. ASSUME NEW w \in Workers, WorkerStep(w) \/ LosesLease(w) \/ Leaves(w)
      PROVE  OthersTyped'
  <2>1. CASE Claims(w) \/ Reserves(w) \/ StartsTurn(w) \/ Executes(w) \/ LosesLease(w) \/ Leaves(w)
    BY <1>1, <2>1 DEF OthersTyped, Claims, Reserves, StartsTurn, Executes, LosesLease, Leaves, ledger
  <2>2. CASE Voids(w) \/ Fails(w) \/ Blocks(w) \/ Requeues(w) \/ Waits(w)
    BY <1>1, <2>2 DEF OthersTyped, Voids, Voided, Fails, Blocks, Ends, EndsNothing, Blocked,
       Requeues, Waits
  <2>3. CASE Defers(w)
    <3>1. receipt' \in {receipt, Closed("voided")} /\ run' \in {run, Blocked("completion")}
      BY <2>3 DEF Defers
    <3> QED
      BY <1>1, <2>3, <3>1 DEF OthersTyped, Defers, Closed, Blocked
  <2>4. CASE Commits(w)
    <3>1. /\ attempt' \in {attempt, "succeeded"}
          /\ receipt' = receipt \/ receipt' = [status |-> "settled", used |-> TRUE]
          /\ UNCHANGED <<latest, run, turn, delivery>>
      BY <2>4 DEF Commits
    <3>2. [status |-> "settled", used |-> TRUE]
            \in [status : {"none", "reserved", "settled", "voided", "released"}, used : BOOLEAN]
      OBVIOUS
    <3>3. receipt' \in [status : {"none", "reserved", "settled", "voided", "released"},
                        used : BOOLEAN]
      BY <1>1, <3>1, <3>2, Zenon DEF OthersTyped
    <3> QED
      BY <1>1, <3>1, <3>3 DEF OthersTyped
  <2>5. CASE SettlesDomain(w)
    BY <1>1, <2>5 DEF OthersTyped, SettlesDomain
  <2> QED
    BY <1>2, <2>1, <2>2, <2>3, <2>4, <2>5 DEF WorkerStep
<1>3. CASE \/ Lapses \/ TurnEnds \/ Records \/ Delivers \/ DeliveryFails \/ Crowds \/ Repairs
           \/ Redrives
  <2>1. CASE Lapses \/ TurnEnds \/ DeliveryFails \/ Crowds
    BY <1>1, <2>1 DEF OthersTyped, Lapses, TurnEnds, DeliveryFails, Crowds, ledger
  <2>2. CASE Records
    BY <1>1, <2>2 DEF OthersTyped, Records
  <2>3. CASE Delivers \/ Redrives
    BY <1>1, <2>3 DEF OthersTyped, Delivers, Redrives
  <2>4. CASE Repairs
    BY <1>1, <2>4 DEF OthersTyped, Repairs, Blocked
  <2> QED
    BY <1>3, <2>1, <2>2, <2>3, <2>4
<1>4. CASE Dispatches \/ Retries \/ CancelsNode \/ CancelsRun \/ CleansUp \/ Reconciles
  BY <1>1, <1>4 DEF OthersTyped, Dispatches, Retries, CancelsNode, CancelsRun, CleansUp,
     Reconciles, Closed
<1>5. CASE UNCHANGED vars
  BY <1>1, <1>5 DEF OthersTyped, vars, ledger
<1> QED
  BY <1>2, <1>3, <1>4, <1>5 DEF Next

LEMMA TypeStep == TypeOK /\ [Next]_vars => TypeOK'
BY RowStep, WorkersStep, OthersStep DEF TypeOK, RowTyped, WorkersTyped, OthersTyped, Pcs, Tasks

-----------------------------------------------------------------------------
(* Receipts                                                                *)

(* A terminal receipt keeps its status, and none appears from nowhere.     *)
LEMMA ReceiptStep ==
  ASSUME TypeOK, [Next]_vars
  PROVE  /\ receipt.status \in Final => receipt'.status = receipt.status
         /\ receipt.status # "none" => receipt'.status # "none"
<1>1. receipt \in [status : {"none", "reserved", "settled", "voided", "released"}, used : BOOLEAN]
  BY DEF TypeOK
<1>2. \/ receipt' = receipt
      \/ \E u \in {"voided", "released"} : receipt' = Closed(u)
      \/ receipt' = Voided
      \/ receipt' = [receipt EXCEPT !.status = IF @ = "none" THEN "reserved" ELSE @]
      \/ receipt' = [receipt EXCEPT !.used = TRUE]
      \/ receipt.status \in {"reserved", "settled"} /\ receipt' = [status |-> "settled", used |-> TRUE]
  BY DEF Next, WorkerStep, Claims, Reserves, StartsTurn, Executes, Voids, Fails, Blocks, Requeues,
     Waits, Defers, Commits, SettlesDomain, LosesLease, Leaves, Lapses, TurnEnds, Records,
     Delivers, DeliveryFails, Crowds, Repairs, Redrives, Dispatches, Retries, CancelsNode, CancelsRun,
     CleansUp, Reconciles, vars, ledger
<1> QED
  BY <1>1, <1>2 DEF Closed, Voided, Final

-----------------------------------------------------------------------------
(* The row                                                                 *)

EndedStatuses == {"succeeded", "failed", "blocked", "stale"}

(* An action becomes live only where the attempt is active.                *)
LEMMA LiveStep ==
  ASSUME TypeOK, [Next]_vars, Live(row')
  PROVE  Live(row) \/ (Active /\ attempt' \in {"starting", "dispatching", "running"})
<1>1. row \in Rows
  BY DEF TypeOK
<1>2. CASE Delivers \/ Redrives
  BY <1>2 DEF Delivers, Redrives, WaitsForReceipt, Active
<1>3. CASE Dispatches
  BY <1>3 DEF Dispatches, Active
<1>4. ASSUME NEW w \in Workers, Claims(w) PROVE Live(row)
  BY <1>4 DEF Claims, Claimable, Live
<1>5. ASSUME NEW w \in Workers, Fails(w) \/ Blocks(w) \/ Requeues(w) \/ Waits(w) \/ Defers(w) \/ Commits(w)
      PROVE  Live(row)
  <2>1. row' = row \/ Touches
    BY <1>5 DEF Fails, Blocks, Ends, EndsNothing, Requeues, Waits, Defers, Commits
  <2> QED
    BY <2>1 DEF Touches, Live
<1>6. CASE Lapses \/ Crowds
  BY <1>1, <1>6 DEF Lapses, Crowds, Live, Rows
<1>7. ASSUME row' = row PROVE Live(row)
  BY <1>7
<1>8. CASE \/ TurnEnds \/ Records \/ DeliveryFails \/ Repairs \/ Retries \/ CancelsNode
           \/ CancelsRun \/ CleansUp \/ Reconciles \/ UNCHANGED vars
           \/ \E w \in Workers : \/ Reserves(w) \/ StartsTurn(w) \/ Executes(w) \/ LosesLease(w)
                               \/ Leaves(w) \/ Voids(w) \/ SettlesDomain(w)
  BY <1>7, <1>8 DEF TurnEnds, Records, DeliveryFails, Repairs, Retries, CancelsNode, CancelsRun,
     CleansUp, Reconciles, vars, ledger, Reserves, StartsTurn, Executes, LosesLease, Leaves,
     Voids, SettlesDomain
<1> QED
  BY <1>2, <1>3, <1>4, <1>5, <1>6, <1>8 DEF Next, WorkerStep

(* An attempt ends together with its action, or after it.                  *)
LEMMA EndStep ==
  ASSUME TypeOK, [Next]_vars, attempt' \in EndedStatuses, attempt \notin EndedStatuses
  PROVE  ~Live(row')
<1>1. row \in Rows
  BY DEF TypeOK
<1>2. \A s \in {"failed", "succeeded"}, p \in {"other", "none"} : Settled(s, p).status = s
  BY <1>1 DEF Settled, Rows
<1>3. ASSUME NEW w \in Workers, Fails(w) \/ Blocks(w) PROVE ~Live(row')
  BY <1>2, <1>3 DEF Fails, Blocks, Ends, EndsNothing, Live
<1>4. ASSUME NEW w \in Workers, Commits(w) PROVE ~Live(row')
  BY <1>2, <1>4 DEF Commits, Live
<1>5. ASSUME NEW w \in Workers, StartsTurn(w) PROVE FALSE
  BY <1>5 DEF StartsTurn, EndedStatuses
<1>6. CASE Repairs
  BY <1>6 DEF Repairs, Exhausted, Live
<1>7. CASE Reconciles
  BY <1>7 DEF Reconciles, Zombie
<1>8. CASE Dispatches \/ Retries \/ CancelsNode
  BY <1>8 DEF Dispatches, Retries, CancelsNode, EndedStatuses
<1>9. CASE \/ Lapses \/ TurnEnds \/ Records \/ Delivers \/ DeliveryFails \/ Crowds \/ Redrives
           \/ CancelsRun \/ CleansUp \/ UNCHANGED vars
           \/ \E w \in Workers : \/ Claims(w) \/ Reserves(w) \/ Executes(w) \/ LosesLease(w)
                               \/ Leaves(w) \/ Voids(w) \/ Requeues(w) \/ Waits(w)
                               \/ Defers(w) \/ SettlesDomain(w)
  BY <1>9 DEF Lapses, TurnEnds, Records, Delivers, DeliveryFails, Crowds, Redrives, CancelsRun,
     CleansUp, vars, ledger, Claims, Reserves, Executes, LosesLease, Leaves, Voids, Requeues, Waits, Defers,
     SettlesDomain
<1> QED
  BY <1>3, <1>4, <1>5, <1>6, <1>7, <1>8, <1>9 DEF Next, WorkerStep

LEMMA EndedStep == TypeOK /\ EndedAttemptRests /\ [Next]_vars => EndedAttemptRests'
BY LiveStep, EndStep DEF EndedAttemptRests, EndedStatuses, Active

-----------------------------------------------------------------------------
(* The commit                                                              *)

(* What a commit has written stays: nobody finds the action live, the      *)
(* receipt reserved, or the attempt active or in need of a retry.          *)
LEMMA CommitStays ==
  ASSUME TypeOK, CommittedIsSettled, EndedAttemptRests, [Next]_vars, attempt = "succeeded"
  PROVE  UNCHANGED <<row, attempt, receipt>>
<1>1. /\ row.status = "succeeded" /\ receipt.status = "settled" /\ ~Live(row) /\ ~Active
      /\ receipt \in [status : {"none", "reserved", "settled", "voided", "released"}, used : BOOLEAN]
  BY DEF CommittedIsSettled, TypeOK, Live, Active
<1>2. ASSUME NEW w \in Workers, WorkerStep(w) \/ LosesLease(w) \/ Leaves(w)
      PROVE  UNCHANGED <<row, attempt, receipt>>
  BY <1>1, <1>2 DEF WorkerStep, Claims, Claimable, Live, Reserves, StartsTurn, Executes, Voids,
     Voided, Fails, Blocks, Ends, EndsNothing, Requeues, Waits, Defers, Touches, Commits,
     SettlesDomain, LosesLease, Leaves, ledger
<1>3. CASE \/ Lapses \/ TurnEnds \/ Records \/ Delivers \/ DeliveryFails \/ Crowds \/ Repairs
           \/ Redrives \/ Dispatches \/ Retries \/ CancelsNode \/ CancelsRun \/ CleansUp
           \/ UNCHANGED vars
  BY <1>1, <1>3 DEF Lapses, TurnEnds, Records, Delivers, DeliveryFails, WaitsForReceipt, Crowds,
     Exhausted, Repairs, Redrives, Dispatches, Retries, CancelsNode, CancelsRun, CleansUp, vars, ledger
<1>4. CASE Reconciles
  BY <1>1, <1>4 DEF Reconciles, Zombie
<1> QED
  BY <1>2, <1>3, <1>4 DEF Next

(* Only the commit lets an attempt, or its action, succeed.                *)
LEMMA OnlyCommitsSucceed ==
  ASSUME TypeOK, [Next]_vars, attempt # "succeeded", row.status # "succeeded",
         attempt' = "succeeded" \/ row'.status = "succeeded"
  PROVE  \E w \in Workers : Commits(w)
<1>1. row \in Rows
  BY DEF TypeOK
<1>2. CASE attempt' = "succeeded"
  BY <1>2 DEF Next, WorkerStep, Claims, Reserves, StartsTurn, Executes, Voids, Fails, Blocks,
     Ends, EndsNothing, Requeues, Waits, Defers, SettlesDomain, LosesLease, Leaves, Lapses,
     TurnEnds, Records, Delivers, DeliveryFails, Crowds, Repairs, Redrives, Dispatches, Retries,
     CancelsNode, CancelsRun, CleansUp, Reconciles, vars, ledger
<1>3. CASE row'.status = "succeeded"
  <2>1. /\ Claimed.status = "leased" /\ Rearmed.status = "pending"
        /\ \A s \in {"failed", "pending"} : \A p :
             Settled(s, p).status = s /\ Reset(Settled(s, p)).status = s
        /\ [Reset(Settled("pending", "completion")) EXCEPT !.seen = (delivery = "delivered")].status
              = "pending"
        /\ [row EXCEPT !.late = TRUE].status = row.status
        /\ [row EXCEPT !.behind = ~row.behind].status = row.status
    BY <1>1 DEF Claimed, Rearmed, Settled, Reset, Rows
  <2>2. ~Lapses /\ ~Crowds /\ ~Delivers /\ ~Redrives /\ ~Dispatches
    BY <1>3, <2>1 DEF Lapses, Crowds, Delivers, Redrives, Dispatches, Dispatched, Requeued
  <2>3. \A w \in Workers : ~Claims(w)
    BY <1>3, <2>1 DEF Claims
  <2>4. \A w \in Workers : ~Fails(w) /\ ~Blocks(w) /\ ~Requeues(w) /\ ~Waits(w) /\ ~Defers(w)
    BY <1>3, <2>1 DEF Fails, Blocks, Ends, EndsNothing, Requeues, Waits, Defers, Requeued
  <2> QED
    BY <1>3, <2>2, <2>3, <2>4 DEF Next, WorkerStep, Reserves, StartsTurn, Executes, Voids,
       SettlesDomain, LosesLease, Leaves, TurnEnds, Records, DeliveryFails, Repairs, Retries,
       CancelsNode, CancelsRun, CleansUp, Reconciles, vars, ledger
<1> QED
  BY <1>2, <1>3

(* A commit writes all three, or nothing.                                  *)
LEMMA CommitsWhole ==
  ASSUME TypeOK, CommittedIsSettled, attempt # "succeeded", NEW w \in Workers, Commits(w)
  PROVE  CommittedIsSettled'
<1>1. row \in Rows
  BY DEF TypeOK
<1>2. CASE UNCHANGED <<row, attempt, receipt>>
  BY <1>2 DEF CommittedIsSettled
<1>3. CASE /\ row' = Settled("succeeded", "none") /\ attempt' = "succeeded"
           /\ receipt' = [status |-> "settled", used |-> TRUE]
  <2>1. row'.status = "succeeded"
    BY <1>1, <1>3 DEF Settled, Rows
  <2> QED
    BY <1>3, <2>1 DEF CommittedIsSettled
<1> QED
  BY <1>2, <1>3 DEF Commits

LEMMA CommittedStep ==
  TypeOK /\ CommittedIsSettled /\ EndedAttemptRests /\ [Next]_vars => CommittedIsSettled'
<1> SUFFICES ASSUME TypeOK, CommittedIsSettled, EndedAttemptRests, [Next]_vars
             PROVE  CommittedIsSettled'
  OBVIOUS
<1>1. CASE attempt = "succeeded"
  BY <1>1, CommitStays DEF CommittedIsSettled
<1>2. CASE attempt # "succeeded" /\ \E w \in Workers : Commits(w)
  BY <1>2, CommitsWhole
<1>3. CASE attempt # "succeeded" /\ ~\E w \in Workers : Commits(w)
  <2>1. row.status # "succeeded"
    BY <1>3 DEF CommittedIsSettled
  <2>2. attempt' # "succeeded" /\ row'.status # "succeeded"
    BY <1>3, <2>1, OnlyCommitsSucceed
  <2> QED
    BY <2>2 DEF CommittedIsSettled
<1> QED
  BY <1>1, <1>2, <1>3

-----------------------------------------------------------------------------
(* The workers                                                             *)

Turned == {"start", "execute", "defer"}

(* Where a worker may be next, and what it takes along.                    *)
LEMMA WorkerMoves ==
  ASSUME TypeOK, [Next]_vars, NEW v \in Workers
  PROVE  /\ task'[v].seen => task[v].seen \/ row.seen
         /\ pc'[v] = "defer" => /\ task'[v] = task[v]
                                /\ pc[v] = "defer" \/ delivery # "delivered"
         /\ pc'[v] \in Turned =>
              pc[v] \in Turned \/ receipt'.status # "none" \/ row.problem = "completion"
<1> DEFINE Moves ==
      /\ task'[v].seen => task[v].seen \/ row.seen
      /\ pc'[v] = "defer" => task'[v] = task[v] /\ (pc[v] = "defer" \/ delivery # "delivered")
      /\ pc'[v] \in Turned =>
           pc[v] \in Turned \/ receipt'.status # "none" \/ row.problem = "completion"
<1> SUFFICES Moves
  OBVIOUS
<1>1. /\ pc \in [Workers -> Pcs] /\ task \in [Workers -> Tasks]
      /\ pc' \in [Workers -> Pcs] /\ task' \in [Workers -> Tasks]
      /\ receipt \in [status : {"none", "reserved", "settled", "voided", "released"}, used : BOOLEAN]
  BY WorkersStep DEF WorkersTyped, TypeOK, Pcs, Tasks
<1>2. ASSUME UNCHANGED worker PROVE Moves
  BY <1>2 DEF worker
<1>3. ASSUME NEW w \in Workers, NEW to \in Pcs, Goes(w, to),
             to = "defer" => delivery # "delivered",
             to \in Turned => pc[w] \in Turned \/ receipt'.status # "none"
      PROVE  Moves
  <2>1. pc' = [pc EXCEPT ![w] = to]
    BY <1>3 DEF Goes
  <2>2. CASE v # w
    <3>1. pc'[v] = pc[v] /\ task'[v] = task[v]
      BY <1>1, <1>3, <2>1, <2>2 DEF Goes
    <3> QED
      BY <3>1
  <2>3. CASE v = w
    <3>1. pc'[v] = to
      BY <1>1, <2>1, <2>3
    <3>2. IF to = "idle" THEN task'[v] = NoTask ELSE task'[v] = task[v]
      BY <1>1, <1>3, <2>3 DEF Goes
    <3> QED
      BY <1>3, <2>3, <3>1, <3>2 DEF NoTask, Turned
  <2> QED
    BY <2>2, <2>3
<1>4. ASSUME NEW w \in Workers, Claims(w) PROVE Moves
  <2>1. CASE OverGate(row)
    BY <1>2, <1>4, <2>1 DEF Claims
  <2>2. CASE ~OverGate(row)
    <3> DEFINE t == [tries |-> row'.attempts, seen |-> row.seen]
    <3>1. task' = [task EXCEPT ![w] = t] /\ t.seen = row.seen
      BY <1>4, <2>2 DEF Claims
    <3>2. PICK to \in {"fail", "block", IF row.problem = "completion" THEN "execute" ELSE "reserve"} :
            pc' = [pc EXCEPT ![w] = to]
      BY <1>4, <2>2 DEF Claims
    <3> HIDE DEF t
    <3>3. CASE v # w
      BY <1>1, <3>1, <3>2, <3>3
    <3>4. CASE v = w
      <4>1. pc'[v] = to /\ task'[v] = t
        BY <1>1, <3>1, <3>2, <3>4
      <4> QED
        BY <3>1, <3>2, <4>1 DEF Turned
    <3> QED
      BY <3>3, <3>4
  <2> QED
    BY <2>1, <2>2
<1>5. ASSUME NEW w \in Workers, Reserves(w) PROVE Moves
  <2>1. CASE Goes(w, "undoFail")
    BY <1>3, <2>1 DEF Pcs, Turned
  <2>2. CASE Goes(w, "start") /\ receipt' = [receipt EXCEPT !.status = IF @ = "none" THEN "reserved" ELSE @]
    <3>1. receipt'.status # "none"
      BY <1>1, <2>2
    <3> QED
      BY <1>3, <2>2, <3>1 DEF Pcs
  <2> QED
    BY <1>5, <2>1, <2>2 DEF Reserves
<1>6. ASSUME NEW w \in Workers, StartsTurn(w) \/ Executes(w) PROVE Moves
  BY <1>3, <1>6 DEF StartsTurn, Executes, Pcs, Turned
<1>7. ASSUME NEW w \in Workers,
             \/ Voids(w) \/ Fails(w) \/ Blocks(w) \/ Requeues(w) \/ Waits(w) \/ Defers(w)
             \/ Commits(w) \/ SettlesDomain(w) \/ LosesLease(w) \/ Leaves(w)
      PROVE  Moves
  <2>1. \E to \in {"idle", "void", "fail", "block", "settle"} : Goes(w, to)
    BY <1>7 DEF Voids, Fails, Blocks, Requeues, Waits, Defers, Commits, SettlesDomain, LosesLease,
       Leaves
  <2> QED
    BY <1>3, <2>1 DEF Pcs, Turned
<1>8. CASE \/ Lapses \/ TurnEnds \/ Records \/ Delivers \/ DeliveryFails \/ Crowds \/ Repairs
           \/ Redrives \/ Dispatches \/ Retries \/ CancelsNode \/ CancelsRun \/ CleansUp
           \/ Reconciles \/ UNCHANGED vars
  BY <1>2, <1>8 DEF Lapses, TurnEnds, Records, Delivers, DeliveryFails, Crowds, Repairs, Redrives,
     Dispatches, Retries, CancelsNode, CancelsRun, CleansUp, Reconciles, vars, worker
<1> QED
  BY <1>4, <1>5, <1>6, <1>7, <1>8 DEF Next, WorkerStep

(* Only a deferral leaves an action to wait for a receipt, and only one    *)
(* that saw a delivery says so.                                            *)
LEMMA RowMoves ==
  ASSUME TypeOK, [Next]_vars
  PROVE  \/ \E w \in Workers : Defers(w)
         \/ /\ row'.seen => row.seen
            /\ row'.problem = "completion" => row.problem = "completion"
            /\ row'.status = "failed" /\ row'.problem = "completion" => row.status = "failed"
<1> DEFINE Kept == /\ row'.seen => row.seen
                   /\ row'.problem = "completion" => row.problem = "completion"
                   /\ row'.status = "failed" /\ row'.problem = "completion" => row.status = "failed"
<1>1. row \in Rows
  BY DEF TypeOK
<1>2. ASSUME row' = row PROVE Kept
  BY <1>2
<1>3. ASSUME NEW s \in {"succeeded", "failed", "pending"}, NEW p \in {"none", "exhausted", "other"},
             row' = Settled(s, p) \/ row' = Reset(Settled(s, p))
      PROVE  Kept
  BY <1>1, <1>3 DEF Settled, Reset, Rows
<1>4. ASSUME \/ row' \in {Claimed, Rearmed, [row EXCEPT !.late = TRUE]}
             \/ row' = [row EXCEPT !.behind = ~row.behind]
      PROVE  Kept
  BY <1>1, <1>4 DEF Claimed, Rearmed, Rows
<1>5. ASSUME NEW w \in Workers,
             \/ Claims(w) \/ Fails(w) \/ Blocks(w) \/ Requeues(w) \/ Waits(w) \/ Commits(w)
      PROVE  Kept
  <2>1. \/ row' = row \/ row' = Claimed
        \/ \E s \in {"succeeded", "failed", "pending"}, p \in {"none", "exhausted", "other"} :
             row' = Settled(s, p) \/ row' = Reset(Settled(s, p))
    BY <1>5 DEF Claims, Fails, Blocks, Ends, EndsNothing, Requeues, Waits, Commits, Requeued
  <2> QED
    BY <1>2, <1>3, <1>4, <2>1
<1>6. ASSUME NEW w \in Workers,
             \/ Reserves(w) \/ StartsTurn(w) \/ Executes(w) \/ LosesLease(w) \/ Leaves(w)
             \/ Voids(w) \/ SettlesDomain(w)
      PROVE  Kept
  BY <1>2, <1>6 DEF Reserves, StartsTurn, Executes, LosesLease, Leaves, Voids, SettlesDomain, ledger
<1>7. CASE Lapses \/ Crowds \/ Delivers \/ Redrives
  BY <1>2, <1>4, <1>7 DEF Lapses, Crowds, Delivers, Redrives
<1>8. CASE Dispatches
  BY <1>2, <1>3, <1>8 DEF Dispatches, Dispatched, Requeued
<1>9. CASE \/ TurnEnds \/ Records \/ DeliveryFails \/ Repairs \/ Retries \/ CancelsNode
           \/ CancelsRun \/ CleansUp \/ Reconciles \/ UNCHANGED vars
  BY <1>2, <1>9 DEF TurnEnds, Records, DeliveryFails, Repairs, Retries, CancelsNode, CancelsRun,
     CleansUp, Reconciles, vars, ledger
<1> QED
  BY <1>5, <1>6, <1>7, <1>8, <1>9 DEF Next, WorkerStep

LEMMA Delivered == [Next]_vars /\ delivery = "delivered" => delivery' = "delivered"
BY DEF Next, WorkerStep, Claims, Reserves, StartsTurn, Executes, Voids, Fails, Blocks, Requeues,
   Waits, Defers, Commits, SettlesDomain, LosesLease, Leaves, Lapses, TurnEnds, Records,
   Delivers, DeliveryFails, Crowds, Repairs, Redrives, Dispatches, Retries, CancelsNode, CancelsRun,
   CleansUp, Reconciles, vars

(* What a deferral does to the action, and when it gives it up.            *)
LEMMA DeferMoves ==
  ASSUME TypeOK, NEW w \in Workers, Defers(w)
  PROVE  /\ row'.seen => row.seen \/ delivery = "delivered"
         /\ pc[w] = "defer" /\ UNCHANGED delivery
         /\ row'.status = "failed" /\ row'.problem = "completion" =>
              \/ row.status = "failed" /\ row.problem = "completion" /\ receipt' = receipt
              \/ ~Awaits(w) /\ receipt' = Closed("voided")
<1>1. row \in Rows
  BY DEF TypeOK
<1>2. CASE row' = row /\ receipt' = receipt
  BY <1>2 DEF Defers
<1>3. CASE row' = [Reset(Requeued("completion")) EXCEPT !.seen = (delivery = "delivered")]
  BY <1>1, <1>3 DEF Defers, Reset, Requeued, Settled, Rows
<1>4. CASE row' = Settled("failed", "completion") /\ ~Awaits(w) /\ receipt' = Closed("voided")
  BY <1>1, <1>4 DEF Defers, Settled, Rows
<1> QED
  BY <1>2, <1>3, <1>4 DEF Defers

-----------------------------------------------------------------------------
LEMMA SeenStep == TypeOK /\ SeenIsDelivered /\ [Next]_vars => SeenIsDelivered'
<1> SUFFICES ASSUME TypeOK, SeenIsDelivered, [Next]_vars PROVE SeenIsDelivered'
  OBVIOUS
<1>1. row'.seen => delivery' = "delivered"
  BY RowMoves, DeferMoves, Delivered DEF SeenIsDelivered
<1>2. ASSUME NEW v \in Workers
      PROVE  /\ task'[v].seen => delivery' = "delivered"
             /\ pc'[v] = "defer" => ~task'[v].seen
  BY WorkerMoves, Delivered DEF SeenIsDelivered
<1> QED
  BY <1>1, <1>2 DEF SeenIsDelivered

LEMMA ReservedStep == TypeOK /\ ReservedFirst /\ [Next]_vars => ReservedFirst'
<1> SUFFICES ASSUME TypeOK, ReservedFirst, [Next]_vars PROVE ReservedFirst'
  OBVIOUS
<1>1. row'.problem = "completion" => receipt'.status # "none"
  BY RowMoves, DeferMoves, ReceiptStep DEF ReservedFirst
<1>2. ASSUME NEW v \in Workers, pc'[v] \in Turned PROVE receipt'.status # "none"
  BY <1>2, WorkerMoves, ReceiptStep DEF ReservedFirst, Turned
<1> QED
  BY <1>1, <1>2 DEF ReservedFirst, Turned

LEMMA UndeliveredStep == IInv /\ [Next]_vars => Undelivered'
<1> SUFFICES ASSUME IInv, [Next]_vars, row'.status = "failed", row'.problem = "completion"
             PROVE  delivery' \in {"none", "failed"} /\ receipt'.status \in Final
  BY DEF Undelivered
<1>1. /\ TypeOK /\ SeenIsDelivered /\ ReservedFirst /\ Undelivered
      /\ receipt \in [status : {"none", "reserved", "settled", "voided", "released"}, used : BOOLEAN]
      /\ delivery \in {"none", "pending", "delivered", "failed"}
  BY DEF IInv, TypeOK
<1>2. CASE row.status = "failed" /\ row.problem = "completion"
  <2>1. delivery \in {"none", "failed"} /\ receipt.status \in Final
    BY <1>1, <1>2 DEF Undelivered
  <2>2. receipt'.status \in Final
    BY <1>1, <2>1, ReceiptStep
  <2>3. delivery' = delivery
    BY <2>1 DEF Final, Next, WorkerStep, Claims, Reserves, StartsTurn, Executes, Voids, Fails,
       Blocks, Requeues, Waits, Defers, Commits, SettlesDomain, LosesLease, Leaves, Lapses,
       TurnEnds, Records, Delivers, DeliveryFails, Crowds, Repairs, Redrives, Dispatches, Retries,
       CancelsNode, CancelsRun, CleansUp, Reconciles, vars
  <2> QED
    BY <2>1, <2>2, <2>3
<1>3. CASE ~(row.status = "failed" /\ row.problem = "completion")
  <2>1. PICK w \in Workers : Defers(w)
    BY <1>1, <1>3, RowMoves
  <2>2. /\ ~Awaits(w) /\ receipt' = Closed("voided") /\ delivery' = delivery
        /\ pc[w] = "defer"
    BY <1>1, <1>3, <2>1, DeferMoves
  <2>3. delivery \notin {"pending", "delivered"}
    BY <1>1, <2>2 DEF Awaits, SeenIsDelivered
  <2>4. receipt.status # "none"
    BY <1>1, <2>2 DEF ReservedFirst
  <2>5. receipt'.status \in Final
    BY <1>1, <2>2, <2>4 DEF Closed, Final
  <2> QED
    BY <1>1, <2>2, <2>3, <2>5
<1> QED
  BY <1>2, <1>3

-----------------------------------------------------------------------------
(* Every reachable state satisfies the inductive invariant.                *)
THEOREM Invariance == Spec => []IInv
<1>1. IInv /\ [Next]_vars => IInv'
  BY TypeStep, CommittedStep, EndedStep, SeenStep, ReservedStep, UndeliveredStep DEF IInv
<1> QED
  BY InitHolds, <1>1, PTL DEF Spec

(* Every variable keeps its type; only a leased action can be late.        *)
THEOREM TypeCorrect == Spec => []TypeOK
<1>1. IInv => TypeOK
  BY DEF IInv
<1> QED
  BY <1>1, Invariance, PTL

(* The attempt, its action and its receipt succeed together: none of them  *)
(* without the others, and no late worker, cancel or compensation takes    *)
(* one of them back (budget_authority_adapter.py:1294).                    *)
THEOREM CommittedCorrect == Spec => []CommittedIsSettled
<1>1. IInv => CommittedIsSettled
  BY DEF IInv
<1> QED
  BY <1>1, Invariance, PTL

(* No step writes a succeeded attempt, its action or its receipt.          *)
CommitIsFinal == [][attempt = "succeeded" => UNCHANGED <<row, attempt, receipt>>]_vars

(* What _commit_verified has committed is final: no late worker, repair,   *)
(* wake, sweep, second start dispatch or command writes it again.          *)
THEOREM CommitsAreFinal == Spec => CommitIsFinal
<1>1. IInv /\ [Next]_vars => (attempt = "succeeded" => UNCHANGED <<row, attempt, receipt>>)
  BY CommitStays DEF IInv
<1> QED
  BY <1>1, Invariance, PTL DEF Spec, CommitIsFinal

(* Nothing is dispatched for an attempt that has ended, however workers,   *)
(* repairs, wakes and a second start dispatch interleave                   *)
(* (graph_dispatch_worker.py:1783).                                        *)
THEOREM EndedCorrect == Spec => []EndedAttemptRests
<1>1. IInv => EndedAttemptRests
  BY DEF IInv
<1> QED
  BY <1>1, Invariance, PTL

(* A run does not wait for a receipt that was delivered between the read   *)
(* of the registry and the decision to wait (completion_dependency.py:79): *)
(* what waits has nothing that could still be delivered.                   *)
THEOREM DeliveryCorrect == Spec => []NoLostDelivery
<1>1. IInv => NoLostDelivery
  BY DEF IInv, Undelivered, NoLostDelivery, WaitsForReceipt
<1> QED
  BY <1>1, Invariance, PTL

-----------------------------------------------------------------------------
(* The redrive of an unrecorded turn                                       *)

(* Usage is recorded with the delivery of the turn's receipt, or by the    *)
(* commit; and a receipt is settled only when it has usage.                *)
UsedWhenRecorded ==
  /\ receipt.used => delivery # "none" \/ attempt = "succeeded"
  /\ receipt.status = "settled" => receipt.used

LEMMA UsedStep == IInv /\ UsedWhenRecorded /\ [Next]_vars => UsedWhenRecorded'
<1> SUFFICES ASSUME IInv, UsedWhenRecorded, [Next]_vars PROVE UsedWhenRecorded'
  OBVIOUS
<1>1. receipt \in [status : {"none", "reserved", "settled", "voided", "released"}, used : BOOLEAN]
  BY DEF IInv, TypeOK
<1>2. attempt = "succeeded" => attempt' = "succeeded"
  BY CommitStays DEF IInv
<1>3. delivery # "none" => delivery' # "none"
  BY DEF Next, WorkerStep, Claims, Reserves, StartsTurn, Executes, Voids, Fails, Blocks, Requeues,
     Waits, Defers, Commits, SettlesDomain, LosesLease, Leaves, Lapses, TurnEnds, Records,
     Delivers, DeliveryFails, Crowds, Repairs, Redrives, Dispatches, Retries, CancelsNode, CancelsRun,
     CleansUp, Reconciles, vars
<1>4. \/ receipt' = receipt
      \/ \E u \in {"voided", "released"} : receipt' = Closed(u)
      \/ receipt' = Voided
      \/ receipt' = [receipt EXCEPT !.status = IF @ = "none" THEN "reserved" ELSE @]
      \/ receipt.status = "reserved" /\ receipt' = [receipt EXCEPT !.used = TRUE]
           /\ delivery' = "pending"
      \/ receipt' = [status |-> "settled", used |-> TRUE] /\ attempt' = "succeeded"
  BY DEF Next, WorkerStep, Claims, Reserves, StartsTurn, Executes, Voids, Fails, Blocks, Requeues,
     Waits, Defers, Commits, SettlesDomain, LosesLease, Leaves, Lapses, TurnEnds, Records,
     Delivers, DeliveryFails, Crowds, Repairs, Redrives, Dispatches, Retries, CancelsNode, CancelsRun,
     CleansUp, Reconciles, vars, ledger
<1>5. CASE receipt'.used = receipt.used
           /\ (receipt'.status = "settled" => receipt.status = "settled" \/ receipt.used)
  BY <1>2, <1>3, <1>5 DEF UsedWhenRecorded
<1>6. CASE receipt' = [receipt EXCEPT !.used = TRUE] /\ delivery' = "pending"
  BY <1>1, <1>6 DEF UsedWhenRecorded
<1>7. CASE receipt' = [status |-> "settled", used |-> TRUE] /\ attempt' = "succeeded"
  BY <1>7 DEF UsedWhenRecorded
<1>8. \/ receipt'.used = receipt.used
           /\ (receipt'.status = "settled" => receipt.status = "settled" \/ receipt.used)
      \/ receipt' = [receipt EXCEPT !.used = TRUE] /\ delivery' = "pending"
      \/ receipt' = [status |-> "settled", used |-> TRUE] /\ attempt' = "succeeded"
  BY <1>1, <1>4 DEF Closed, Voided
<1> QED
  BY <1>5, <1>6, <1>7, <1>8

(* The case the sweep is made for: the dispatch has been failed for its    *)
(* receipt, and the process died before it persisted that receipt.         *)
Unrecorded == WaitsForReceipt({"failed"}) /\ delivery = "none"

ReceiptLost == receipt.status \in {"voided", "released"}

(* In that case no redrive, or anything else, ever lets the attempt        *)
(* succeed: the deferral has voided the reservation, which the ordinary    *)
(* commit cannot settle (completion_dependency.py:113 and :279).           *)
UnrecordedNeverCloses == [](Unrecorded => [](attempt # "succeeded"))

(* The redrive of an unrecorded turn is not only able to fail, as the run  *)
(* adapter_dispatch_redrive shows: it never closes the node.               *)
THEOREM RedriveNeverCloses == Spec => UnrecordedNeverCloses
<1>1. Init => UsedWhenRecorded
  BY DEF Init, UsedWhenRecorded
<1>2. IInv /\ UsedWhenRecorded /\ Unrecorded => ReceiptLost
  BY DEF IInv, UsedWhenRecorded, Undelivered, Unrecorded, ReceiptLost, WaitsForReceipt, Final
<1>3. IInv /\ ReceiptLost /\ [Next]_vars => ReceiptLost'
  BY ReceiptStep DEF IInv, ReceiptLost, Final
<1>4. IInv /\ ReceiptLost => attempt # "succeeded"
  BY DEF IInv, CommittedIsSettled, ReceiptLost
<1> QED
  BY <1>1, <1>2, <1>3, <1>4, UsedStep, Invariance, PTL DEF Spec, UnrecordedNeverCloses

-----------------------------------------------------------------------------
(* The dispatch implements OutboxLease                                     *)

(* History: what OutboxLeaseProofs counts of the action, the redrives, and *)
(* the waits: for the turn, or for its receipt.                            *)
VARIABLES claims, revivals, restarts, redrives, waits

(* The one action, which its worker puts back as new when it has to wait   *)
Dispatch == {"dispatch"}

Lease == INSTANCE OutboxLeaseProofs WITH
  Actions     <- Dispatch, Restartable <- Dispatch,
  status      <- [a \in Dispatch |-> row.status],
  attempts    <- [a \in Dispatch |-> row.attempts],
  recoveries  <- [a \in Dispatch |-> row.recoveries]

(* However workers, wakes, sweeps and start dispatches interleave, each    *)
(* claim is counted in its budget, a wake or a redrive renews the attempts *)
(* and never the recoveries, and only a wait of the worker renews both     *)
(* (completion_dependency.py:160, adapter_dispatch_worker.py:1603).        *)
ImplementsOutboxLease == Lease!Spec

Counting ==
  /\ redrives' = IF Redrives THEN redrives + 1 ELSE redrives
  /\ waits' = IF \E w \in Workers : Waits(w) \/ Defers(w) THEN waits + 1 ELSE waits

CountedSpec ==
  /\ Spec /\ Lease!CountsFromZero /\ redrives = 0 /\ waits = 0
  /\ [][Lease!Counts /\ Counting]_<<vars, Lease!counted, redrives, waits>>

(* The action is claimed once for each attempt and each recovery: a redrive*)
(* renews the attempts, a wait both budgets, and the wake of a delivery    *)
(* nothing.                                                                *)
DispatchesBounded ==
  claims["dispatch"] <= MaxAttempts * (redrives + 1) + MaxRecoveries
                          + (MaxAttempts + MaxRecoveries) * waits

(* What waits to be claimed again for its receipt has used no attempt, so  *)
(* that the wake has none to give back; what is leased has used one.       *)
CountsWaiting ==
  /\ row.status = "pending" /\ row.problem = "completion" => row.attempts = 0
  /\ row.status = "leased" => row.attempts > 0

(* The new attempts are those of the redrives, the new budgets those of    *)
(* the waits.                                                              *)
Paid ==
  /\ claims \in [Dispatch -> Nat] /\ revivals \in [Dispatch -> Nat]
  /\ restarts \in [Dispatch -> Nat] /\ redrives \in Nat /\ waits \in Nat
  /\ revivals["dispatch"] <= redrives /\ restarts["dispatch"] <= waits

(* What one step does to the status and the counts of the action.          *)
KeepsCounts == row'.attempts = row.attempts /\ row'.recoveries = row.recoveries

Rests    == row'.status = row.status /\ KeepsCounts
Spends   == Live(row) /\ OverGate(row) /\ row'.status = "failed" /\ KeepsCounts
Takes    ==
  /\ Live(row) /\ ~OverGate(row) /\ row'.status = "leased"
  /\ row'.attempts   = IF row.status = "pending" THEN row.attempts + 1 ELSE row.attempts
  /\ row'.recoveries = IF row.status = "leased" THEN row.recoveries + 1 ELSE row.recoveries
Settles  ==
  /\ row.status = "leased" /\ KeepsCounts
  /\ \/ row'.status \in {"succeeded", "failed"}
     \/ row'.status = "pending" /\ row'.problem # "completion"
Returns  ==
  /\ \E w \in Workers : Waits(w) \/ Defers(w)
  /\ row.status = "leased" /\ row'.status = "pending"
  /\ row'.attempts = 0 /\ row'.recoveries = 0
Rearms   ==
  /\ row.problem = "completion" /\ row'.status = "pending"
  /\ row.status = "failed" \/ (row.status = "pending" /\ Delivers)
  /\ row.status = "failed" => Redrives
  /\ row'.attempts = 0 /\ row'.recoveries = row.recoveries
Arms     ==
  /\ row.status \in {"absent", "failed"} /\ KeepsCounts
  /\ row'.status = "pending" /\ row'.problem # "completion"

LEMMA CountMoves ==
  ASSUME IInv, [Next]_vars
  PROVE  \/ Rests /\ row'.problem = row.problem
         \/ Spends \/ Takes \/ Settles \/ Returns \/ Rearms \/ Arms
<1>1. row \in Rows /\ delivery \in {"none", "pending", "delivered", "failed"}
  BY DEF IInv, TypeOK
<1>2. \A s \in {"succeeded", "failed", "pending"}, p \in {"none", "completion", "exhausted", "other"} :
        /\ Settled(s, p).status = s /\ Settled(s, p).problem = p
        /\ Settled(s, p).attempts = row.attempts /\ Settled(s, p).recoveries = row.recoveries
  BY <1>1 DEF Settled, Rows
<1>3. \A p \in {"completion", "other"} :
        /\ Reset(Settled("pending", p)).status = "pending"
        /\ Reset(Settled("pending", p)).attempts = 0 /\ Reset(Settled("pending", p)).recoveries = 0
        /\ [Reset(Settled("pending", p)) EXCEPT !.seen = delivery = "delivered"].status = "pending"
        /\ [Reset(Settled("pending", p)) EXCEPT !.seen = delivery = "delivered"].attempts = 0
        /\ [Reset(Settled("pending", p)) EXCEPT !.seen = delivery = "delivered"].recoveries = 0
  BY <1>1 DEF Reset, Settled, Rows
<1>4. ASSUME row' = row PROVE Rests /\ row'.problem = row.problem
  BY <1>4 DEF Rests, KeepsCounts
<1>5. ASSUME NEW w \in Workers, Claims(w) PROVE Spends \/ Takes
  <2>1. CASE OverGate(row)
    BY <1>2, <1>5, <2>1 DEF Claims, Claimable, Live, Spends, KeepsCounts
  <2>2. CASE ~OverGate(row)
    BY <1>1, <1>5, <2>2 DEF Claims, Claimable, Claimed, Live, Takes, Rows
  <2> QED
    BY <2>1, <2>2
<1>6. ASSUME NEW w \in Workers, Fails(w) \/ Blocks(w) \/ Requeues(w) \/ Commits(w)
      PROVE  row' = row \/ Settles
  <2>1. \/ row' = row
        \/ row.status = "leased" /\ row' = Settled("failed", "other")
        \/ row.status = "leased" /\ row' = Settled("succeeded", "none")
        \/ row.status = "leased" /\ row' = Settled("pending", "other")
    BY <1>6 DEF Fails, Blocks, Ends, EndsNothing, Requeues, Commits, Touches, Requeued
  <2> QED
    BY <1>2, <2>1 DEF Settles, KeepsCounts
<1>7. ASSUME NEW w \in Workers, Waits(w) \/ Defers(w)
      PROVE  row' = row \/ Settles \/ Returns
  <2>1. \/ row' = row
        \/ row.status = "leased" /\ row' = Settled("failed", "completion")
        \/ row.status = "leased" /\ row' = Reset(Settled("pending", "other"))
        \/ /\ row.status = "leased"
           /\ row' = [Reset(Settled("pending", "completion"))
                        EXCEPT !.seen = delivery = "delivered"]
    BY <1>7 DEF Waits, Defers, Touches, Requeued
  <2>2. ASSUME row.status = "leased", row' = Settled("failed", "completion")
        PROVE  Settles
    BY <1>2, <2>2 DEF Settles, KeepsCounts
  <2>3. ASSUME row.status = "leased",
               \/ row' = Reset(Settled("pending", "other"))
               \/ row' = [Reset(Settled("pending", "completion"))
                            EXCEPT !.seen = delivery = "delivered"]
        PROVE  Returns
    <3>1. row'.status = "pending" /\ row'.attempts = 0 /\ row'.recoveries = 0
      BY <1>3, <2>3
    <3> QED
      BY <1>7, <2>3, <3>1 DEF Returns
  <2> QED
    BY <2>1, <2>2, <2>3
<1>8. CASE Lapses \/ Crowds
  BY <1>1, <1>8 DEF Lapses, Crowds, Rests, KeepsCounts, Rows
<1>9. CASE Delivers \/ Redrives
  <2>1. /\ Rearmed.status = "pending" /\ Rearmed.attempts = 0
        /\ Rearmed.recoveries = row.recoveries
    BY <1>1 DEF Rearmed, Rows
  <2>2. CASE Redrives
    BY <2>1, <2>2 DEF Redrives, WaitsForReceipt, Rearms
  <2>3. CASE Delivers
    <3>1. ~(row.status = "failed" /\ row.problem = "completion")
      BY <2>3 DEF Delivers, IInv, Undelivered
    <3> QED
      BY <1>4, <2>1, <2>3, <3>1 DEF Delivers, WaitsForReceipt, Rearms
  <2> QED
    BY <1>9, <2>2, <2>3
<1>10. CASE Dispatches
  <2>1. row' = row \/ (row.status \in {"absent", "failed"} /\ row' = Settled("pending", "none"))
    BY <1>10 DEF Dispatches, Dispatched, Requeued
  <2> QED
    BY <1>2, <1>4, <2>1 DEF Arms, KeepsCounts
<1>11. ASSUME NEW w \in Workers,
              \/ Reserves(w) \/ StartsTurn(w) \/ Executes(w) \/ LosesLease(w) \/ Leaves(w)
              \/ Voids(w) \/ SettlesDomain(w)
       PROVE  row' = row
  BY <1>11 DEF Reserves, StartsTurn, Executes, LosesLease, Leaves, Voids, SettlesDomain, ledger
<1>12. CASE \/ TurnEnds \/ Records \/ DeliveryFails \/ Repairs \/ Retries \/ CancelsNode
            \/ CancelsRun \/ CleansUp \/ Reconciles \/ UNCHANGED vars
  BY <1>4, <1>12 DEF TurnEnds, Records, DeliveryFails, Repairs, Retries, CancelsNode,
     CancelsRun, CleansUp, Reconciles, vars, ledger
<1> QED
  BY <1>4, <1>5, <1>6, <1>7, <1>8, <1>9, <1>10, <1>11, <1>12 DEF Next, WorkerStep

(* Each of these is a step of OutboxLease, or none.                        *)
LEMMA LeaseSteps ==
  ASSUME IInv, [Next]_vars
  PROVE  [Lease!Next]_Lease!leaseVars
<1>1. row.attempts \in Nat /\ row.recoveries \in Nat /\ MaxAttempts \in Nat /\ MaxRecoveries \in Nat
  BY AdapterAssumption DEF IInv, TypeOK, Rows
<1>2. \A a \in Dispatch : a = "dispatch"
  BY DEF Dispatch
<1>3. "dispatch" \in Dispatch /\ Dispatch \in SUBSET Dispatch /\ {} \in SUBSET Dispatch
  BY DEF Dispatch
<1>4. CASE Rests
  BY <1>4 DEF Rests, KeepsCounts, Lease!leaseVars
<1>5. CASE Spends
  <2>1. Lease!Claims({}, Dispatch)
    BY <1>1, <1>5 DEF Spends, KeepsCounts, Live, OverGate, Lease!Claims, Lease!Live, Lease!InBudget
  <2> QED
    BY <1>3, <2>1 DEF Lease!Next
<1>6. CASE Takes
  <2>1. Lease!Claims(Dispatch, {})
    BY <1>1, <1>6 DEF Takes, Live, OverGate, Lease!Claims, Lease!Live, Lease!InBudget
  <2> QED
    BY <1>3, <2>1 DEF Lease!Next
<1>7. CASE Settles
  <2>1. Lease!Settles("dispatch", row'.status)
    BY <1>2, <1>3, <1>7 DEF Settles, KeepsCounts, Lease!Settles, Lease!Becomes, Lease!KeepsCounts
  <2>2. row'.status \in {"pending", "succeeded", "failed"}
    BY <1>7 DEF Settles
  <2> QED
    BY <1>3, <2>1, <2>2 DEF Lease!Next
<1>8. CASE Returns
  <2>1. Lease!Restarts("dispatch")
    BY <1>2, <1>3, <1>8 DEF Returns, Lease!Restarts, Lease!Becomes
  <2> QED
    BY <1>3, <2>1 DEF Lease!Next
<1>9. CASE Rearms
  <2>1. Lease!Revives(Dispatch)
    BY <1>9 DEF Rearms, Lease!Revives, Lease!Becomes
  <2> QED
    BY <1>3, <2>1 DEF Lease!Next
<1>10. CASE Arms
  <2>1. Lease!Arms(Dispatch)
    BY <1>10 DEF Arms, KeepsCounts, Lease!Arms, Lease!Becomes, Lease!KeepsCounts
  <2> QED
    BY <1>3, <2>1 DEF Lease!Next
<1> QED
  BY <1>4, <1>5, <1>6, <1>7, <1>8, <1>9, <1>10, CountMoves

(* The dispatch of an attempt keeps the promises of OutboxLease, with its  *)
(* waits as restarts.                                                      *)
THEOREM ImplementsLease == Spec => ImplementsOutboxLease
<1>1. Init => Lease!Init
  BY DEF Init, Lease!Init
<1>2. IInv /\ [Next]_vars => [Lease!Next]_Lease!leaseVars
  BY LeaseSteps
<1> QED
  BY <1>1, <1>2, Invariance, PTL DEF Spec, ImplementsOutboxLease, Lease!Spec

-----------------------------------------------------------------------------
(* How often a dispatch is claimed in its life                             *)

LEMMA CountsWaitingKept ==
  ASSUME IInv, CountsWaiting, [Next]_vars
  PROVE  CountsWaiting'
<1>1. CASE Rests /\ row'.problem = row.problem
  BY <1>1 DEF CountsWaiting, Rests, KeepsCounts
<1>2. CASE Spends \/ Takes
  <2>1. row.attempts \in Nat
    BY DEF IInv, TypeOK, Rows
  <2> QED
    BY <1>2, <2>1 DEF CountsWaiting, Spends, Takes, Live
<1>3. CASE Settles \/ Arms
  BY <1>3 DEF CountsWaiting, Settles, Arms
<1>4. CASE Returns \/ Rearms
  BY <1>4 DEF CountsWaiting, Returns, Rearms
<1> QED
  BY <1>1, <1>2, <1>3, <1>4, CountMoves

(* Attempts come back with a redrive, and both budgets with a wait.        *)
LEMMA PaidKept ==
  ASSUME IInv, CountsWaiting, Paid, [Next]_vars,
         [Lease!Counts /\ Counting]_<<vars, Lease!counted, redrives, waits>>
  PROVE  Paid'
<1>1. CASE UNCHANGED <<vars, Lease!counted, redrives, waits>>
  BY <1>1 DEF Paid, Lease!counted
<1>2. CASE Lease!Counts /\ Counting
  <2>1. row.attempts \in Nat /\ row.recoveries \in Nat
    BY DEF IInv, TypeOK, Rows
  <2>2. /\ claims' \in [Dispatch -> Nat] /\ revivals' \in [Dispatch -> Nat]
        /\ restarts' \in [Dispatch -> Nat]
    BY <1>2 DEF Lease!Counts, Paid
  <2>3. /\ redrives' \in Nat /\ redrives' >= redrives /\ waits' \in Nat /\ waits' >= waits
        /\ Redrives => redrives' = redrives + 1
        /\ (\E w \in Workers : Waits(w) \/ Defers(w)) => waits' = waits + 1
    BY <1>2 DEF Counting, Paid
  <2>4. "dispatch" \in Dispatch
    BY DEF Dispatch
  <2>5. /\ Lease!Restarted("dispatch") <=>
             /\ row.status = "leased" /\ row'.status = "pending"
             /\ row'.attempts = 0 /\ row'.recoveries = 0
        /\ Lease!Revived("dispatch") <=>
             row'.attempts < row.attempts /\ ~Lease!Restarted("dispatch")
    BY <2>4 DEF Lease!Restarted, Lease!Revived
  <2>6. Lease!Restarted("dispatch") => \E w \in Workers : Waits(w) \/ Defers(w)
    BY <2>1, <2>5, CountMoves DEF CountsWaiting, Rests, Spends, Takes, Settles, Returns, Rearms,
       Arms, KeepsCounts
  <2>7. Lease!Revived("dispatch") => Redrives
    BY <2>1, <2>5, CountMoves DEF CountsWaiting, Rests, Spends, Takes, Settles, Returns, Rearms,
       Arms, KeepsCounts
  <2>8. /\ revivals'["dispatch"] =
             IF Lease!Revived("dispatch") THEN revivals["dispatch"] + 1 ELSE revivals["dispatch"]
        /\ restarts'["dispatch"] =
             IF Lease!Restarted("dispatch") THEN restarts["dispatch"] + 1 ELSE restarts["dispatch"]
    BY <1>2, <2>4 DEF Lease!Counts
  <2>9. /\ revivals["dispatch"] \in Nat /\ restarts["dispatch"] \in Nat
        /\ redrives \in Nat /\ waits \in Nat
        /\ revivals["dispatch"] <= redrives /\ restarts["dispatch"] <= waits
    BY <2>4 DEF Paid
  <2>10. revivals'["dispatch"] <= redrives' /\ restarts'["dispatch"] <= waits'
    BY <2>3, <2>6, <2>7, <2>8, <2>9
  <2> QED
    BY <2>2, <2>3, <2>10 DEF Paid
<1> QED
  BY <1>1, <1>2

(* A larger number of payments pays for no fewer claims.                   *)
LEMMA MorePays ==
  ASSUME NEW m \in Nat, NEW r \in Nat, NEW q \in Nat, r <= q
  PROVE  m * r \in Nat /\ m * q \in Nat /\ m * r <= m * q
<1>1. q - r \in Nat /\ m * q = m * r + m * (q - r)
  OBVIOUS
<1>2. m * (q - r) \in Nat /\ m * r \in Nat
  BY <1>1
<1> QED
  BY <1>1, <1>2

(* However often threads die, lose their leases, miss their statements or  *)
(* put the action back, and whenever the receipt is delivered, the dispatch*)
(* of an attempt is claimed no more often than its budgets, the redrives   *)
(* and the waits have paid for.                                            *)
THEOREM DispatchClaimsBounded == CountedSpec => []DispatchesBounded
<1>1. MaxAttempts \in Nat /\ MaxRecoveries \in Nat /\ MaxAttempts + MaxRecoveries \in Nat
  BY AdapterAssumption
<1>2. Lease!CountedSpec => []Lease!ClaimsBounded
  BY <1>1, Lease!ClaimsAreBounded
<1>3. Init /\ Lease!CountsFromZero /\ redrives = 0 /\ waits = 0 => CountsWaiting /\ Paid
  BY DEF Init, Lease!CountsFromZero, CountsWaiting, Paid, Dispatch
<1>4. [Lease!Counts /\ Counting]_<<vars, Lease!counted, redrives, waits>>
        => [Lease!Counts]_Lease!counted
  OBVIOUS
<1>5. Paid /\ Lease!ClaimsBounded => DispatchesBounded
  <2> SUFFICES ASSUME Paid, Lease!ClaimsBounded PROVE DispatchesBounded
    OBVIOUS
  <2> DEFINE r == revivals["dispatch"]
             s == restarts["dispatch"]
  <2>1. /\ claims["dispatch"] \in Nat /\ r \in Nat /\ s \in Nat /\ redrives \in Nat /\ waits \in Nat
        /\ r <= redrives /\ s <= waits
    BY DEF Paid, Dispatch
  <2>2. claims["dispatch"] <= MaxAttempts * (r + 1) + MaxRecoveries
                                + (MaxAttempts + MaxRecoveries) * s
    BY DEF Lease!ClaimsBounded, Dispatch
  <2> HIDE DEF r, s
  <2>3. /\ MaxAttempts * (r + 1) \in Nat /\ MaxAttempts * (redrives + 1) \in Nat
        /\ MaxAttempts * (r + 1) <= MaxAttempts * (redrives + 1)
    <3>1. r + 1 \in Nat /\ redrives + 1 \in Nat /\ r + 1 <= redrives + 1
      BY <2>1
    <3> QED
      BY <1>1, <3>1, MorePays
  <2>4. /\ (MaxAttempts + MaxRecoveries) * s \in Nat /\ (MaxAttempts + MaxRecoveries) * waits \in Nat
        /\ (MaxAttempts + MaxRecoveries) * s <= (MaxAttempts + MaxRecoveries) * waits
    BY <1>1, <2>1, MorePays
  <2> QED
    BY <1>1, <2>1, <2>2, <2>3, <2>4 DEF DispatchesBounded
<1> QED
  BY <1>2, <1>3, <1>4, <1>5, ImplementsLease, CountsWaitingKept, PaidKept, Invariance, PTL
  DEF Spec, ImplementsOutboxLease, Lease!Spec, Lease!CountedSpec, CountedSpec
=============================================================================
