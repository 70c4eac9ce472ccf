--------------------------- MODULE AdapterDispatch --------------------------
(***************************************************************************)
(* The adapter dispatch of one attempt of a workflow node: the worker of   *)
(* adapter_dispatch_worker.py with the budget receipt the attempt reserves *)
(* (budget_authority_adapter.py), the wait for the formal receipt of the   *)
(* agent's turn (completion_dependency.py, receipt_persistence.py), and    *)
(* the commits and commands that dispatch, retry, cancel and reconcile it. *)
(*                                                                         *)
(* A lease either runs or is late; what is late may be claimed again while *)
(* its worker goes on.  All workers write the same lease owner.  Once a    *)
(* retry has made a newer attempt this one is no longer the latest, and    *)
(* what the newer one does to the run no longer matters to it.             *)
(***************************************************************************)
EXTENDS Integers

CONSTANTS
  Workers,        (* threads of the pump                                    *)
  MaxAttempts,    (* MAX_OUTBOX_LEASE_ATTEMPTS                              *)
  MaxRecoveries,  (* MAX_OUTBOX_LEASE_RECOVERIES                            *)
  MaxTransient    (* _MAX_TRANSIENT_ATTEMPTS                                *)

ASSUME AdapterAssumption == {MaxAttempts, MaxRecoveries, MaxTransient} \subseteq Nat \ {0}

VARIABLES
  row,            (* the attempt's outbox action; behind: the scan of the
                     repair comes upon its LIMIT of older ones first        *)
  attempt,        (* node_attempts.status                                   *)
  latest,         (* no newer attempt of the node exists                    *)
  run,            (* workflow_runs.status; "completion" is blocked with the
                     problem COMPLETION_PENDING                             *)
  receipt,        (* budget_receipts: status, and whether usage is recorded *)
  turn,           (* the agent's turn                                       *)
  delivery,       (* the outbox action that delivers the turn's receipt     *)
  pc, task        (* the workers, and what each read as it claimed          *)

ledger == <<row, attempt, latest, run, receipt>>
worker == <<pc, task>>
vars   == <<ledger, turn, delivery, worker>>

NoTask == [tries |-> 0, seen |-> FALSE]

Init ==
  /\ row = [status |-> "absent", late |-> FALSE, attempts |-> 0, recoveries |-> 0,
            problem |-> "none", seen |-> FALSE, behind |-> FALSE]
  /\ attempt = "starting" /\ latest = TRUE
  /\ run = "running"
  /\ receipt = [status |-> "none", used |-> FALSE]
  /\ turn = "none" /\ delivery = "none"
  /\ pc = [w \in Workers |-> "idle"]
  /\ task = [w \in Workers |-> NoTask]

-----------------------------------------------------------------------------
(* The row                                                                 *)

Live(r) == r.status \in {"pending", "leased"}

Claimable(r) == r.status = "pending" \/ (r.status = "leased" /\ r.late)

OverGate(r) == r.attempts >= MaxAttempts \/ r.recoveries >= MaxRecoveries

(* Fault: the lease is left on the row.                                    *)
SettledUnderLease(status, problem) ==
  [row EXCEPT !.status = status, !.problem = problem, !.seen = FALSE, !.behind = FALSE]

Settled(status, problem) ==
  [row EXCEPT !.status = status, !.late = FALSE, !.problem = problem, !.seen = FALSE,
              !.behind = FALSE]

(* Fault: the claim of an expired lease is not counted.                    *)
ClaimedUncounted ==
  [row EXCEPT !.status = "leased", !.late = FALSE,
              !.attempts = IF row.status = "pending" THEN @ + 1 ELSE @]

Claimed ==
  [row EXCEPT !.status = "leased", !.late = FALSE,
              !.attempts   = IF row.status = "pending" THEN @ + 1 ELSE @,
              !.recoveries = IF row.status = "leased"  THEN @ + 1 ELSE @]

(* requeue_outbox; reset_attempts clears both counts.                      *)
Requeued(problem) == Settled("pending", problem)

Reset(r) == [r EXCEPT !.attempts = 0, !.recoveries = 0]

(* A statement that names the owner touches a leased row.  The clock it    *)
(* compares the expiry with was read before, so it may still touch a late  *)
(* one, and may miss it.                                                   *)
Touches == row.status = "leased"
Misses  == row.status # "leased" \/ row.late

-----------------------------------------------------------------------------
(* Attempt, run and receipt                                                *)

Active == attempt \in {"starting", "dispatching", "running"}

(* sync_run_blocked                                                        *)
Blocked(problem) ==
  IF run \in {"running", "reconciliation"} THEN problem ELSE run

(* Fault: a terminal receipt is voided as well.                            *)
VoidedWhatever ==
  IF receipt.status = "none" THEN receipt ELSE [receipt EXCEPT !.status = "voided"]

(* void_budget_reservation                                                 *)
Voided ==
  IF receipt.status = "reserved" THEN [receipt EXCEPT !.status = "voided"] ELSE receipt

(* compensate_terminal_attempt_reservation_in_uow and, with released for   *)
(* voided, finalize_cancelled_run_budget_receipts                          *)
Closed(unused) ==
  IF receipt.status = "reserved"
    THEN [receipt EXCEPT !.status = IF receipt.used THEN "settled" ELSE unused]
    ELSE receipt

-----------------------------------------------------------------------------
(* The worker                                                              *)

Goes(w, to) ==
  /\ pc' = [pc EXCEPT ![w] = to]
  /\ task' = IF to = "idle" THEN [task EXCEPT ![w] = NoTask] ELSE task

(* The lease scan fails what is at a gate, and claims what is not.  _handle*)
(* then reads its input: a check that raises fails the attempt, one that   *)
(* is not met blocks it; a completion cursor goes on with the turn it      *)
(* names, without a reservation.                                           *)
Claims(w) ==
  /\ pc[w] = "idle" /\ Claimable(row)
  /\ IF OverGate(row)
       THEN row' = Settled("failed", "exhausted") /\ UNCHANGED worker
       ELSE /\ row' = Claimed
            /\ task' = [task EXCEPT ![w] = [tries |-> row'.attempts, seen |-> row.seen]]
            /\ \E to \in {"fail", "block", IF row.problem = "completion" THEN "execute" ELSE "reserve"} :
                 pc' = [pc EXCEPT ![w] = to]
  /\ UNCHANGED <<attempt, latest, run, receipt, turn, delivery>>

(* reserve_budget_authority, which may raise.  A receipt that exists wins, *)
(* whatever became of it.                                                  *)
Reserves(w) ==
  /\ pc[w] = "reserve"
  /\ \/ /\ receipt' = [receipt EXCEPT !.status = IF @ = "none" THEN "reserved" ELSE @]
        /\ Goes(w, "start")
     \/ Goes(w, "undoFail") /\ UNCHANGED receipt
  /\ UNCHANGED <<row, attempt, latest, run, turn, delivery>>

(* create_agent_task, and its anchor: best effort.                         *)
StartsTurn(w) ==
  /\ pc[w] = "start"
  /\ turn' = IF turn = "none" THEN "live" ELSE turn
  /\ attempt' \in {attempt, IF attempt = "dispatching" THEN "running" ELSE attempt}
  /\ Goes(w, "execute")
  /\ UNCHANGED <<row, latest, run, receipt, delivery>>

(* What execute_agent_turn and verify can come to, but for the commit and  *)
(* the plain requeue.  The registry has the formal receipt of a turn once  *)
(* its delivery has succeeded.                                             *)
Executes(w) ==
  /\ pc[w] = "execute"
  /\ \/ Goes(w, "undoFail")                        (* raised, not succeeded *)
     \/ Goes(w, "undoBlock")                       (* not verified          *)
     \/ Goes(w, "fail")                            (* the deadline          *)
     \/ turn = "live" /\ Goes(w, "wait")
     \/ turn = "done" /\ delivery # "delivered" /\ Goes(w, "defer")
  /\ UNCHANGED <<ledger, turn, delivery>>

(* The heartbeat found the lease lost.                                     *)
LosesLease(w) ==
  /\ pc[w] = "execute" /\ Misses
  /\ Goes(w, "idle")
  /\ UNCHANGED <<ledger, turn, delivery>>

(* _void_unused_reservation, before or after the statement that fails or   *)
(* blocks the attempt                                                      *)
Voids(w) ==
  /\ receipt' = Voided
  /\ \/ pc[w] = "undoFail"  /\ Goes(w, "fail")
     \/ pc[w] = "undoBlock" /\ Goes(w, "block")
     \/ pc[w] = "void"      /\ Goes(w, "idle")
  /\ UNCHANGED <<row, attempt, latest, run, turn, delivery>>

(* The transition of an attempt that is no longer active raises, and takes *)
(* the statement on the row back.                                          *)
Ends(status) ==
  /\ Touches /\ Active
  /\ row' = Settled("failed", "other")
  /\ attempt' = status
  /\ run' = Blocked("blocked")

EndsNothing == (Misses \/ ~Active) /\ UNCHANGED <<row, attempt, run>>

(* _fail_attempt: the reservation is voided by a transaction of its own.   *)
Fails(w) ==
  /\ pc[w] = "fail"
  /\ \/ Ends("failed") /\ Goes(w, "void")
     \/ EndsNothing /\ Goes(w, "idle")
  /\ UNCHANGED <<latest, receipt, turn, delivery>>

(* _block_attempt: its mutation returns None in every case, so the void    *)
(* that is meant to follow a block never runs.                             *)
Blocks(w) ==
  /\ pc[w] = "block" /\ Goes(w, "idle")
  /\ Ends("blocked") \/ EndsNothing
  /\ UNCHANGED <<latest, receipt, turn, delivery>>

(* _requeue_or_fail, for a turn that is not ready, a session that is busy, *)
(* and a commit that raises                                                *)
Requeues(w) ==
  /\ pc[w] = "execute"
  /\ IF task[w].tries >= MaxTransient
       THEN Goes(w, "fail") /\ UNCHANGED row
       ELSE /\ Goes(w, "idle")
            /\ \/ Touches /\ row' = Requeued("other")
               \/ Misses /\ UNCHANGED row
  /\ UNCHANGED <<attempt, latest, run, receipt, turn, delivery>>

(* _requeue_live_turn_wait: a wait that has lasted too long fails.         *)
Waits(w) ==
  /\ pc[w] = "wait"
  /\ \/ Goes(w, "fail") /\ UNCHANGED row
     \/ /\ Goes(w, "idle")
        /\ \/ Touches /\ row' = Reset(Requeued("other"))
           \/ Misses /\ UNCHANGED row
  /\ UNCHANGED <<attempt, latest, run, receipt, turn, delivery>>

(* Fault: a delivery that came since the registry was read is not news.    *)
AwaitsUndelivered(w) == delivery = "pending"

(* receipt_delivery_state against what the claimed action had seen         *)
Awaits(w) == delivery = "pending" \/ (delivery = "delivered" /\ ~task[w].seen)

(* defer_completion.  The attempt stays as it is.                          *)
Defers(w) ==
  /\ pc[w] = "defer" /\ Goes(w, "idle")
  /\ \/ /\ Touches /\ Awaits(w)
        /\ row' = [Reset(Requeued("completion")) EXCEPT !.seen = delivery = "delivered"]
        /\ UNCHANGED <<run, receipt>>
     \/ /\ Touches /\ ~Awaits(w)
        /\ row' = Settled("failed", "completion")
        /\ run' = Blocked("completion")
        /\ receipt' = Closed("voided")
     \/ Misses /\ UNCHANGED <<row, run, receipt>>
  /\ UNCHANGED <<attempt, latest, turn, delivery>>

(* _commit_verified: a transaction, taken back when a step of it raises,   *)
(* as settling a voided or released receipt does; then Requeues follows.   *)
Commits(w) ==
  /\ pc[w] = "execute" /\ turn = "done"
  /\ \/ /\ Touches /\ Active
        /\ receipt.status \in {"reserved", "settled"}
        /\ row' = Settled("succeeded", "none")
        /\ attempt' = "succeeded"
        /\ receipt' = [status |-> "settled", used |-> TRUE]
        /\ Goes(w, "settle")
     \/ Misses /\ Goes(w, "idle") /\ UNCHANGED <<row, attempt, receipt>>
  /\ UNCHANGED <<latest, run, turn, delivery>>

(* _settle_domain_budget: a failure does not undo the commit.              *)
SettlesDomain(w) ==
  /\ pc[w] = "settle" /\ Goes(w, "idle")
  /\ run' \in {run, IF run = "cancelled" THEN run ELSE "reconciliation"}
  /\ UNCHANGED <<row, attempt, latest, receipt, turn, delivery>>

(* A submission that raises or times out leaves _handle, and the end of    *)
(* the process leaves everything.                                          *)
Leaves(w) ==
  /\ pc[w] # "idle" /\ Goes(w, "idle")
  /\ UNCHANGED <<ledger, turn, delivery>>

(* The lease runs out.                                                     *)
Lapses ==
  /\ row.status = "leased" /\ ~row.late
  /\ row' = [row EXCEPT !.late = TRUE]
  /\ UNCHANGED <<attempt, latest, run, receipt, turn, delivery, worker>>

-----------------------------------------------------------------------------
(* The turn and its receipt                                                *)

TurnEnds ==
  /\ turn = "live" /\ turn' = "done"
  /\ UNCHANGED <<ledger, delivery, worker>>

(* enqueue_question_model_invocation_receipt: usage and delivery in one    *)
(* transaction, while the receipt takes usage.  A process that dies first  *)
(* never does it.                                                          *)
Records ==
  /\ turn # "none" /\ delivery = "none" /\ receipt.status = "reserved"
  /\ receipt' = [receipt EXCEPT !.used = TRUE]
  /\ delivery' = "pending"
  /\ UNCHANGED <<row, attempt, latest, run, turn, worker>>

WaitsForReceipt(statuses) ==
  /\ latest /\ attempt = "running"
  /\ row.status \in statuses /\ row.problem = "completion"

Rearmed == [row EXCEPT !.status = "pending", !.attempts = 0]

(* ReceiptPersistenceWorker, with wake_receipt_completion in the           *)
(* transaction of the acknowledgement                                      *)
Delivers ==
  /\ delivery = "pending" /\ delivery' = "delivered"
  /\ IF WaitsForReceipt({"pending", "failed"}) /\ run \in {"running", "completion"}
       THEN row' = Rearmed /\ run' = "running"
       ELSE UNCHANGED <<row, run>>
  /\ UNCHANGED <<attempt, latest, receipt, turn, worker>>

DeliveryFails ==
  /\ delivery = "pending" /\ delivery' = "failed"
  /\ UNCHANGED <<ledger, turn, worker>>

-----------------------------------------------------------------------------
(* The maintenance thread: what its scans found is read again in the       *)
(* transaction that acts on it.                                            *)

Exhausted == row.status = "failed" /\ row.problem = "exhausted"

(* find_exhausted takes the oldest exhausted actions of running runs, up to*)
(* its limit.  Those it cannot repair, of an attempt that was superseded or*)
(* has ended, are never written and stay at its head while their run runs; *)
(* they come and go with their runs.                                       *)
Crowds ==
  /\ Exhausted
  /\ row' = [row EXCEPT !.behind = ~row.behind]
  /\ UNCHANGED <<attempt, latest, run, receipt, turn, delivery, worker>>

(* Fault: only an attempt whose turn was started is closed.                *)
RepairsStarted ==
  /\ Exhausted /\ ~row.behind /\ run = "running" /\ latest /\ attempt = "running"
  /\ attempt' = "failed"
  /\ run' = Blocked("blocked")
  /\ UNCHANGED <<row, latest, receipt, turn, delivery, worker>>

(* _repair_terminal_failed_adapter_dispatch                                *)
Repairs ==
  /\ Exhausted /\ ~row.behind /\ run = "running" /\ latest /\ Active
  /\ attempt' = "failed"
  /\ run' = Blocked("blocked")
  /\ UNCHANGED <<row, latest, receipt, turn, delivery, worker>>

(* redrive_authority_complete_completions, when the authority is complete  *)
Redrives ==
  /\ run = "completion" /\ WaitsForReceipt({"failed"}) /\ turn = "done"
  /\ row' = Rearmed /\ run' = "running"
  /\ UNCHANGED <<attempt, latest, receipt, turn, delivery, worker>>

-----------------------------------------------------------------------------
(* Commits of the graph worker, and commands                               *)

Dispatched ==
  row' = IF row.status \in {"absent", "failed"} THEN Requeued("none") ELSE row

(* Fault: an attempt that has ended is dispatched again.                   *)
DispatchesAnew ==
  /\ latest
  /\ attempt' = IF attempt = "starting" THEN "dispatching" ELSE attempt
  /\ Dispatched
  /\ UNCHANGED <<latest, run, receipt, turn, delivery, worker>>

(* _commit_dispatch of a start dispatch with _ensure_adapter_dispatch.  An *)
(* attempt may have a second one, from the repair of starting attempts.    *)
Dispatches ==
  /\ latest /\ attempt \in {"starting", "dispatching"}
  /\ attempt' = "dispatching"
  /\ Dispatched
  /\ UNCHANGED <<latest, run, receipt, turn, delivery, worker>>

(* retry_node.  A node that collects may be run again after a success, once*)
(* the node after it has blocked the run; the success stays.               *)
Retries ==
  /\ run # "cancelled" /\ latest
  /\ \/ attempt \in {"failed", "blocked"} /\ attempt' = "stale"
     \/ attempt = "succeeded" /\ UNCHANGED attempt
  /\ latest' = FALSE
  /\ run' = "running"
  /\ UNCHANGED <<row, receipt, turn, delivery, worker>>

(* cancel_node: the row stays.                                             *)
CancelsNode ==
  /\ run # "cancelled" /\ latest /\ (Active \/ attempt = "blocked")
  /\ attempt' = "cancelled"
  /\ UNCHANGED <<row, latest, run, receipt, turn, delivery, worker>>

CancelsRun ==
  /\ run # "cancelled" /\ run' = "cancelled"
  /\ UNCHANGED <<row, attempt, latest, receipt, turn, delivery, worker>>

(* The cleanup action of a cancelled run                                   *)
CleansUp ==
  /\ run = "cancelled" /\ receipt.status = "reserved"
  /\ receipt' = Closed("released")
  /\ UNCHANGED <<row, attempt, latest, run, turn, delivery, worker>>

(* An active attempt that nothing drives, no start dispatch being on its   *)
(* way; one whose reservation the same command has to close is left alone. *)
Zombie ==
  /\ Active /\ ~Live(row)
  /\ ~(row.status = "failed" /\ row.problem = "completion" /\ receipt.status = "reserved")

(* reconcile_run                                                           *)
Reconciles ==
  /\ run \in {"blocked", "completion", "reconciliation"} /\ latest
  /\ attempt' = IF Zombie THEN "failed" ELSE attempt
  /\ receipt' = IF attempt' = "running" /\ row.status = "failed" /\ row.problem = "completion"
                  THEN Closed("voided") ELSE receipt
  /\ run' = IF Live(row) \/ attempt' \in {"starting", "dispatching", "running"}
              THEN "running" ELSE "reconciliation"
  /\ run' # run
  /\ UNCHANGED <<row, latest, turn, delivery, worker>>

-----------------------------------------------------------------------------

WorkerStep(w) ==
  \/ Claims(w) \/ Reserves(w) \/ StartsTurn(w) \/ Executes(w) \/ Voids(w) \/ Fails(w)
  \/ Blocks(w) \/ Requeues(w) \/ Waits(w) \/ Defers(w) \/ Commits(w) \/ SettlesDomain(w)

Next ==
  \/ \E w \in Workers : WorkerStep(w) \/ LosesLease(w) \/ Leaves(w)
  \/ Lapses \/ TurnEnds \/ Records \/ Delivers \/ DeliveryFails
  \/ Crowds \/ Repairs \/ Redrives \/ Dispatches
  \/ Retries \/ CancelsNode \/ CancelsRun \/ CleansUp \/ Reconciles

Spec == Init /\ [][Next]_vars

Abandoned == \A w \in Workers : pc[w] = "idle"

(* Threads go on, an abandoned lease runs out, a turn ends, its receipt is *)
(* delivered or given up, and the maintenance thread sweeps: a repair is   *)
(* due only to an action that its scan goes on finding.  Nothing is assumed*)
(* of commands.                                                            *)
FairSpec ==
  /\ Spec
  /\ \A w \in Workers : WF_vars(WorkerStep(w))
  /\ WF_vars(Abandoned /\ Lapses)
  /\ WF_vars(TurnEnds) /\ WF_vars(Delivers \/ DeliveryFails)
  /\ WF_vars(Repairs)

-----------------------------------------------------------------------------
(* Properties                                                              *)

Rows == [status : {"absent", "pending", "leased", "succeeded", "failed"}, late : BOOLEAN,
         attempts : Nat, recoveries : Nat,
         problem : {"none", "completion", "exhausted", "other"},
         seen : BOOLEAN, behind : BOOLEAN]

TypeOK ==
  /\ row \in Rows /\ (row.late => row.status = "leased")
  /\ attempt \in {"starting", "dispatching", "running", "succeeded", "failed", "blocked",
                  "stale", "cancelled"}
  /\ latest \in BOOLEAN
  /\ run \in {"running", "blocked", "completion", "reconciliation", "cancelled"}
  /\ receipt \in [status : {"none", "reserved", "settled", "voided", "released"}, used : BOOLEAN]
  /\ turn \in {"none", "live", "done"}
  /\ delivery \in {"none", "pending", "delivered", "failed"}
  /\ pc \in [Workers -> {"idle", "reserve", "start", "execute", "undoFail", "undoBlock", "fail",
                         "block", "void", "wait", "defer", "settle"}]
  /\ task \in [Workers -> [tries : Nat, seen : BOOLEAN]]

(* The attempt, its action and its receipt succeed together: none of them  *)
(* without the others, and no late worker, cancel or compensation takes    *)
(* one of them back (budget_authority_adapter.py:1294).                    *)
CommittedIsSettled ==
  /\ attempt = "succeeded" <=> row.status = "succeeded"
  /\ attempt = "succeeded" => receipt = [status |-> "settled", used |-> TRUE]

(* Nothing is dispatched for an attempt that has ended, however workers,   *)
(* repairs, wakes and a second start dispatch interleave                   *)
(* (graph_dispatch_worker.py:1783).  A cancelled attempt is left out: its  *)
(* row stays, and is run down by the gates.                                *)
EndedAttemptRests ==
  attempt \in {"succeeded", "failed", "blocked", "stale"} => ~Live(row)

(* A run does not wait for a receipt that was delivered between the read   *)
(* of the registry and the decision to wait (completion_dependency.py:79). *)
NoLostDelivery ==
  run = "completion" /\ WaitsForReceipt({"failed"}) => delivery # "delivered"

(* Every dispatch comes to an end, whatever is lost or interrupted.        *)
EveryDispatchEnds == Live(row) ~> ~Live(row)

(* A running run is not left with an attempt whose dispatch has failed,    *)
(* unless older actions that cannot be repaired take up the scan           *)
(* (adapter_dispatch_worker.py:329 and :347).                              *)
Stranded == run = "running" /\ latest /\ Active /\ row.status = "failed"

FailuresSurface == Stranded ~> (~Stranded \/ row.behind)

(* The sweep re-arms a dispatch that the ordinary commit can close         *)
(* (completion_dependency.py:279).                                         *)
RedriveCloses ==
  [][run = "completion" /\ run' = "running" /\ WaitsForReceipt({"failed"}) /\ Live(row')
       => receipt.status \in {"reserved", "settled"}]_vars
=============================================================================
