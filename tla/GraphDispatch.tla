---------------------------- MODULE GraphDispatch ---------------------------
(***************************************************************************)
(* The leases of the workflow outbox (core/research/workflow/ledger/       *)
(* repository.py) as the threads of the outbox pump use them for actions   *)
(* of kind graph_dispatch (graph_dispatch_worker.py): claim one action,    *)
(* invoke the graph while a heartbeat renews the lease, commit by an       *)
(* owner-checked update, or put the action back or fail it.                *)
(*                                                                         *)
(* Times are kept relative to the clock: a lease of 2 ends in 2 ticks.  A  *)
(* statement runs up to MaxLag ticks after its caller read the clock, so   *)
(* it compares against a reading lag ticks old.                            *)
(***************************************************************************)
EXTENDS Integers

CONSTANTS
  Workers,        (* threads of the pump                                   *)
  Owner,          (* the lease_owner each thread writes                    *)
  Nodes,          (* node attempts, each of a run of its own               *)
  Actions,        (* graph_dispatch rows                                   *)
  Node,           (* the node attempt an action belongs to                 *)
  Repair,         (* of an attempt, its action keyed graph:repair:         *)
  LeaseTime,      (* ticks a lease lasts                                   *)
  RetryTime,      (* ticks a requeued action waits                         *)
  MaxLag,         (* bound: ticks between reading the clock and its use    *)
  MaxAttempts,    (* MAX_OUTBOX_LEASE_ATTEMPTS                             *)
  MaxRecoveries,  (* MAX_OUTBOX_LEASE_RECOVERIES                           *)
  MaxTransient,   (* _MAX_TRANSIENT_ATTEMPTS                               *)
  MaxReconciles   (* bound: reconcile_run commands                         *)

ASSUME DispatchAssumption ==
  /\ {LeaseTime, RetryTime, MaxAttempts, MaxRecoveries, MaxTransient}
       \subseteq Nat \ {0}
  /\ MaxLag \in Nat /\ MaxLag < LeaseTime
  /\ MaxReconciles \in Nat
  /\ Node \in [Actions -> Nodes] /\ Repair \in [Nodes -> Actions]
  /\ \A n \in Nodes : Node[Repair[n]] = n
  /\ \A w \in Workers : Owner[w] # "nobody"
  /\ "nobody" \notin Workers /\ "none" \notin Actions

VARIABLES
  kind,        (* dispatch_kind, "rejected" for a receipt that reports failure *)
  row,         (* outbox_actions                                            *)
  starting,    (* node attempts of status starting                          *)
  upstream,    (* resumed attempts that are committed, and their handoff    *)
  run,         (* the run's status                                          *)
  pc, task, seen, lost,  (* each worker: where it is, its action, the
                  attempt count it was given, its heartbeat's verdict       *)
  sweep,       (* the maintenance thread: the repair it does next           *)
  fence, late, (* the maintenance fence; actions created after it was set   *)
  holder,      (* history: the last worker to claim the action, until it is
                  settled                                                   *)
  reconciles

workerVars == <<pc, task, seen, lost>>
runVars    == <<kind, starting, upstream, run>>
aroundVars == <<sweep, fence, late>>
vars == <<row, workerVars, runVars, aroundVars, holder, reconciles>>

Lags  == 0..MaxLag
Kinds == {"start", "resume", "rejected"}

-----------------------------------------------------------------------------
(* The statements of repository.py on one row                              *)

Settled(r, status) ==
  [r EXCEPT !.status = status, !.owner = "nobody", !.lease = -MaxLag]

Claimable(r, lag) ==
  /\ r.status \in {"pending", "leased"}
  /\ r.wait <= -lag /\ r.lease <= -lag

(* Fault: the gates are one too high.                                      *)
OverGateByOne(r) == r.attempts > MaxAttempts \/ r.recoveries > MaxRecoveries

OverGate(r) == r.attempts >= MaxAttempts \/ r.recoveries >= MaxRecoveries

(* _fail_leases_over_attempt_gate                                          *)
Swept(lag) ==
  [a \in Actions |-> IF Claimable(row[a], lag) /\ OverGate(row[a])
                       THEN Settled(row[a], "failed") ELSE row[a]]

(* Fault: the claim of an expired lease is not counted.                    *)
ClaimedUncounted(r, w, lag) ==
  [r EXCEPT !.status = "leased", !.owner = Owner[w], !.lease = LeaseTime - lag,
            !.attempts = IF r.status = "pending" THEN @ + 1 ELSE @]

(* A claim of a pending row is an attempt, one of an expired lease a       *)
(* recovery of the same attempt.                                           *)
Claimed(r, w, lag) ==
  [r EXCEPT !.status = "leased", !.owner = Owner[w], !.lease = LeaseTime - lag,
            !.attempts   = IF r.status = "pending" THEN @ + 1 ELSE @,
            !.recoveries = IF r.status = "leased"  THEN @ + 1 ELSE @]

(* Fault: any owner may act on a live lease.                               *)
HoldsAny(w, lag) ==
  LET r == row[task[w]] IN r.status = "leased" /\ r.lease > -lag

(* The WHERE clause of ack, renew, requeue and fail.                       *)
Holds(w, lag) ==
  LET r == row[task[w]]
  IN  r.status = "leased" /\ r.owner = Owner[w] /\ r.lease > -lag

Renewed(r, lag) == [r EXCEPT !.lease = LeaseTime - lag]

(* Fault: a requeued action waits for as long as a lease.                  *)
RequeuedForLease(r, wait) == [Settled(r, "pending") EXCEPT !.wait = LeaseTime]

(* Fault: an action that is put back has its attempts again.               *)
RequeuedAnew(r, wait) == [Settled(r, "pending") EXCEPT !.wait = wait, !.attempts = 0]

Requeued(r, wait) == [Settled(r, "pending") EXCEPT !.wait = wait]

Init ==
  /\ kind \in [Nodes -> Kinds]
  /\ row = [a \in Actions |->
              [status |-> IF a = Repair[Node[a]] THEN "absent" ELSE "pending",
               owner |-> "nobody", attempts |-> 0, recoveries |-> 0,
               lease |-> -MaxLag, wait |-> 0]]
  /\ starting = {n \in Nodes : kind[n] = "start"}
  /\ upstream = {} /\ run = [n \in Nodes |-> "running"]
  /\ sweep = "starting"
  /\ pc = [w \in Workers |-> "idle"] /\ task = [w \in Workers |-> "none"]
  /\ seen = [w \in Workers |-> 0] /\ lost = {}
  /\ \/ fence = FALSE /\ late = {}
     \/ fence = TRUE /\ late \in SUBSET (Actions \ {Repair[n] : n \in Nodes})
  /\ holder = [a \in Actions |-> "nobody"]
  /\ reconciles = 0

-----------------------------------------------------------------------------
(* A worker thread                                                         *)

Goes(w, to) ==
  /\ pc' = [pc EXCEPT ![w] = to]
  /\ UNCHANGED <<task, seen, lost>>

Rests(w) ==
  /\ pc' = [pc EXCEPT ![w] = "idle"]
  /\ task' = [task EXCEPT ![w] = "none"]
  /\ seen' = [seen EXCEPT ![w] = 0]
  /\ lost' = lost \ {w}

(* run_claim_one: sweep, then lease the first ready action, in one         *)
(* transaction; which one is first is left open.  The caller may have      *)
(* stopped waiting for the answer.                                         *)
Claim(w) ==
  /\ pc[w] = "idle"
  /\ \E lag \in Lags :
       LET ready == {a \in Actions : Claimable(Swept(lag)[a], lag)}
       IN  \/ /\ ready = {}
              /\ row' = Swept(lag)
              /\ UNCHANGED <<workerVars, holder>>
           \/ \E a \in ready :
                /\ row' = [Swept(lag) EXCEPT ![a] = Claimed(@, w, lag)]
                /\ holder' = [holder EXCEPT ![a] = w]
                /\ \/ /\ pc' = [pc EXCEPT ![w] = "claimed"]
                      /\ task' = [task EXCEPT ![w] = a]
                      /\ seen' = [seen EXCEPT ![w] = row'[a].attempts]
                      /\ UNCHANGED lost
                   \/ UNCHANGED workerVars
  /\ UNCHANGED <<runVars, aroundVars, reconciles>>

(* _handle up to the invocation.  An action whose upstream is committed    *)
(* needs no new invocation, unless the graph is not at its successor yet.  *)
Handle(w) ==
  /\ pc[w] = "claimed"
  /\ LET a == task[w]
         n == Node[a]
     IN  IF fence /\ a \in late
           THEN Goes(w, "defer")
           ELSE \/ kind[n] = "rejected" /\ Goes(w, "commit")
                \/ n \in upstream /\ \E to \in {"commit", "successor"} : Goes(w, to)
                \/ kind[n] # "rejected" /\ Goes(w, "renew")
  /\ UNCHANGED <<row, runVars, aroundVars, holder, reconciles>>

(* The renewal before the invocation: done, lost for good, or missed.      *)
RenewsFirst(w) ==
  /\ pc[w] = "renew"
  /\ \/ \E lag \in Lags :
          \/ /\ Holds(w, lag)
             /\ row' = [row EXCEPT ![task[w]] = Renewed(@, lag)]
             /\ Goes(w, "invoke")
          \/ ~Holds(w, lag) /\ Rests(w) /\ UNCHANGED row
     \/ Goes(w, "invoke") /\ UNCHANGED row
  /\ UNCHANGED <<runVars, aroundVars, holder, reconciles>>

Heartbeat(w) ==
  /\ pc[w] = "invoke" /\ w \notin lost
  /\ \E lag \in Lags :
       /\ Holds(w, lag)
       /\ row' = [row EXCEPT ![task[w]] = Renewed(@, lag)]
  /\ UNCHANGED <<workerVars, runVars, aroundVars, holder, reconciles>>

(* A renewal found the lease gone, or too many of them were missed.        *)
LosesLease(w) ==
  /\ pc[w] = "invoke"
  /\ lost' = lost \cup {w}
  /\ UNCHANGED <<row, pc, task, seen, runVars, aroundVars, holder, reconciles>>

(* _requeue_or_fail                                                        *)
AfterError(w) == IF seen[w] >= MaxTransient THEN "block" ELSE "requeue"

(* The graph returned, interrupted elsewhere than expected, or raised.     *)
InvokeReturns(w) ==
  /\ pc[w] = "invoke"
  /\ IF w \in lost
       THEN Rests(w)
       ELSE \/ fence /\ Goes(w, "defer")
            \/ kind[Node[task[w]]] = "resume" /\ Goes(w, "upstream")
            \/ Goes(w, "commit")
            \/ Goes(w, "block")
            \/ Goes(w, AfterError(w))
  /\ UNCHANGED <<row, runVars, aroundVars, holder, reconciles>>

(* _commit_upstream_accept: the renewal is the owner check.                *)
CommitUpstream(w) ==
  /\ pc[w] = "upstream"
  /\ \E lag \in Lags :
       IF Holds(w, lag)
         THEN /\ row' = [row EXCEPT ![task[w]] = Renewed(@, lag)]
              /\ upstream' = upstream \cup {Node[task[w]]}
              /\ Goes(w, "successor") \/ Rests(w)
         ELSE Rests(w) /\ UNCHANGED <<row, upstream>>
  /\ UNCHANGED <<kind, starting, run, aroundVars, holder, reconciles>>

(* Transactions that end the lease; a thread that was not told of a        *)
(* successor's commit tries to put the action back.                        *)
Settles(w, from, r) ==
  /\ pc[w] = from
  /\ row' = [row EXCEPT ![task[w]] = r]
  /\ holder' = [holder EXCEPT ![task[w]] = "nobody"]
  /\ Rests(w) \/ (from = "successor" /\ Goes(w, AfterError(w)))
  /\ UNCHANGED <<kind, aroundVars, reconciles>>

(* _commit_dispatch, _mark_attempt_outcome and _commit_successor_dispatch: *)
(* a started attempt is dispatched to its adapter, a resumed one succeeds. *)
Commit(w) ==
  \E from \in {"commit", "successor"}, lag \in Lags :
    /\ pc[w] = from /\ Holds(w, lag)
    /\ Settles(w, from, Settled(row[task[w]], "succeeded"))
    /\ LET n == Node[task[w]]
       IN  /\ starting' = starting \ {n}
           /\ upstream' = IF kind[n] = "resume" THEN upstream \cup {n} ELSE upstream
    /\ UNCHANGED run

(* The status of a run whose dispatch is blocked: an attempt that has      *)
(* succeeded cannot be, so its run is left for reconciliation.             *)
RunBlocked(n) ==
  IF n \in upstream
    THEN IF run[n] = "running" THEN "reconciliation_required" ELSE run[n]
    ELSE IF run[n] \in {"cancelled", "archived"} THEN run[n] ELSE "blocked"

(* _mark_blocked                                                           *)
Block(w) ==
  \E lag \in Lags :
    /\ pc[w] = "block" /\ Holds(w, lag)
    /\ Settles(w, "block", Settled(row[task[w]], "failed"))
    /\ starting' = starting \ {Node[task[w]]}
    /\ run' = [run EXCEPT ![Node[task[w]]] = RunBlocked(Node[task[w]])]
    /\ UNCHANGED upstream

Requeue(w) ==
  \E lag \in Lags :
    /\ pc[w] = "requeue" /\ Holds(w, lag)
    /\ Settles(w, "requeue", Requeued(row[task[w]], RetryTime - lag))
    /\ UNCHANGED <<starting, upstream, run>>

(* _defer_for_maintenance                                                  *)
Defer(w) ==
  \E lag \in Lags :
    /\ pc[w] = "defer" /\ Holds(w, lag)
    /\ Settles(w, "defer",
               Requeued(row[task[w]], (IF fence THEN RetryTime ELSE 0) - lag))
    /\ UNCHANGED <<starting, upstream, run>>

(* The owner check failed, or the transaction raised.                      *)
Misses(w) ==
  /\ pc[w] \in {"upstream", "commit", "successor", "block", "requeue", "defer"}
  /\ IF pc[w] = "successor" THEN Rests(w) \/ Goes(w, AfterError(w)) ELSE Rests(w)
  /\ UNCHANGED <<row, runVars, aroundVars, holder, reconciles>>

Works(w) ==
  \/ Handle(w) \/ RenewsFirst(w) \/ InvokeReturns(w) \/ CommitUpstream(w)
  \/ Commit(w) \/ Block(w) \/ Requeue(w) \/ Defer(w) \/ Misses(w)

-----------------------------------------------------------------------------
(* Around the workers                                                      *)

Live(n) == \E a \in Actions : Node[a] = n /\ row[a].status \in {"pending", "leased"}

(* _repair_starting_without_progress: an attempt that is still starting    *)
(* with no live action gets a new one, or that one again with the counts   *)
(* it has.  The status of the run is not looked at.                        *)
SweepsStarting ==
  /\ sweep = "starting" /\ sweep' = "failed"
  /\ LET dead == {Repair[n] : n \in {m \in starting : ~Live(m)}}
     IN  /\ row' = [a \in Actions |->
                      IF a \in dead THEN Requeued(row[a], 0) ELSE row[a]]
         /\ late' = IF fence THEN late \cup {a \in dead : row[a].status = "absent"}
                             ELSE late
  /\ UNCHANGED <<workerVars, runVars, fence, holder, reconciles>>

(* Fault: a run whose node attempt succeeded is not looked at.             *)
StrandedUnfinished(n) ==
  /\ run[n] = "running" /\ ~Live(n) /\ n \notin upstream
  /\ \E a \in Actions : Node[a] = n /\ row[a].status = "failed"

Stranded(n) ==
  /\ run[n] = "running" /\ ~Live(n)
  /\ \E a \in Actions : Node[a] = n /\ row[a].status = "failed"

(* _repair_terminal_failed_dispatch                                        *)
SweepsFailed ==
  /\ sweep = "failed" /\ sweep' = "starting"
  /\ run' = [n \in Nodes |-> IF Stranded(n) THEN "reconciliation_required" ELSE run[n]]
  /\ UNCHANGED <<kind, starting, upstream, row, workerVars, fence, late, holder,
                 reconciles>>

Maintains == SweepsStarting \/ SweepsFailed

(* The revive pass of reconcile_run: the attempts start anew, the          *)
(* recoveries do not.  An action whose node attempt succeeded stays dead.  *)
Reconciles(n) ==
  /\ reconciles < MaxReconciles
  /\ run[n] \in {"blocked", "reconciliation_required"} /\ n \notin upstream
  /\ LET dead == {a \in Actions : Node[a] = n /\ row[a].status = "failed"}
     IN  row' = [a \in Actions |->
                   IF a \in dead THEN [Requeued(row[a], 0) EXCEPT !.attempts = 0]
                                 ELSE row[a]]
  /\ run' = [run EXCEPT ![n] = "running"]
  /\ reconciles' = reconciles + 1
  /\ UNCHANGED <<kind, starting, upstream, workerVars, aroundVars, holder>>

(* cancel_run leaves the run's attempts and actions as they are.           *)
CancelsRun(n) ==
  /\ run[n] \notin {"cancelled", "archived"}
  /\ run' = [run EXCEPT ![n] = "cancelled"]
  /\ UNCHANGED <<kind, starting, upstream, row, workerVars, aroundVars, holder,
                 reconciles>>

(* archive_run cancels the live actions of the run's attempts.             *)
Archives(n) ==
  /\ run[n] \in {"cancelled", "reconciliation_required"}
  /\ run' = [run EXCEPT ![n] = "archived"]
  /\ LET live == {a \in Actions : Node[a] = n /\ row[a].status \in {"pending", "leased"}}
     IN  /\ row' = [a \in Actions |->
                      IF a \in live THEN Settled(row[a], "cancelled") ELSE row[a]]
         /\ holder' = [a \in Actions |-> IF a \in live THEN "nobody" ELSE holder[a]]
  /\ UNCHANGED <<kind, starting, upstream, workerVars, aroundVars, reconciles>>

FenceRises ==
  /\ ~fence /\ fence' = TRUE
  /\ UNCHANGED <<row, workerVars, runVars, sweep, late, holder, reconciles>>

(* Released, expired or its owner dead; a later fence finds every action   *)
(* older than itself.                                                      *)
FenceLifts ==
  /\ fence /\ fence' = FALSE /\ late' = {}
  /\ UNCHANGED <<row, workerVars, runVars, sweep, holder, reconciles>>

(* The process ends and is started again.                                  *)
Crash ==
  /\ \E w \in Workers : pc[w] # "idle"
  /\ pc' = [w \in Workers |-> "idle"] /\ task' = [w \in Workers |-> "none"]
  /\ seen' = [w \in Workers |-> 0] /\ lost' = {}
  /\ sweep' = "starting"
  /\ UNCHANGED <<row, runVars, fence, late, holder, reconciles>>

Down(t) == IF t > -MaxLag THEN t - 1 ELSE t

Tick ==
  /\ row' = [a \in Actions |-> [row[a] EXCEPT !.lease = Down(@), !.wait = Down(@)]]
  /\ UNCHANGED <<workerVars, runVars, aroundVars, holder, reconciles>>

Next ==
  \/ \E w \in Workers : Claim(w) \/ Works(w) \/ Heartbeat(w) \/ LosesLease(w)
  \/ \E n \in Nodes : Reconciles(n) \/ CancelsRun(n) \/ Archives(n)
  \/ Maintains \/ FenceRises \/ FenceLifts \/ Crash \/ Tick

Spec == Init /\ [][Next]_vars

(* The pump's threads keep claiming and get on with what they claimed, an  *)
(* invocation returns, the maintenance thread sweeps, and time passes.     *)
FairSpec ==
  /\ Spec /\ WF_vars(Tick) /\ WF_vars(Maintains)
  /\ \A w \in Workers : WF_vars(Claim(w)) /\ WF_vars(Works(w))

-----------------------------------------------------------------------------
(* Properties                                                              *)

Statuses == {"absent", "pending", "leased", "succeeded", "failed", "cancelled"}

RunStatuses ==
  {"running", "blocked", "reconciliation_required", "cancelled", "archived"}

Rows ==
  [status : Statuses, owner : {Owner[w] : w \in Workers} \cup {"nobody"},
   attempts : Nat, recoveries : Nat,
   lease : -MaxLag..LeaseTime, wait : -MaxLag..RetryTime]

TypeOK ==
  /\ kind \in [Nodes -> Kinds]
  /\ row \in [Actions -> Rows]
  /\ starting \subseteq Nodes /\ upstream \subseteq Nodes
  /\ run \in [Nodes -> RunStatuses]
  /\ sweep \in {"starting", "failed"}
  /\ pc \in [Workers -> {"idle", "claimed", "renew", "invoke", "upstream", "commit",
                         "successor", "block", "requeue", "defer"}]
  /\ task \in [Workers -> Actions \cup {"none"}]
  /\ \A w \in Workers : (task[w] = "none") <=> (pc[w] = "idle")
  /\ seen \in [Workers -> Nat] /\ lost \subseteq Workers
  /\ fence \in BOOLEAN /\ late \subseteq Actions
  /\ holder \in [Actions -> Workers \cup {"nobody"}]
  /\ reconciles \in 0..MaxReconciles

(* No action is claimed more often than its two budgets allow, whatever    *)
(* crashes, expiries and lost answers lie between the claims.              *)
BudgetsHold ==
  \A a \in Actions : row[a].attempts <= MaxAttempts /\ row[a].recoveries <= MaxRecoveries

Changes(a) ==
  \/ row'[a].status # row[a].status \/ row'[a].owner # row[a].owner
  \/ row'[a].lease > row[a].lease

(* A live action is renewed, put back or settled only for the owner that   *)
(* claimed it last, and taken from it only when the lease has run out,     *)
(* however late a statement runs; only archiving its run may do more.      *)
OnlyOwnerChanges ==
  [][\A a \in Actions : row[a].status \in {"pending", "leased"} /\ Changes(a) =>
       \/ Archives(Node[a])
       \/ row[a].lease <= 0 /\ \E w \in Workers : Claim(w)
       \/ \E w \in Workers :
            /\ task[w] = a /\ holder[a] # "nobody"
            /\ Owner[holder[a]] = Owner[w]
            /\ Works(w) \/ Heartbeat(w)]_vars

(* The threads, owners, heartbeats, repairs and commands keep the promises *)
(* of OutboxLease: every claim is within its budget and counted, no step   *)
(* but a reconciliation gives attempts back and none gives recoveries      *)
(* back, and an action that has succeeded is never armed again.            *)
Lease == INSTANCE OutboxLease WITH
  Restartable <- {},
  status      <- [a \in Actions |-> row[a].status],
  attempts    <- [a \in Actions |-> row[a].attempts],
  recoveries  <- [a \in Actions |-> row[a].recoveries]

ImplementsOutboxLease == Lease!Spec

(* An action that resumes an attempt is settled for good, even if the      *)
(* process crashes again and again, the fence never lifts or every commit  *)
(* fails.  One that starts an attempt need not be: it is armed again for   *)
(* as long as the attempt is starting.                                     *)
EveryDispatchEnds ==
  \A a \in Actions :
    \/ kind[Node[a]] = "start"
    \/ <>[](row[a].status \notin {"pending", "leased"})

(* No run is left running behind a dispatch that failed, not even when the *)
(* lease scan failed it.                                                   *)
FailuresSurface ==
  \A a \in Actions :
    (row[a].status = "failed") ~>
      (run[Node[a]] # "running" \/ \E b \in Actions :
         Node[b] = Node[a] /\ row[b].status \in {"pending", "leased"})

(* graph_dispatch_worker.py:924: a stale worker must not mutate the        *)
(* attempt or handoff after another has reclaimed the graph action.        *)
StaleWorkerFenced ==
  [][\A w \in Workers : CommitUpstream(w) /\ upstream' # upstream => holder[task[w]] = w]_vars
=============================================================================
