---------------------------- MODULE EventPublish ----------------------------
(***************************************************************************)
(* Delivery of a knowledge result to the parent run: event_publish_worker  *)
(* .py, with the producer and the consumer of knowledge_sideflow_service   *)
(* .py and the hook of readiness/knowledge_recheck.py.  A worker leases a  *)
(* batch of event_publish actions, delivers each, runs the hook and        *)
(* acknowledges.  All it writes goes through the queue of the ledger       *)
(* writer, and it waits 30 seconds for each answer: a mutation whose       *)
(* caller has given up still commits.                                      *)
(*                                                                         *)
(* Times are relative to the clock, as in GraphDispatch.                   *)
(***************************************************************************)
EXTENDS Integers, Sequences

CONSTANTS
  Events,         (* event_publish rows                                     *)
  LeaseTime,      (* ticks a lease lasts                                    *)
  RetryTime,      (* ticks a requeued action waits                          *)
  MaxAttempts,    (* MAX_OUTBOX_LEASE_ATTEMPTS                              *)
  MaxRecoveries,  (* MAX_OUTBOX_LEASE_RECOVERIES                            *)
  MaxAge,         (* bound: ticks a mutation waits in the queue             *)
  MaxLate         (* bound: mutations in a queue when a caller gives up     *)

ASSUME PublishAssumption ==
  /\ {LeaseTime, RetryTime, MaxRecoveries} \subseteq Nat \ {0}
  /\ MaxAttempts \in Nat \ {0, 1}
  /\ MaxAge \in Nat /\ MaxLate \in Nat
  /\ "none" \notin Events

VARIABLES
  row,            (* outbox_actions                                         *)
  absorbed,       (* events in the parent's log                             *)
  noted,          (* invocations with the error of a dead letter            *)
  parent,         (* the parent run is neither archived nor cancelled       *)
  queue,          (* the mutations the writer has yet to run                *)
  pc, batch, cur, (* the worker: where it is, the leased actions it has
                     still to handle, the one it handles                    *)
  hooked          (* history: events the readiness hook has run for         *)

ledger == <<row, absorbed, noted, parent>>
worker == <<pc, batch, cur>>
vars   == <<ledger, queue, worker, hooked>>

Ops == {"lease", "absorb", "ack", "requeue", "bury"}

Init ==
  /\ row = [e \in Events |-> [status |-> "absent", attempts |-> 0, recoveries |-> 0,
                              lease |-> -MaxAge, wait |-> 0]]
  /\ absorbed = {}
  /\ noted = {} /\ parent = TRUE
  /\ queue = << >>
  /\ pc = "idle"
  /\ batch = {} /\ cur = "none"
  /\ hooked = {}

-----------------------------------------------------------------------------
(* The statements of repository.py, age ticks after their caller read the  *)
(* clock.  Every claim carries the same lease_owner, so only its time      *)
(* tells a lease.                                                          *)

Live(r) == r.status \in {"pending", "leased"}

Claimable(r, age) == Live(r) /\ r.wait <= -age /\ r.lease <= -age

OverGate(r) == r.attempts >= MaxAttempts \/ r.recoveries >= MaxRecoveries

(* Fault: a failed action gets a status of its own.                        *)
SettledAsDead(r, status) ==
  [r EXCEPT !.status = IF status = "failed" THEN "dead" ELSE status, !.lease = -MaxAge]

Settled(r, status) == [r EXCEPT !.status = status, !.lease = -MaxAge]

(* Fault: the claim of an expired lease is not counted.                    *)
ClaimedUncounted(r, age) ==
  [r EXCEPT !.status = "leased", !.lease = LeaseTime - age,
            !.attempts = IF r.status = "pending" THEN @ + 1 ELSE @]

Claimed(r, age) ==
  [r EXCEPT !.status = "leased", !.lease = LeaseTime - age,
            !.attempts   = IF r.status = "pending" THEN @ + 1 ELSE @,
            !.recoveries = IF r.status = "leased"  THEN @ + 1 ELSE @]

(* The sweep over the gates, then the claim of what is ready               *)
Leased(age) ==
  [e \in Events |-> LET r == row[e] IN
     IF ~Claimable(r, age) THEN r
     ELSE IF OverGate(r) THEN Settled(r, "failed") ELSE Claimed(r, age)]

Held(r, age) == r.status = "leased" /\ r.lease > -age

(* Fault: a delivery that is put back was no attempt.                      *)
RequeuedUncounted(r, age) ==
  [Settled(r, "pending") EXCEPT !.wait = RetryTime - age, !.attempts = @ - 1]

Requeued(r, age) == [Settled(r, "pending") EXCEPT !.wait = RetryTime - age]

-----------------------------------------------------------------------------
(* record_knowledge_sideflow_child_success: the row is written with the    *)
(* child's terminal facts.                                                 *)
Publishes(e) ==
  /\ row[e].status = "absent"
  /\ row' = [row EXCEPT ![e].status = "pending"]
  /\ UNCHANGED <<absorbed, noted, parent, queue, worker, hooked>>

ParentEnds ==
  /\ parent /\ parent' = FALSE
  /\ UNCHANGED <<row, absorbed, noted, queue, worker, hooked>>

-----------------------------------------------------------------------------
(* The worker                                                              *)

Goes(to) == pc' = to /\ UNCHANGED <<batch, cur>>

Submits(op, to) ==
  /\ queue' = Append(queue, [op |-> op, event |-> cur, age |-> 0])
  /\ Goes(to)

(* run_once                                                                *)
AsksLease ==
  /\ pc = "idle"
  /\ Submits("lease", "leasing")
  /\ UNCHANGED <<ledger, hooked>>

Takes ==
  /\ pc = "next"
  /\ IF batch = {}
       THEN pc' = "idle" /\ cur' = "none" /\ UNCHANGED batch
       ELSE \E e \in batch :
              pc' = "deliver" /\ cur' = e /\ batch' = batch \ {e}
  /\ UNCHANGED <<ledger, queue, hooked>>

(* Fault: the hook is for a first absorption only.                         *)
DeliversWithoutHook ==
  /\ pc = "deliver"
  /\ \/ Goes("retry") /\ UNCHANGED queue
     \/ parent /\ IF cur \in absorbed THEN Submits("ack", "acking")
                                      ELSE Submits("absorb", "absorbing")
  /\ UNCHANGED <<ledger, hooked>>

(* absorb_knowledge_result up to its mutation.  Any of its checks may      *)
(* raise; that of the parent's status does when the parent has ended.      *)
Delivers ==
  /\ pc = "deliver"
  /\ \/ Goes("retry") /\ UNCHANGED queue
     \/ parent /\ IF cur \in absorbed
                    THEN Goes("hook") /\ UNCHANGED queue
                    ELSE Submits("absorb", "absorbing")
  /\ UNCHANGED <<ledger, hooked>>

(* _readiness_recheck, which never raises, then the acknowledgement        *)
RunsHook ==
  /\ pc = "hook"
  /\ hooked' = hooked \union {cur}
  /\ Submits("ack", "acking")
  /\ UNCHANGED ledger

(* Fault: the claim is not counted twice.                                  *)
LastTryByOneLess(r) == r.attempts >= MaxAttempts

(* attempt_count has the claim already, and one is added.                  *)
LastTry(r) == r.attempts + 1 >= MaxAttempts

(* _requeue_or_dead_letter                                                 *)
Retries ==
  /\ pc = "retry"
  /\ IF LastTry(row[cur]) THEN Submits("bury", "burying")
                           ELSE Submits("requeue", "requeueing")
  /\ UNCHANGED <<ledger, hooked>>

(* Fault: an absorption without an answer is taken for done.               *)
RaisesAsAbsorbed ==
  IF pc = "absorbing"
    THEN Goes("hook")
    ELSE pc' = "idle" /\ batch' = {} /\ cur' = "none"

(* What an exception, or 30 seconds without an answer, does to the worker: *)
(* a delivery that raises is data, all else leaves run_once, and the rest  *)
(* of the batch with it.                                                   *)
Raises ==
  IF pc = "absorbing"
    THEN Goes("retry")
    ELSE pc' = "idle" /\ batch' = {} /\ cur' = "none"

Waiting == pc \in {"leasing", "absorbing", "acking", "requeueing", "burying"}

TimesOut ==
  /\ Waiting /\ queue # << >> /\ Len(queue) <= MaxLate
  /\ Raises
  /\ UNCHANGED <<ledger, queue, hooked>>

-----------------------------------------------------------------------------
(* The writer: it runs the mutations in order; the caller waits for the    *)
(* last, if it still waits.                                                *)

Awaited == Waiting /\ Len(queue) = 1

Returns(to) == IF Awaited THEN Goes(to) ELSE UNCHANGED worker

CommitsLease ==
  LET age == Head(queue).age IN
  /\ row' = Leased(age)
  /\ IF Awaited
       THEN /\ batch' = {e \in Events : Claimable(row[e], age) /\ ~OverGate(row[e])}
            /\ pc' = "next" /\ UNCHANGED cur
       ELSE UNCHANGED worker
  /\ UNCHANGED <<absorbed, noted>>

(* Its event id is looked for again: a second absorption does nothing.      *)
CommitsAbsorb ==
  /\ absorbed' = absorbed \union {Head(queue).event}
  /\ Returns("hook")
  /\ UNCHANGED <<row, noted>>

(* The clock is read in the mutation.                                      *)
CommitsAck ==
  LET e == Head(queue).event IN
  /\ row' = IF Held(row[e], 0) THEN [row EXCEPT ![e] = Settled(@, "succeeded")] ELSE row
  /\ Returns("next")
  /\ UNCHANGED <<absorbed, noted>>

CommitsRequeue ==
  LET m == Head(queue) IN
  /\ row' = IF Held(row[m.event], m.age)
              THEN [row EXCEPT ![m.event] = Requeued(@, m.age)] ELSE row
  /\ Returns("next")
  /\ UNCHANGED <<absorbed, noted>>

(* _dead_letter: the child run has succeeded, so the error goes to the     *)
(* invocation, whether or not the action could be failed.                  *)
CommitsBury ==
  LET m == Head(queue) IN
  /\ row' = IF Held(row[m.event], m.age)
              THEN [row EXCEPT ![m.event] = Settled(@, "failed")] ELSE row
  /\ noted' = noted \union {m.event}
  /\ Returns("next")
  /\ UNCHANGED absorbed

Pops == queue' = Tail(queue)

Commits ==
  /\ queue # << >>
  /\ CASE Head(queue).op = "lease"   -> CommitsLease
       [] Head(queue).op = "absorb"  -> CommitsAbsorb
       [] Head(queue).op = "ack"     -> CommitsAck
       [] Head(queue).op = "requeue" -> CommitsRequeue
       [] OTHER                      -> CommitsBury
  /\ Pops /\ UNCHANGED <<parent, hooked>>

(* The mutation raises or the database refuses it: it is rolled back.      *)
CommitFails ==
  /\ queue # << >>
  /\ IF Awaited THEN Raises ELSE UNCHANGED worker
  /\ Pops /\ UNCHANGED <<ledger, hooked>>

(* The process ends and is started again.                                  *)
Crash ==
  /\ queue' = << >>
  /\ pc' = "idle" /\ batch' = {} /\ cur' = "none"
  /\ UNCHANGED <<ledger, hooked>>

Down(t) == IF t > -MaxAge THEN t - 1 ELSE t

Tick ==
  /\ \A i \in DOMAIN queue : queue[i].age < MaxAge
  /\ queue' = [i \in DOMAIN queue |-> [queue[i] EXCEPT !.age = @ + 1]]
  /\ row' = [e \in Events |-> [row[e] EXCEPT !.lease = Down(@), !.wait = Down(@)]]
  /\ UNCHANGED <<absorbed, noted, parent, worker, hooked>>

WorkerStep == AsksLease \/ Takes \/ Delivers \/ RunsHook \/ Retries

Next ==
  \/ \E e \in Events : Publishes(e)
  \/ WorkerStep \/ TimesOut \/ Commits \/ CommitFails
  \/ Crash \/ ParentEnds \/ Tick

Spec == Init /\ [][Next]_vars

(* The maintenance loop and the writer go on, and time passes; a database  *)
(* that is asked again and again does not refuse for ever.                 *)
FairSpec ==
  /\ Spec
  /\ WF_vars(Tick) /\ WF_vars(WorkerStep) /\ SF_vars(Commits)

-----------------------------------------------------------------------------
(* Properties                                                              *)

Rows == [status : {"absent", "pending", "leased", "succeeded", "failed"},
         attempts : Nat, recoveries : Nat, lease : Int, wait : Int]

Mutations == [op : Ops, event : Events \union {"none"}, age : Nat]

TypeOK ==
  /\ row \in [Events -> Rows]
  /\ absorbed \subseteq Events
  /\ noted \subseteq Events /\ parent \in BOOLEAN
  /\ queue \in Seq(Mutations)
  /\ pc \in {"idle", "leasing", "next", "deliver", "absorbing", "hook", "acking", "retry",
             "requeueing", "burying"}
  /\ batch \subseteq Events
  /\ cur \in Events \union {"none"}
  /\ hooked \subseteq Events

(* What the worker does is delivery at least once, whatever is redelivered,*)
(* late or lost (event_publish_worker.py:5).                               *)
Delivery == INSTANCE AtLeastOnce WITH
  Messages  <- Events,
  sent      <- {e \in Events : row[e].status # "absent"},
  delivered <- absorbed,
  confirmed <- {e \in Events : row[e].status = "succeeded"},
  lost      <- {e \in Events : row[e].status = "failed"}

ImplementsAtLeastOnce == Delivery!Spec

(* The rows keep the promises of OutboxLease, by whichever late mutation   *)
(* they are changed: a claim is counted and within its budgets, nothing    *)
(* gives an attempt back, and only what is leased is settled               *)
(* (repository.py:33).                                                     *)
Lease == INSTANCE OutboxLease WITH
  Actions    <- Events, Restartable <- {},
  status     <- [e \in Events |-> row[e].status],
  attempts   <- [e \in Events |-> row[e].attempts],
  recoveries <- [e \in Events |-> row[e].recoveries]

ImplementsOutboxLease == Lease!Spec

(* An action is acknowledged only when the readiness hook has run for it,  *)
(* though a crash may have come between the absorption and the hook        *)
(* (event_publish_worker.py:104).                                          *)
AcknowledgedIsHooked ==
  \A e \in Events : row[e].status = "succeeded" => e \in hooked

(* A dead letter without a trace comes from lost leases only: retries end  *)
(* with the worker, which leaves its error on the invocation, before the   *)
(* attempt gate of the lease scan is reached (event_publish_worker.py:118).*)
SilentOnlyByRecoveries ==
  \A e \in Events :
    row[e].status = "failed" /\ e \notin noted => row[e].recoveries >= MaxRecoveries

(* Every published event is acknowledged or dead-lettered in the end.      *)
EveryEventSettles == \A e \in Events : Live(row[e]) ~> ~Live(row[e])
=============================================================================
