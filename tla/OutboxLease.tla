---------------------------- MODULE OutboxLease -----------------------------
(***************************************************************************)
(* What the outbox table of the workflow ledger promises of each of its    *)
(* actions, with no workers, owners, clocks or queues: who may take an     *)
(* action how often, and which outcomes are final.  A claim of an action   *)
(* that waits is an attempt, one of an action that is already leased a     *)
(* recovery, and each has a budget of its own.                             *)
(***************************************************************************)
EXTENDS Naturals

CONSTANTS
  Actions,
  Restartable,    (* actions that a worker may put back as if they were new *)
  MaxAttempts, MaxRecoveries

VARIABLES status, attempts, recoveries

leaseVars == <<status, attempts, recoveries>>

Init ==
  /\ status \in [Actions -> {"absent", "pending"}]
  /\ attempts = [a \in Actions |-> 0]
  /\ recoveries = [a \in Actions |-> 0]

Live == {a \in Actions : status[a] \in {"pending", "leased"}}

InBudget(a) == attempts[a] < MaxAttempts /\ recoveries[a] < MaxRecoveries

Becomes(S, s) == status' = [a \in Actions |-> IF a \in S THEN s ELSE status[a]]

KeepsCounts == UNCHANGED <<attempts, recoveries>>

(* One transaction fails what has used up a budget and leases what has     *)
(* not: those that wait as an attempt, those that are leased as a recovery.*)
Claims(taken, spent) ==
  /\ taken \subseteq Live /\ \A a \in taken : InBudget(a)
  /\ spent \subseteq Live /\ \A a \in spent : ~InBudget(a)
  /\ status' = [a \in Actions |-> IF a \in taken THEN "leased"
                                  ELSE IF a \in spent THEN "failed" ELSE status[a]]
  /\ attempts' = [a \in Actions |->
       IF a \in taken /\ status[a] = "pending" THEN attempts[a] + 1 ELSE attempts[a]]
  /\ recoveries' = [a \in Actions |->
       IF a \in taken /\ status[a] = "leased" THEN recoveries[a] + 1 ELSE recoveries[a]]

(* Whoever holds a lease puts the action back, fails or completes it.      *)
Settles(a, s) == status[a] = "leased" /\ Becomes({a}, s) /\ KeepsCounts

Cancels(S) == S \subseteq Live /\ Becomes(S, "cancelled") /\ KeepsCounts

(* What has not been completed may be armed again, with the counts it has. *)
Arms(S) ==
  /\ \A a \in S : status[a] \in {"absent", "failed", "cancelled"}
  /\ Becomes(S, "pending") /\ KeepsCounts

(* An action that has to wait for something other than its worker goes back*)
(* with both budgets new.                                                  *)
Restarts(a) ==
  /\ a \in Restartable /\ status[a] = "leased"
  /\ Becomes({a}, "pending")
  /\ attempts'   = [attempts EXCEPT ![a] = 0]
  /\ recoveries' = [recoveries EXCEPT ![a] = 0]

(* A command gives failed actions new attempts, never new recoveries, and  *)
(* so does the end of a wait, to an action that may still be waiting.      *)
Revives(S) ==
  /\ \A a \in S : status[a] = "failed" \/ (a \in Restartable /\ status[a] = "pending")
  /\ Becomes(S, "pending")
  /\ attempts' = [a \in Actions |-> IF a \in S THEN 0 ELSE attempts[a]]
  /\ UNCHANGED recoveries

Next ==
  \/ \E taken, spent \in SUBSET Actions : Claims(taken, spent)
  \/ \E a \in Actions, s \in {"pending", "succeeded", "failed"} : Settles(a, s)
  \/ \E a \in Actions : Restarts(a)
  \/ \E S \in SUBSET Actions : Cancels(S) \/ Arms(S) \/ Revives(S)

Spec == Init /\ [][Next]_leaseVars
=============================================================================
