---------------------------- MODULE MutationLog ----------------------------
(***************************************************************************)
(* What the workflow ledger's single writer promises to those who submit   *)
(* mutations to it, with no threads, queue, batches or transactions.       *)
(* Mutations are numbered in the order they are accepted.                  *)
(***************************************************************************)
EXTENDS Naturals

CONSTANT MaxMutations   (* bound: how many mutations are ever accepted *)

VARIABLES
  accepted,   (* number of mutations accepted so far                       *)
  durable,    (* the mutations whose effects are in the database           *)
  answer      (* what the submitter of each mutation has been told         *)

mlVars == <<accepted, durable, answer>>

Id == 1..MaxMutations

(* "none": the future is pending;  "ok": it holds the mutation's result;   *)
(* "failed": it holds an error that says the mutation did not happen;      *)
(* "unknown": the flush gave up and says the outcome is unknown.           *)
Answer == {"none", "ok", "failed", "unknown"}

Init ==
  /\ accepted = 0
  /\ durable = {}
  /\ answer = [n \in Id |-> "none"]

Accept ==
  /\ accepted < MaxMutations
  /\ accepted' = accepted + 1
  /\ UNCHANGED <<durable, answer>>

(* A set of mutations becomes durable at once, never one that was refused, *)
(* and only after every earlier mutation that will ever be durable.        *)
Commit(S) ==
  /\ S \cap durable = {}
  /\ \A n \in S : answer[n] # "failed"
  /\ \A n \in S, d \in durable : d < n
  /\ durable' = durable \cup S
  /\ UNCHANGED <<accepted, answer>>

Tell(n, a) ==
  /\ answer[n] = "none"
  /\ answer' = [answer EXCEPT ![n] = a]
  /\ UNCHANGED <<accepted, durable>>

Confirm(n) == n \in durable /\ Tell(n, "ok")

Refuse(n) == n \notin durable /\ Tell(n, "failed")

GiveUp(n) == Tell(n, "unknown")

Next ==
  \/ Accept
  \/ \E S \in SUBSET (1..accepted) : Commit(S)
  \/ \E n \in 1..accepted : Confirm(n) \/ Refuse(n) \/ GiveUp(n)

Spec == Init /\ [][Next]_mlVars
=============================================================================
