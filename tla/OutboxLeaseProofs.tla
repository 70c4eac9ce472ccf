------------------------- MODULE OutboxLeaseProofs --------------------------
(***************************************************************************)
(* What follows from the promises of OutboxLease alone, for any actions    *)
(* and any budgets: how often an action can be claimed in its whole life.  *)
(* History variables count what the table forgets: the claims of each      *)
(* action, the times it was given new attempts, and the times it was put   *)
(* back as if it were new.                                                 *)
(***************************************************************************)
EXTENDS OutboxLease, TLAPS

VARIABLES claims, revivals, restarts

counted == <<leaseVars, claims, revivals, restarts>>

(* An action was claimed in a step that raised one of its counts.          *)
Claimed(a) == attempts'[a] > attempts[a] \/ recoveries'[a] > recoveries[a]

(* It was put back with both budgets new.                                  *)
Restarted(a) ==
  /\ a \in Restartable /\ status[a] = "leased" /\ status'[a] = "pending"
  /\ attempts'[a] = 0 /\ recoveries'[a] = 0

(* It was given attempts back, and no more.                                *)
Revived(a) == attempts'[a] < attempts[a] /\ ~Restarted(a)

CountsFromZero ==
  /\ claims = [a \in Actions |-> 0]
  /\ revivals = [a \in Actions |-> 0]
  /\ restarts = [a \in Actions |-> 0]

Counts ==
  /\ claims' = [a \in Actions |-> IF Claimed(a) THEN claims[a] + 1 ELSE claims[a]]
  /\ revivals' = [a \in Actions |-> IF Revived(a) THEN revivals[a] + 1 ELSE revivals[a]]
  /\ restarts' = [a \in Actions |-> IF Restarted(a) THEN restarts[a] + 1 ELSE restarts[a]]

CountedSpec ==
  Spec /\ CountsFromZero /\ [][Counts]_counted

(* Neither budget is ever overdrawn.                                       *)
Budgeted ==
  \A a \in Actions :
    attempts[a] \in 0..MaxAttempts /\ recoveries[a] \in 0..MaxRecoveries

(* In its life an action is claimed once for each attempt, of which each   *)
(* revival gives it a new budget, and once for each recovery, of which     *)
(* there is one budget; only a restart renews both.                        *)
ClaimsBounded ==
  \A a \in Actions :
    claims[a] <= MaxAttempts * (revivals[a] + 1) + MaxRecoveries
                   + (MaxAttempts + MaxRecoveries) * restarts[a]

Statuses == {"absent", "pending", "leased", "succeeded", "failed", "cancelled"}

LeaseType ==
  /\ status \in [Actions -> Statuses]
  /\ attempts \in [Actions -> Nat] /\ recoveries \in [Actions -> Nat]

LInv == LeaseType /\ Budgeted

(* The claims so far are those of the present attempts and recoveries, and *)
(* at most a budget of attempts for each revival and both for each restart.*)
CInv ==
  /\ claims \in [Actions -> Nat] /\ revivals \in [Actions -> Nat]
  /\ restarts \in [Actions -> Nat]
  /\ \A a \in Actions :
       claims[a] <= attempts[a] + recoveries[a] + MaxAttempts * revivals[a]
                      + (MaxAttempts + MaxRecoveries) * restarts[a]

-----------------------------------------------------------------------------
(* What one step does to one action.                                       *)
LEMMA OneAction ==
  ASSUME MaxAttempts \in Nat, MaxRecoveries \in Nat, LInv, [Next]_leaseVars
  PROVE  /\ LeaseType'
         /\ \A a \in Actions :
              \/ /\ attempts'[a] = attempts[a] /\ recoveries'[a] = recoveries[a]
                 /\ status'[a] = status[a] \/ status[a] # "succeeded"
              \/ /\ attempts'[a] = attempts[a] + 1 /\ recoveries'[a] = recoveries[a]
                 /\ attempts[a] < MaxAttempts
                 /\ status[a] = "pending" /\ status'[a] = "leased"
              \/ /\ attempts'[a] = attempts[a] /\ recoveries'[a] = recoveries[a] + 1
                 /\ recoveries[a] < MaxRecoveries
                 /\ status[a] = "leased" /\ status'[a] = "leased"
              \/ /\ attempts'[a] = 0 /\ recoveries'[a] = recoveries[a]
                 /\ status[a] # "succeeded" /\ status'[a] = "pending"
              \/ Restarted(a)
<1> USE DEF LInv, LeaseType, Budgeted, Statuses, Becomes, KeepsCounts, Live
<1>1. CASE UNCHANGED leaseVars
  BY <1>1 DEF leaseVars
<1>2. ASSUME NEW taken \in SUBSET Actions, NEW spent \in SUBSET Actions, Claims(taken, spent)
      PROVE  /\ LeaseType'
             /\ \A a \in Actions :
                  \/ /\ attempts'[a] = attempts[a] /\ recoveries'[a] = recoveries[a]
                     /\ status'[a] = status[a] \/ status[a] # "succeeded"
                  \/ /\ attempts'[a] = attempts[a] + 1 /\ recoveries'[a] = recoveries[a]
                     /\ attempts[a] < MaxAttempts
                     /\ status[a] = "pending" /\ status'[a] = "leased"
                  \/ /\ attempts'[a] = attempts[a] /\ recoveries'[a] = recoveries[a] + 1
                     /\ recoveries[a] < MaxRecoveries
                     /\ status[a] = "leased" /\ status'[a] = "leased"
  <2>1. status' \in [Actions -> Statuses]
    BY <1>2 DEF Claims
  <2>2. attempts' \in [Actions -> Nat] /\ recoveries' \in [Actions -> Nat]
    BY <1>2 DEF Claims
  <2>3. \A a \in Actions :
          /\ status'[a] = IF a \in taken THEN "leased"
                          ELSE IF a \in spent THEN "failed" ELSE status[a]
          /\ attempts'[a] =
               IF a \in taken /\ status[a] = "pending" THEN attempts[a] + 1 ELSE attempts[a]
          /\ recoveries'[a] =
               IF a \in taken /\ status[a] = "leased" THEN recoveries[a] + 1 ELSE recoveries[a]
    BY <1>2 DEF Claims
  <2>4. /\ \A a \in taken : status[a] \in {"pending", "leased"} /\ InBudget(a)
        /\ \A a \in spent : status[a] \in {"pending", "leased"}
    BY <1>2 DEF Claims
  <2> QED
    BY <2>1, <2>2, <2>3, <2>4 DEF InBudget
<1>3. ASSUME NEW a \in Actions, NEW s \in {"pending", "succeeded", "failed"}, Settles(a, s)
      PROVE  /\ LeaseType' /\ KeepsCounts
             /\ \A b \in Actions : status'[b] = status[b] \/ status[b] # "succeeded"
  BY <1>3 DEF Settles
<1>4. ASSUME NEW S \in SUBSET Actions, Cancels(S) \/ Arms(S)
      PROVE  /\ LeaseType' /\ KeepsCounts
             /\ \A b \in Actions : status'[b] = status[b] \/ status[b] # "succeeded"
  BY <1>4 DEF Cancels, Arms
<1>5. ASSUME NEW S \in SUBSET Actions, Revives(S)
      PROVE  /\ LeaseType' /\ recoveries' = recoveries
             /\ \A a \in Actions :
                  \/ attempts'[a] = attempts[a] /\ status'[a] = status[a]
                  \/ attempts'[a] = 0 /\ status[a] # "succeeded" /\ status'[a] = "pending"
  BY <1>5 DEF Revives
<1>6. ASSUME NEW r \in Actions, Restarts(r)
      PROVE  /\ LeaseType'
             /\ \A a \in Actions :
                  \/ Restarted(a)
                  \/ /\ attempts'[a] = attempts[a] /\ recoveries'[a] = recoveries[a]
                     /\ status'[a] = status[a]
  BY <1>6 DEF Restarts, Restarted
<1> QED
  BY <1>1, <1>2, <1>3, <1>4, <1>5, <1>6 DEF Next

(* No attempt and no recovery has been used yet.                           *)
LEMMA LeaseInit ==
  ASSUME MaxAttempts \in Nat, MaxRecoveries \in Nat, Init
  PROVE  LInv
BY DEF Init, LInv, LeaseType, Budgeted, Statuses

(* Neither count passes its budget.                                        *)
LEMMA LeaseStep ==
  ASSUME MaxAttempts \in Nat, MaxRecoveries \in Nat, LInv, [Next]_leaseVars
  PROVE  LInv'
BY OneAction DEF LInv, LeaseType, Budgeted, Restarted

(* A claim that a gate refuses is never made: the counts stay within the   *)
(* budgets, whoever takes, loses, settles, arms or revives actions.        *)
THEOREM BudgetsKept ==
  ASSUME MaxAttempts \in Nat, MaxRecoveries \in Nat
  PROVE  Spec => []Budgeted
<1>1. Init => LInv
  BY LeaseInit
<1>2. LInv /\ [Next]_leaseVars => LInv'
  BY LeaseStep
<1>3. LInv => Budgeted
  BY DEF LInv
<1> QED
  BY <1>1, <1>2, <1>3, PTL DEF Spec

(* An action that has succeeded stays so, and is never claimed again.      *)
SuccessIsFinal ==
  [][\A a \in Actions : status[a] = "succeeded" =>
       /\ status'[a] = "succeeded"
       /\ attempts'[a] = attempts[a] /\ recoveries'[a] = recoveries[a]]_leaseVars

(* Nothing that follows a success takes it back: no late settlement, no    *)
(* sweep, no repair and no revival.                                        *)
THEOREM SuccessStays ==
  ASSUME MaxAttempts \in Nat, MaxRecoveries \in Nat
  PROVE  Spec => SuccessIsFinal
<1>1. Init => LInv
  BY LeaseInit
<1>2. LInv /\ [Next]_leaseVars => LInv'
  BY LeaseStep
<1>3. LInv /\ [Next]_leaseVars =>
        [\A a \in Actions : status[a] = "succeeded" =>
           /\ status'[a] = "succeeded"
           /\ attempts'[a] = attempts[a] /\ recoveries'[a] = recoveries[a]]_leaseVars
  BY OneAction DEF Restarted
<1> QED
  BY <1>1, <1>2, <1>3, PTL DEF Spec, SuccessIsFinal

-----------------------------------------------------------------------------
(* The count of claims                                                     *)

(* Each revival or restart adds one budget to what may be claimed.         *)
LEMMA OneMoreBudget ==
  ASSUME NEW m \in Nat, NEW r \in Nat
  PROVE  m * r \in Nat /\ m * (r + 1) = m * r + m
OBVIOUS

(* A claim takes one from a budget, a revival renews the attempts, and a   *)
(* restart both budgets.                                                   *)
LEMMA CountStep ==
  ASSUME MaxAttempts \in Nat, MaxRecoveries \in Nat, LInv, CInv,
         [Next]_leaseVars, [Counts]_counted
  PROVE  CInv'
<1>1. CASE UNCHANGED counted
  BY <1>1 DEF CInv, counted, leaseVars
<1>2. CASE Counts
  <2>1. /\ claims' \in [Actions -> Nat] /\ revivals' \in [Actions -> Nat]
        /\ restarts' \in [Actions -> Nat]
    BY <1>2 DEF Counts, CInv
  <2> DEFINE both == MaxAttempts + MaxRecoveries
  <2> SUFFICES ASSUME NEW a \in Actions
               PROVE  claims'[a] <= attempts'[a] + recoveries'[a] + MaxAttempts * revivals'[a]
                                      + both * restarts'[a]
    BY <2>1 DEF CInv
  <2>2. /\ claims[a] \in Nat /\ revivals[a] \in Nat /\ restarts[a] \in Nat /\ both \in Nat
        /\ attempts[a] \in 0..MaxAttempts /\ recoveries[a] \in 0..MaxRecoveries
        /\ claims[a] <= attempts[a] + recoveries[a] + MaxAttempts * revivals[a]
                          + both * restarts[a]
    BY DEF CInv, LInv, Budgeted
  <2>3. /\ claims'[a] = IF Claimed(a) THEN claims[a] + 1 ELSE claims[a]
        /\ revivals'[a] = IF Revived(a) THEN revivals[a] + 1 ELSE revivals[a]
        /\ restarts'[a] = IF Restarted(a) THEN restarts[a] + 1 ELSE restarts[a]
    BY <1>2 DEF Counts
  <2> HIDE DEF both
  <2>4. /\ MaxAttempts * revivals[a] \in Nat /\ both * restarts[a] \in Nat
        /\ MaxAttempts * (revivals[a] + 1) = MaxAttempts * revivals[a] + MaxAttempts
        /\ both * (restarts[a] + 1) = both * restarts[a] + both
    BY <2>2, OneMoreBudget
  <2>5. CASE Restarted(a)
    <3>1. restarts'[a] = restarts[a] + 1 /\ revivals'[a] = revivals[a] /\ claims'[a] = claims[a]
      BY <2>2, <2>3, <2>5 DEF Claimed, Revived, Restarted
    <3>2. both * restarts'[a] = both * restarts[a] + both
      BY <2>4, <3>1
    <3>3. attempts[a] + recoveries[a] <= both
      BY <2>2 DEF both
    <3>4. attempts'[a] = 0 /\ recoveries'[a] = 0
      BY <2>5 DEF Restarted
    <3> QED
      BY <2>2, <2>4, <3>1, <3>2, <3>3, <3>4
  <2>6. ASSUME ~Restarted(a) PROVE both * restarts'[a] = both * restarts[a]
    BY <2>3, <2>6
  <2>7. CASE ~Restarted(a) /\ attempts'[a] = attempts[a] /\ recoveries'[a] = recoveries[a]
    BY <2>2, <2>3, <2>4, <2>6, <2>7 DEF Claimed, Revived
  <2>8. CASE ~Restarted(a) /\ attempts'[a] = attempts[a] + 1 /\ recoveries'[a] = recoveries[a]
    BY <2>2, <2>3, <2>4, <2>6, <2>8 DEF Claimed, Revived
  <2>9. CASE ~Restarted(a) /\ attempts'[a] = attempts[a] /\ recoveries'[a] = recoveries[a] + 1
    BY <2>2, <2>3, <2>4, <2>6, <2>9 DEF Claimed, Revived
  <2>10. CASE ~Restarted(a) /\ attempts'[a] = 0 /\ recoveries'[a] = recoveries[a]
    <3>1. ~Claimed(a) /\ claims'[a] = claims[a]
      BY <2>2, <2>3, <2>10 DEF Claimed
    <3>2. CASE attempts[a] = 0
      BY <2>7, <2>10, <3>2
    <3>3. CASE attempts[a] # 0
      <4>1. revivals'[a] = revivals[a] + 1
        BY <2>2, <2>3, <2>10, <3>3 DEF Revived
      <4> QED
        BY <2>2, <2>4, <2>6, <2>10, <3>1, <4>1
    <3> QED
      BY <3>2, <3>3
  <2> QED
    BY <2>5, <2>7, <2>8, <2>9, <2>10, OneAction
<1> QED
  BY <1>1, <1>2

(* However many workers crash, lose their leases or put an action back, it *)
(* is claimed at most a budget of attempts for each revival and the first, *)
(* one budget of recoveries, and both again for each restart.              *)
THEOREM ClaimsAreBounded ==
  ASSUME MaxAttempts \in Nat, MaxRecoveries \in Nat
  PROVE  CountedSpec => []ClaimsBounded
<1>1. Init /\ CountsFromZero => LInv /\ CInv
  <2> SUFFICES ASSUME Init, CountsFromZero PROVE CInv
    BY LeaseInit
  <2>1. MaxAttempts * 0 = 0 /\ (MaxAttempts + MaxRecoveries) * 0 = 0
    OBVIOUS
  <2> QED
    BY <2>1 DEF Init, CountsFromZero, CInv
<1>2. LInv /\ CInv /\ [Next]_leaseVars /\ [Counts]_counted => LInv' /\ CInv'
  BY LeaseStep, CountStep
<1>3. LInv /\ CInv => ClaimsBounded
  <2> SUFFICES ASSUME LInv, CInv, NEW a \in Actions
               PROVE  claims[a] <= MaxAttempts * (revivals[a] + 1) + MaxRecoveries
                                     + (MaxAttempts + MaxRecoveries) * restarts[a]
    BY DEF ClaimsBounded
  <2>1. /\ claims[a] \in Nat /\ revivals[a] \in Nat /\ restarts[a] \in Nat
        /\ attempts[a] \in 0..MaxAttempts /\ recoveries[a] \in 0..MaxRecoveries
        /\ claims[a] <= attempts[a] + recoveries[a] + MaxAttempts * revivals[a]
                          + (MaxAttempts + MaxRecoveries) * restarts[a]
    BY DEF CInv, LInv, Budgeted
  <2>2. /\ MaxAttempts * revivals[a] \in Nat
        /\ (MaxAttempts + MaxRecoveries) * restarts[a] \in Nat
        /\ MaxAttempts * (revivals[a] + 1) = MaxAttempts * revivals[a] + MaxAttempts
    BY <2>1, OneMoreBudget
  <2> QED
    BY <2>1, <2>2
<1> QED
  BY <1>1, <1>2, <1>3, PTL DEF CountedSpec, Spec
=============================================================================
