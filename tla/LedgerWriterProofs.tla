------------------------- MODULE LedgerWriterProofs -------------------------
(***************************************************************************)
(* Proofs about LedgerWriter, for any number of mutations, any queue size  *)
(* and any number of escaped exceptions.                                     *)
(***************************************************************************)
EXTENDS LedgerWriter, FiniteSetTheorems, TLAPS

(* Where the writer thread is between BEGIN and the end of the group.      *)
InTransaction == {"begin", "loop", "run", "commit", "uncommit", "rollback"}
AfterCommit == {"committed", "settle", "callbacks"}

(* Which of the writer's lists are in use at each place.                   *)
Places ==
  /\ hand # {} => wpc \in {"first", "append"}
  /\ wpc \in {"open", "top", "get", "first"} => current = {}
  /\ batch # {} => wpc \in {"process"} \cup InTransaction \cup AfterCommit
  /\ committing <=> wpc \in {"commit", "uncommit", "committed", "settle"}
  /\ wpc \in {"loop", "run", "commit", "committed", "settle", "callbacks"}
       => staged \subseteq group
  /\ wpc \in {"loop", "run", "rollback"} => ready \subseteq group
  /\ wpc = "settle" => ready \subseteq staged
  /\ wpc \in {"loop", "run"} => staged \cap ready = {}
  /\ closer \in {"take", "settle"} => abandoned
  /\ putting # "nobody" => tail < MaxMutations

(* Whatever the writer may still commit comes after all it has committed.  *)
InOrder ==
  /\ \A d \in durable : \A e \in batch \cup hand : d < e
  /\ wpc \in {"gather", "append"} => \A d \in durable : \A e \in current : d < e
  /\ wpc \in InTransaction => \A d \in durable : \A e \in group : d < e
  /\ wpc \in InTransaction \cup AfterCommit => \A g \in group : \A e \in batch : g < e

(* No mutation that may still be committed has been refused, unless        *)
(* _abandoned tells the writer not to commit it.                           *)
NotRefused ==
  /\ \A e \in Id : e > head => answer[e] # "failed"
  /\ ~abandoned =>
       /\ leftovers = {}
       /\ \A e \in batch \cup hand : answer[e] # "failed"
       /\ wpc \in {"gather", "append"} => \A e \in current : answer[e] # "failed"
       /\ wpc = "begin" => \A e \in group : answer[e] # "failed"
       /\ wpc \in {"loop", "run"} => \A e \in ready \cup staged : answer[e] # "failed"
  /\ wpc \in {"commit", "committed", "settle"} =>
       \A e \in staged : answer[e] # "failed"

(* What is about to be refused is not in the database.                     *)
Refusable ==
  /\ leftovers \cap durable = {}
  /\ committing => leftovers \cap group = {}
  /\ wpc \in {"take", "fail"} => ready \cap durable = {}
  /\ \A e \in Id : answer[e] = "failed" => e \notin durable

(* What is in the database is answered, or about to be.                    *)
Answered ==
  /\ wpc \in AfterCommit => staged \subseteq durable
  /\ \A e \in Pending(durable) :
       \/ wpc = "committed" /\ e \in staged
       \/ wpc = "settle" /\ e \in ready

(* Positive answers and callbacks.                                         *)
Told ==
  /\ \A e \in Id : answer[e] = "ok" => e \in durable
  /\ \A e \in Id : answer[e] = "unknown" => e \in forced
  /\ notified \subseteq durable \ Pending(Id)

IInv ==
  /\ TypeOK /\ Places /\ InOrder /\ NotRefused /\ Refusable /\ Answered /\ Told

(* A group is taken from the front of the batch.                           *)
LEMMA NextGroupFacts ==
  ASSUME NEW b \in SUBSET Nat
  PROVE  /\ NextGroup(b) \subseteq b
         /\ \A g \in NextGroup(b) : \A e \in b \ NextGroup(b) : g < e
BY DEF NextGroup, First

(* Before start() the invariant holds.                                    *)
LEMMA Initially == Init => IInv
<1> SUFFICES ASSUME Init PROVE IInv
  OBVIOUS
<1> USE WriterAssumption DEF Init, Id
<1>1. TypeOK
  <2>1. /\ tail \in 0..MaxMutations /\ head \in 0..tail
        /\ outstanding \in Nat /\ escapes \in 0..MaxEscapes
    OBVIOUS
  <2>2. /\ forced \subseteq 1..tail /\ dropped \subseteq 1..head /\ durable \subseteq 1..head
        /\ notified \subseteq 1..head
        /\ current \cup hand \cup batch \cup group \cup ready \cup staged
             \cup leftovers \subseteq 1..head
    OBVIOUS
  <2>3. answer \in [Id -> {"none", "ok", "failed", "unknown"}]
    OBVIOUS
  <2> QED
    BY <2>1, <2>2, <2>3 DEF TypeOK
<1>2. Places
  BY DEF Places, InTransaction, AfterCommit
<1>3. InOrder /\ NotRefused /\ Refusable /\ Answered /\ Told
  BY DEF InOrder, NotRefused, Refusable, Answered, Told, Pending, InTransaction,
         AfterCommit
<1> QED
  BY <1>1, <1>2, <1>3 DEF IInv

(* Every step keeps the types; that a submission under way has a number    *)
(* left is part of Places.                                                 *)
LEMMA TypePreserved ==
  ASSUME TypeOK, Next, putting # "nobody" => tail < MaxMutations
  PROVE  TypeOK'
<1> USE WriterAssumption
    DEF TypeOK, Id, First, Pending, Settle, WriterGoes,
        clientVars, queueVars, futureVars, guardVars, listVars, dbVars, txnVars,
        threadVars, closeVars, othersVars, sharedVars
<1>1. CASE StartReturns
  BY <1>1 DEF StartReturns
<1>2. CASE StartTimesOut
  BY <1>2 DEF StartTimesOut
<1>3. CASE \E kind \in {"plain", "flush"} : SubmitBegins(kind)
  BY <1>3 DEF SubmitBegins
<1>4. CASE SubmitPuts
  BY <1>4 DEF SubmitPuts
<1>5. CASE SubmitRejected
  BY <1>5 DEF SubmitRejected
<1>6. CASE \E e \in Id : FlushTimesOut(e)
  BY <1>6 DEF FlushTimesOut
<1>7. CASE CloseBegins
  BY <1>7 DEF CloseBegins
<1>8. CASE CloseRequestsDrain
  BY <1>8 DEF CloseRequestsDrain
<1>9. CASE CloseWakesWriter
  BY <1>9 DEF CloseWakesWriter
<1>10. CASE CloseJoins
  BY <1>10 DEF CloseJoins
<1>11. CASE CloseAbandons
  BY <1>11 DEF CloseAbandons
<1>12. CASE CloseTakes
  <2>1. CASE head < tail
    <3>1. head' = head + 1 /\ leftovers' = leftovers \cup {head + 1} /\ wakeup' = wakeup
      BY <1>12, <2>1 DEF CloseTakes
    <3>2. head' \in 0..tail /\ leftovers' \subseteq 1..head'
      BY <2>1, <3>1
    <3>3. current' \cup hand' \cup batch' \cup group' \cup ready' \cup staged'
            \subseteq 1..head'
      BY <1>12, <3>1, <3>2 DEF CloseTakes
    <3>4. durable' \subseteq 1..head' /\ notified' \subseteq 1..head'
      BY <1>12, <3>1, <3>2 DEF CloseTakes
    <3> QED
      BY <1>12, <3>1, <3>2, <3>3, <3>4 DEF CloseTakes
  <2>2. CASE ~(head < tail)
    <3>1. wakeup' \in BOOLEAN /\ head' = head /\ leftovers' = leftovers
      BY <1>12, <2>2 DEF CloseTakes
    <3>2. UNCHANGED <<clientVars, futureVars, guardVars, threadVars, drain, closer>>
      BY <1>12 DEF CloseTakes
    <3> QED
      BY <3>1, <3>2
  <2> QED BY <2>1, <2>2
<1>13. CASE CloseSettles
  BY <1>13 DEF CloseSettles
<1>14. CASE CloseFindsQueueEmpty
  BY <1>14 DEF CloseFindsQueueEmpty
<1>15. CASE CloseReturns
  BY <1>15 DEF CloseReturns
<1>16. CASE Opens
  BY <1>16 DEF Opens
<1>17. CASE Stages
  BY <1>17 DEF Stages
<1>18. CASE RollsBackMutation
  BY <1>18 DEF RollsBackMutation
<1>19. CASE Commits
  <2>1. durable' \subseteq 1..head' /\ head' = head
    BY <1>19 DEF Commits
  <2> QED BY <1>19, <2>1 DEF Commits
<1>20. CASE CommitRaises
  BY <1>20 DEF CommitRaises
<1>21. CASE SeesAbandoned
  BY <1>21 DEF SeesAbandoned
<1>22. CASE Polls
  BY <1>22 DEF Polls
<1>23. CASE TakesEnvelope
  BY <1>23 DEF TakesEnvelope
<1>24. CASE FindsNoEnvelope
  <2>1. wakeup' \in BOOLEAN /\ wpc' \in {"exited", "top"}
    BY <1>24 DEF FindsNoEnvelope
  <2> QED BY <1>24, <2>1 DEF FindsNoEnvelope
<1>25. CASE HoldsEnvelope
  BY <1>25 DEF HoldsEnvelope
<1>26. CASE GathersNoMore
  <2>1. wakeup' \in BOOLEAN /\ batch' \subseteq 1..head /\ head' = head
    BY <1>26 DEF GathersNoMore
  <2> QED BY <1>26, <2>1 DEF GathersNoMore
<1>27. CASE StartsGroup
  BY <1>27, NextGroupFacts DEF StartsGroup
<1>28. CASE FinishesBatch
  BY <1>28 DEF FinishesBatch
<1>29. CASE TakesRemaining
  BY <1>29 DEF TakesRemaining
<1>30. CASE TookRemaining
  <2>1. wakeup' \in BOOLEAN
    BY <1>30 DEF TookRemaining
  <2> QED BY <1>30, <2>1 DEF TookRemaining
<1>31. CASE SettlesRemaining
  BY <1>31 DEF SettlesRemaining
<1>32. CASE Begins
  BY <1>32 DEF Begins
<1>33. CASE Escapes
  <2>1. notified' \subseteq notified \cup staged
    BY <1>33 DEF Escapes
  <2>2. escapes' \in 0..MaxEscapes /\ head' = head
    BY <1>33 DEF Escapes
  <2>3. /\ notified' \subseteq 1..head' /\ dropped' \subseteq 1..head'
        /\ durable' \subseteq 1..head'
    BY <1>33, <2>1, <2>2 DEF Escapes
  <2>4. current' \cup hand' \cup batch' \cup group' \cup ready' \cup staged'
          \cup leftovers' \subseteq 1..head'
    BY <1>33, <2>2 DEF Escapes
  <2> QED BY <1>33, <2>2, <2>3, <2>4 DEF Escapes
<1>34. CASE RunsMutation
  BY <1>34 DEF RunsMutation
<1>35. CASE GivesUpGroup
  BY <1>35 DEF GivesUpGroup
<1>36. CASE EntersCommit
  BY <1>36 DEF EntersCommit
<1>37. CASE LeavesFailedCommit
  <2>1. committing' \in BOOLEAN /\ ready' \subseteq 1..head /\ head' = head
    BY <1>37 DEF LeavesFailedCommit
  <2> QED BY <1>37, <2>1 DEF LeavesFailedCommit
<1>38. CASE LocksToSettle
  BY <1>38 DEF LocksToSettle
<1>39. CASE SettlesCommitted
  <2>1. CASE ready = {}
    <3>1. wpc' = "callbacks" /\ committing' \in BOOLEAN /\ UNCHANGED <<futureVars, ready>>
      BY <1>39, <2>1 DEF SettlesCommitted
    <3>2. UNCHANGED <<othersVars, queueVars, abandoned, current, hand, batch, group,
                      staged, dbVars>>
      BY <1>39 DEF SettlesCommitted
    <3> QED
      BY <3>1, <3>2
  <2>2. CASE ready # {}
    <3>1. UNCHANGED <<wpc, committing>> /\ ready' \subseteq ready
      BY <1>39, <2>2 DEF SettlesCommitted
    <3>2. answer' \in [Id -> {"none", "ok", "failed", "unknown"}] /\ outstanding' \in Nat
      BY <1>39, <2>2 DEF SettlesCommitted
    <3> QED
      BY <1>39, <3>1, <3>2 DEF SettlesCommitted
  <2> QED BY <2>1, <2>2
<1>40. CASE RunsCallbacks
  <2>1. notified' \subseteq 1..head' /\ head' = head
    BY <1>40 DEF RunsCallbacks
  <2> QED BY <1>40, <2>1 DEF RunsCallbacks
<1>41. CASE SettlesRolledBack
  BY <1>41 DEF SettlesRolledBack
<1>42. CASE SavepointRaises
  BY <1>42 DEF SavepointRaises
<1> QED
  BY <1>1, <1>2, <1>3, <1>4, <1>5, <1>6, <1>7, <1>8, <1>9, <1>10, <1>11,
     <1>12, <1>13, <1>14, <1>15, <1>16, <1>17, <1>18, <1>19, <1>20, <1>21,
     <1>22, <1>23, <1>24, <1>25, <1>26, <1>27, <1>28, <1>29, <1>30, <1>31,
     <1>32, <1>33, <1>34, <1>35, <1>36, <1>37, <1>38, <1>39, <1>40, <1>41,
     <1>42
     DEF Next, Callers, CloseProceeds, WriterBlocks, WriterRuns

(* The callers of start() and submit(). *)
LEMMA CallersPreserve ==
  ASSUME IInv, Callers
  PROVE  IInv'
<1>0. TypeOK'
  BY TypePreserved DEF IInv, Places, Next
<1> USE WriterAssumption
    DEF IInv, TypeOK, Places, InOrder, NotRefused, Refusable, Answered, Told,
        Pending, First, Settle, Id, InTransaction, AfterCommit, WriterGoes,
        GuardFree, QueueEmpty, clientVars, queueVars, futureVars, guardVars, listVars, dbVars, txnVars,
        threadVars, closeVars, othersVars, sharedVars
<1>1. CASE StartReturns
  BY <1>0, <1>1 DEF StartReturns
<1>2. CASE StartTimesOut
  BY <1>0, <1>2 DEF StartTimesOut
<1>3. CASE \E kind \in {"plain", "flush"} : SubmitBegins(kind)
  BY <1>0, <1>3 DEF SubmitBegins
<1>4. CASE SubmitPuts
  <2>1. TypeOK'
    BY <1>0
  <2>2. Places'
    BY <1>4 DEF SubmitPuts
  <2>3. InOrder'
    BY <1>4 DEF SubmitPuts
  <2>4. NotRefused'
    BY <1>4 DEF SubmitPuts
  <2>5. Refusable'
    BY <1>4 DEF SubmitPuts
  <2>6. Answered'
    BY <1>4 DEF SubmitPuts
  <2>7. Told'
    BY <1>4 DEF SubmitPuts
  <2> QED
    BY <2>1, <2>2, <2>3, <2>4, <2>5, <2>6, <2>7
<1>5. CASE SubmitRejected
  BY <1>0, <1>5 DEF SubmitRejected
<1>6. CASE \E e \in Id : FlushTimesOut(e)
  BY <1>0, <1>6 DEF FlushTimesOut
<1> QED
  BY <1>1, <1>2, <1>3, <1>4, <1>5, <1>6 DEF Callers

(* The thread that runs close(). *)
LEMMA ClosePreserves ==
  ASSUME IInv, CloseProceeds
  PROVE  IInv'
<1>0. TypeOK'
  BY TypePreserved DEF IInv, Places, Next
<1> USE WriterAssumption
    DEF IInv, TypeOK, Places, InOrder, NotRefused, Refusable, Answered, Told,
        Pending, First, Settle, Id, InTransaction, AfterCommit, WriterGoes,
        GuardFree, QueueEmpty, clientVars, queueVars, futureVars, guardVars, listVars, dbVars, txnVars,
        threadVars, closeVars, othersVars, sharedVars
<1>1. CASE CloseRequestsDrain
  BY <1>0, <1>1 DEF CloseRequestsDrain
<1>2. CASE CloseWakesWriter
  BY <1>0, <1>2 DEF CloseWakesWriter
<1>3. CASE CloseJoins
  BY <1>0, <1>3 DEF CloseJoins
<1>4. CASE CloseAbandons
  BY <1>0, <1>4 DEF CloseAbandons
<1>5. CASE CloseTakes
  <2>1. CASE head < tail
    <3>1. TypeOK'
      BY <1>0
    <3>2. Places'
      BY <1>5, <2>1 DEF CloseTakes
    <3>3. InOrder'
      BY <1>5, <2>1 DEF CloseTakes
    <3>4. NotRefused'
      BY <1>5, <2>1 DEF CloseTakes
    <3>5. Refusable'
      BY <1>5, <2>1 DEF CloseTakes
    <3>6. Answered'
      BY <1>5, <2>1 DEF CloseTakes
    <3>7. Told'
      BY <1>5, <2>1 DEF CloseTakes
    <3> QED
      BY <3>1, <3>2, <3>3, <3>4, <3>5, <3>6, <3>7
  <2>2. CASE ~(head < tail)
    <3>1. TypeOK'
      BY <1>0
    <3>2. Places'
      BY <1>5, <2>2 DEF CloseTakes
    <3>3. InOrder'
      BY <1>5, <2>2 DEF CloseTakes
    <3>4. NotRefused'
      BY <1>5, <2>2 DEF CloseTakes
    <3>5. Refusable'
      BY <1>5, <2>2 DEF CloseTakes
    <3>6. Answered'
      BY <1>5, <2>2 DEF CloseTakes
    <3>7. Told'
      BY <1>5, <2>2 DEF CloseTakes
    <3> QED
      BY <3>1, <3>2, <3>3, <3>4, <3>5, <3>6, <3>7
  <2> QED
    BY <2>1, <2>2, <1>5
<1>6. CASE CloseSettles
  BY <1>0, <1>6 DEF CloseSettles
<1>7. CASE CloseFindsQueueEmpty
  BY <1>0, <1>7 DEF CloseFindsQueueEmpty
<1>8. CASE CloseReturns
  BY <1>0, <1>8 DEF CloseReturns
<1> QED
  BY <1>1, <1>2, <1>3, <1>4, <1>5, <1>6, <1>7, <1>8 DEF CloseProceeds

(* Calling close(). *)
LEMMA CloseBeginsPreserves ==
  ASSUME IInv, CloseBegins
  PROVE  IInv'
<1>0. TypeOK'
  BY TypePreserved DEF IInv, Places, Next
<1> USE WriterAssumption
    DEF IInv, TypeOK, Places, InOrder, NotRefused, Refusable, Answered, Told,
        Pending, First, Settle, Id, InTransaction, AfterCommit, WriterGoes,
        GuardFree, QueueEmpty, clientVars, queueVars, futureVars, guardVars, listVars, dbVars, txnVars,
        threadVars, closeVars, othersVars, sharedVars
<1>1. CASE CloseBegins
  <2>1. TypeOK'
    BY <1>0
  <2>2. Places'
    BY <1>1 DEF CloseBegins
  <2>3. InOrder'
    BY <1>1 DEF CloseBegins
  <2>4. NotRefused'
    BY <1>1 DEF CloseBegins
  <2>5. Refusable'
    BY <1>1 DEF CloseBegins
  <2>6. Answered'
    BY <1>1 DEF CloseBegins
  <2>7. Told'
    BY <1>1 DEF CloseBegins
  <2> QED
    BY <2>1, <2>2, <2>3, <2>4, <2>5, <2>6, <2>7
<1> QED
  BY <1>1

(* The writer thread in the database or in a mutation. *)
LEMMA WriterBlocksPreserves ==
  ASSUME IInv, WriterBlocks
  PROVE  IInv'
<1>0. TypeOK'
  BY TypePreserved DEF IInv, Places, Next
<1> USE WriterAssumption
    DEF IInv, TypeOK, Places, InOrder, NotRefused, Refusable, Answered, Told,
        Pending, First, Settle, Id, InTransaction, AfterCommit, WriterGoes,
        GuardFree, QueueEmpty, clientVars, queueVars, futureVars, guardVars, listVars, dbVars, txnVars,
        threadVars, closeVars, othersVars, sharedVars
<1>1. CASE Opens
  BY <1>0, <1>1 DEF Opens
<1>2. CASE Stages
  BY <1>0, <1>2 DEF Stages
<1>3. CASE RollsBackMutation
  BY <1>0, <1>3 DEF RollsBackMutation
<1>4. CASE Commits
  <2>1. TypeOK'
    BY <1>0
  <2>2. Places'
    BY <1>4 DEF Commits
  <2>3. InOrder'
    BY <1>4 DEF Commits
  <2>4. NotRefused'
    BY <1>4 DEF Commits
  <2>5. Refusable'
    BY <1>4 DEF Commits
  <2>6. Answered'
    BY <1>4 DEF Commits
  <2>7. Told'
    BY <1>4 DEF Commits
  <2> QED
    BY <2>1, <2>2, <2>3, <2>4, <2>5, <2>6, <2>7
<1>5. CASE CommitRaises
  BY <1>0, <1>5 DEF CommitRaises
<1>6. CASE SavepointRaises
  BY <1>0, <1>6 DEF SavepointRaises
<1>7. CASE Escapes
  <2>1. TypeOK'
    BY <1>0
  <2>2. /\ wpc' = "take" /\ ready' = {} /\ batch' = {} /\ current' = {}
        /\ wpc \in {"begin", "run", "callbacks", "rollback"}
        /\ UNCHANGED <<clientVars, queueVars, futureVars, abandoned, committing, hand,
                       group, staged, durable, closeVars>>
    BY <1>7 DEF Escapes
  <2>3. Places'
    BY <2>2
  <2>4. InOrder' /\ NotRefused'
    BY <2>2
  <2>5. Refusable' /\ Answered'
    BY <2>2
  <2> DEFINE Durable == durable \ Pending(Id)
  <2>6. notified \subseteq Durable /\ (wpc = "callbacks" => staged \subseteq Durable)
    BY <2>2
  <2>7. \/ notified' = notified
        \/ wpc = "callbacks" /\ \E e \in staged : notified' = notified \cup {x \in staged : x =< e}
    BY <1>7 DEF Escapes
  <2>8. Told'
    <3> HIDE DEF Durable
    <3>1. notified' \subseteq Durable
      BY <2>6, <2>7
    <3> QED
      BY <2>2, <3>1 DEF Durable
  <2> HIDE DEF TypeOK, Places, InOrder, NotRefused, Refusable, Answered, Told
  <2> QED
    BY <2>1, <2>3, <2>4, <2>5, <2>8
<1> QED
  BY <1>1, <1>2, <1>3, <1>4, <1>5, <1>6, <1>7 DEF WriterBlocks

(* The writer thread's own steps. *)
LEMMA WriterRunsPreserves ==
  ASSUME IInv, WriterRuns
  PROVE  IInv'
<1>0. TypeOK'
  BY TypePreserved DEF IInv, Places, Next
<1> USE WriterAssumption
    DEF IInv, TypeOK, Places, InOrder, NotRefused, Refusable, Answered, Told,
        Pending, First, Settle, Id, InTransaction, AfterCommit, WriterGoes,
        GuardFree, QueueEmpty, clientVars, queueVars, futureVars, guardVars, listVars, dbVars, txnVars,
        threadVars, closeVars, othersVars, sharedVars
<1>1. CASE SeesAbandoned
  BY <1>0, <1>1 DEF SeesAbandoned
<1>2. CASE Polls
  BY <1>0, <1>2 DEF Polls
<1>3. CASE TakesEnvelope
  BY <1>0, <1>3 DEF TakesEnvelope
<1>4. CASE FindsNoEnvelope
  BY <1>0, <1>4 DEF FindsNoEnvelope
<1>5. CASE HoldsEnvelope
  BY <1>0, <1>5 DEF HoldsEnvelope
<1>6. CASE GathersNoMore
  BY <1>0, <1>6 DEF GathersNoMore
<1>7. CASE StartsGroup
  BY <1>0, <1>7, NextGroupFacts DEF StartsGroup
<1>8. CASE FinishesBatch
  BY <1>0, <1>8 DEF FinishesBatch
<1>9. CASE TakesRemaining
  BY <1>0, <1>9 DEF TakesRemaining
<1>10. CASE TookRemaining
  BY <1>0, <1>10 DEF TookRemaining
<1>11. CASE SettlesRemaining
  BY <1>0, <1>11 DEF SettlesRemaining
<1>12. CASE Begins
  BY <1>0, <1>12 DEF Begins
<1>14. CASE RunsMutation
  BY <1>0, <1>14 DEF RunsMutation
<1>15. CASE GivesUpGroup
  BY <1>0, <1>15 DEF GivesUpGroup
<1>16. CASE EntersCommit
  BY <1>0, <1>16 DEF EntersCommit
<1>17. CASE LeavesFailedCommit
  <2>1. TypeOK'
    BY <1>0
  <2>2. Places'
    BY <1>17 DEF LeavesFailedCommit
  <2>3. InOrder'
    BY <1>17 DEF LeavesFailedCommit
  <2>4. NotRefused'
    BY <1>17 DEF LeavesFailedCommit
  <2>5. Refusable'
    BY <1>17 DEF LeavesFailedCommit
  <2>6. Answered'
    BY <1>17 DEF LeavesFailedCommit
  <2>7. Told'
    BY <1>17 DEF LeavesFailedCommit
  <2> QED
    BY <2>1, <2>2, <2>3, <2>4, <2>5, <2>6, <2>7
<1>18. CASE LocksToSettle
  BY <1>0, <1>18 DEF LocksToSettle
<1>19. CASE SettlesCommitted
  <2>1. CASE ready = {}
    <3>1. TypeOK'
      BY <1>0
    <3>2. Places'
      BY <1>19, <2>1 DEF SettlesCommitted
    <3>3. InOrder'
      BY <1>19, <2>1 DEF SettlesCommitted
    <3>4. NotRefused'
      BY <1>19, <2>1 DEF SettlesCommitted
    <3>5. Refusable'
      BY <1>19, <2>1 DEF SettlesCommitted
    <3>6. Answered'
      BY <1>19, <2>1 DEF SettlesCommitted
    <3>7. Told'
      BY <1>19, <2>1 DEF SettlesCommitted
    <3> QED
      BY <3>1, <3>2, <3>3, <3>4, <3>5, <3>6, <3>7
  <2>2. CASE ready # {}
    <3>1. PICK e \in First(ready) :
            /\ Settle(e, "ok")
            /\ ready' = ready \ {e}
            /\ UNCHANGED <<wpc, committing>>
      BY <1>19, <2>2 DEF SettlesCommitted
    <3>2. /\ wpc = "settle" /\ e \in ready /\ e \in Id
          /\ UNCHANGED <<clientVars, head, wakeup, abandoned, current, committing,
                         wpc, hand, batch, group, staged, durable, notified,
                         escapes, dropped, closeVars>>
      BY <1>19, <2>2, <3>1 DEF SettlesCommitted
    <3>3. /\ answer' \in [Id -> {"none", "ok", "failed", "unknown"}]
          /\ outstanding' \in Nat
          /\ \A x \in Id \ {e} : answer'[x] = answer[x]
          /\ answer'[e] = IF answer[e] = "none" THEN "ok" ELSE answer[e]
      BY <3>1, <3>2
    <3>4. TypeOK'
      BY <1>0
    <3>5. Places'
      BY <3>1, <3>2, <3>3
    <3>6. InOrder'
      BY <3>1, <3>2, <3>3
    <3>7. NotRefused'
      BY <3>1, <3>2, <3>3
    <3>8. Refusable'
      BY <3>1, <3>2, <3>3
    <3>9. Answered'
      BY <3>1, <3>2, <3>3
    <3>10. Told'
      BY <3>1, <3>2, <3>3
    <3> QED
      BY <3>4, <3>5, <3>6, <3>7, <3>8, <3>9, <3>10
  <2> QED
    BY <2>1, <2>2
<1>20. CASE RunsCallbacks
  <2>1. TypeOK'
    BY <1>0
  <2>2. Places'
    BY <1>20 DEF RunsCallbacks
  <2>3. InOrder'
    BY <1>20 DEF RunsCallbacks
  <2>4. NotRefused'
    BY <1>20 DEF RunsCallbacks
  <2>5. Refusable'
    BY <1>20 DEF RunsCallbacks
  <2>6. Answered'
    BY <1>20 DEF RunsCallbacks
  <2>7. Told'
    BY <1>20 DEF RunsCallbacks
  <2> QED
    BY <2>1, <2>2, <2>3, <2>4, <2>5, <2>6, <2>7
<1>21. CASE SettlesRolledBack
  BY <1>0, <1>21 DEF SettlesRolledBack
<1> QED
  BY <1>1, <1>2, <1>3, <1>4, <1>5, <1>6, <1>7, <1>8, <1>9, <1>10, <1>11, <1>12,
     <1>14, <1>15, <1>16, <1>17, <1>18, <1>19, <1>20, <1>21 DEF WriterRuns

(* IInv is inductive.                                                      *)
LEMMA Inductive == IInv /\ [Next]_vars => IInv'
<1> SUFFICES ASSUME IInv, [Next]_vars PROVE IInv'
  OBVIOUS
<1>1. CASE UNCHANGED vars
  BY <1>1 DEF IInv, TypeOK, Places, InOrder, NotRefused, Refusable, Answered,
     Told, Pending, vars, clientVars, queueVars, futureVars, guardVars, listVars, dbVars, txnVars,
     threadVars, closeVars, othersVars, sharedVars
<1>2. CASE Next
  BY <1>2, CallersPreserve, CloseBeginsPreserves, ClosePreserves,
     WriterBlocksPreserves, WriterRunsPreserves DEF Next
<1> QED
  BY <1>1, <1>2

(* In every reachable state IInv holds.                                    *)
THEOREM Invariance == Spec => []IInv
BY Initially, Inductive, PTL DEF Spec

(* The variables keep their types: no list of the writer's ever names an   *)
(* envelope the queue has not handed out.                                  *)
THEOREM TypeCorrect == Spec => []TypeOK
<1>1. IInv => TypeOK
  BY DEF IInv
<1> QED
  BY <1>1, Invariance, PTL

(* A result is only ever reported for a mutation in the database, an error *)
(* only for one that never gets there.                                     *)
THEOREM AnswersCorrect == Spec => []AnswersMatchDatabase
<1>1. IInv => AnswersMatchDatabase
  BY WriterAssumption DEF IInv, TypeOK, Refusable, Told, AnswersMatchDatabase, Id
<1> QED
  BY <1>1, Invariance, PTL

(* After-commit callbacks run only for committed, answered mutations.      *)
THEOREM CallbacksCorrect == Spec => []CallbacksFollowCommit
<1>1. IInv => CallbacksFollowCommit
  BY DEF IInv, Told, CallbacksFollowCommit
<1> QED
  BY <1>1, Invariance, PTL

(* Only a COMMIT changes the database, only EntersCommit starts one, and   *)
(* nobody takes back that the writer was given up.                         *)
LEMMA WhatCommits ==
  [Next]_vars => /\ Commits \/ durable' = durable
                 /\ committing' => EntersCommit \/ committing
                 /\ abandoned => abandoned'
BY DEF Next, Callers, CloseProceeds, WriterBlocks, WriterRuns, vars, txnVars,
   queueVars, futureVars, guardVars, listVars, dbVars, threadVars, sharedVars,
   StartReturns, StartTimesOut, SubmitBegins, SubmitPuts, SubmitRejected,
   FlushTimesOut, CloseBegins, CloseRequestsDrain, CloseWakesWriter, CloseJoins,
   CloseAbandons, CloseTakes, CloseSettles, CloseFindsQueueEmpty, CloseReturns,
   Opens, Stages, RollsBackMutation, SavepointRaises, Escapes, Commits,
   CommitRaises, SeesAbandoned, Polls,
   TakesEnvelope, FindsNoEnvelope, HoldsEnvelope, GathersNoMore, StartsGroup,
   FinishesBatch, TakesRemaining, TookRemaining, SettlesRemaining, Begins,
   RunsMutation, GivesUpGroup, EntersCommit, LeavesFailedCommit,
   LocksToSettle, SettlesCommitted, RunsCallbacks, SettlesRolledBack

(* Giving up on the writer stops every COMMIT that has not started.        *)
THEOREM AbandonStopsCommits == Spec => NoCommitAfterAbandon
<1>1. IInv /\ [Next]_vars =>
        [abandoned /\ ~committing =>
           abandoned' /\ ~committing' /\ durable' = durable]_vars
  <2> SUFFICES ASSUME IInv, [Next]_vars, abandoned, ~committing
               PROVE  abandoned' /\ ~committing' /\ durable' = durable
    OBVIOUS
  <2>1. ~Commits /\ ~EntersCommit
    BY DEF IInv, Places, Commits, EntersCommit, WriterGoes
  <2> QED BY <2>1, WhatCommits
<1> QED
  BY <1>1, Invariance, PTL DEF Spec, NoCommitAfterAbandon

-----------------------------------------------------------------------------
(* The counter of flush()                                                  *)

(* What has not been put into the queue has not been answered either.      *)
Unaccepted == \A e \in Id : e > tail => answer[e] = "none"

Counted == OutstandingIsExact /\ Unaccepted

(* The pending mutations can be counted.                                   *)
LEMMA PendingFinite ==
  ASSUME NEW n \in Nat
  PROVE  /\ IsFiniteSet(Pending(1..n))
         /\ Cardinality(Pending(1..n)) \in Nat
<1>1. IsFiniteSet(1..n) /\ Pending(1..n) \in SUBSET (1..n)
  BY FS_Interval DEF Pending
<1> QED
  BY <1>1, FS_Subset, FS_CardinalityType

(* Settling takes one off the counter, the first time it is done.          *)
LEMMA SettleCounts ==
  ASSUME TypeOK, Counted, NEW e \in 1..tail, NEW a \in {"ok", "failed", "unknown"},
         Settle(e, a), UNCHANGED <<tail, putting>>
  PROVE  Counted'
<1>1. tail \in Nat /\ e \in Id /\ answer \in [Id -> {"none", "ok", "failed", "unknown"}]
  BY WriterAssumption DEF TypeOK, Id
<1>2. CASE answer[e] = "none"
  <2>1. answer' = [answer EXCEPT ![e] = a]
    BY <1>2 DEF Settle
  <2>2. Unaccepted'
    BY <1>1, <2>1 DEF Counted, Unaccepted, Id
  <2>3. Pending(1..tail)' = Pending(1..tail) \ {e} /\ e \in Pending(1..tail)
    BY <1>1, <1>2, <2>1, WriterAssumption DEF Pending, Id
  <2>4. Cardinality(Pending(1..tail)') = Cardinality(Pending(1..tail)) - 1
    <3> DEFINE P == Pending(1..tail)
    <3>1. IsFiniteSet(P)
      BY <1>1, PendingFinite
    <3>2. e \in P /\ P' = P \ {e}
      BY <2>3
    <3> HIDE DEF P
    <3>3. Cardinality(P \ {e}) = Cardinality(P) - 1
      BY <3>1, <3>2, FS_RemoveElement
    <3>4. Cardinality(P') = Cardinality(P) - 1
      BY <3>2, <3>3
    <3> QED
      BY <3>4 DEF P
  <2>5. outstanding > 0
    <3>1. Cardinality(Pending(1..tail)) # 0
      BY <1>1, <2>3, PendingFinite, FS_EmptySet
    <3>2. Cardinality(Pending(1..tail)) \in Nat
      BY <1>1, PendingFinite
    <3>3. outstanding = Cardinality(Pending(1..tail))
                         + (IF putting = "nobody" THEN 0 ELSE 1)
      BY DEF Counted, OutstandingIsExact
    <3> HIDE DEF Pending
    <3> QED BY <3>1, <3>2, <3>3
  <2>6. outstanding' = outstanding - 1
    BY <1>2, <2>5 DEF Settle
  <2>7. outstanding = Cardinality(Pending(1..tail)) + (IF putting = "nobody" THEN 0 ELSE 1)
    BY DEF Counted, OutstandingIsExact
  <2>8. Cardinality(Pending(1..tail)) \in Nat
    BY <1>1, PendingFinite
  <2>9. OutstandingIsExact'
    BY <2>4, <2>6, <2>7, <2>8 DEF OutstandingIsExact
  <2> QED
    BY <2>2, <2>9 DEF Counted
<1>3. CASE answer[e] # "none"
  <2>1. answer' = answer /\ outstanding' = outstanding
    BY <1>3 DEF Settle, futureVars
  <2>2. Pending(1..tail)' = Pending(1..tail)
    BY <2>1 DEF Pending
  <2> QED
    BY <2>1, <2>2 DEF Counted, OutstandingIsExact, Unaccepted
<1> QED
  BY <1>2, <1>3

(* A submission is counted before it enters the queue, and taken off again *)
(* if the queue is full.                                                   *)
LEMMA SubmissionCounts ==
  ASSUME IInv, Counted,
         SubmitPuts \/ SubmitRejected \/ \E kind \in {"plain", "flush"} : SubmitBegins(kind)
  PROVE  Counted'
<1>1. tail \in Nat /\ answer \in [Id -> {"none", "ok", "failed", "unknown"}]
  BY WriterAssumption DEF IInv, TypeOK
<1>2. CASE SubmitPuts
  <2>1. /\ tail' = tail + 1 /\ putting # "nobody" /\ putting' = "nobody"
        /\ answer' = answer /\ outstanding' = outstanding
    BY <1>2 DEF SubmitPuts, sharedVars, futureVars
  <2>2. tail + 1 \in Id /\ answer[tail + 1] = "none"
    BY <1>1, <2>1, WriterAssumption DEF IInv, Places, Counted, Unaccepted, Id
  <2>3. Pending(1..tail)' = Pending(1..tail) \cup {tail + 1} /\ tail + 1 \notin Pending(1..tail)
    BY <1>1, <2>1, <2>2 DEF Pending
  <2>4. Cardinality(Pending(1..tail)') = Cardinality(Pending(1..tail)) + 1
    BY <1>1, <2>3, PendingFinite, FS_AddElement
  <2>5. Unaccepted'
    BY <1>1, <2>1, WriterAssumption DEF Counted, Unaccepted, Id
  <2> QED
    BY <1>1, <2>1, <2>4, <2>5, PendingFinite DEF Counted, OutstandingIsExact
<1>3. CASE SubmitRejected
  <2>1. /\ putting # "nobody" /\ putting' = "nobody" /\ tail' = tail /\ answer' = answer
        /\ outstanding' = IF outstanding > 0 THEN outstanding - 1 ELSE 0
    BY <1>3 DEF SubmitRejected
  <2>2. Pending(1..tail)' = Pending(1..tail)
    BY <2>1 DEF Pending
  <2> QED
    BY <1>1, <2>1, <2>2, PendingFinite DEF Counted, OutstandingIsExact, Unaccepted
<1>4. CASE \E kind \in {"plain", "flush"} : SubmitBegins(kind)
  <2>1. /\ putting = "nobody" /\ putting' # "nobody" /\ tail' = tail /\ answer' = answer
        /\ outstanding' = outstanding + 1
    BY <1>4 DEF SubmitBegins
  <2>2. Pending(1..tail)' = Pending(1..tail)
    BY <2>1 DEF Pending
  <2> QED
    BY <1>1, <2>1, <2>2, PendingFinite DEF Counted, OutstandingIsExact, Unaccepted
<1> QED
  BY <1>2, <1>3, <1>4

(* Every step that settles nothing and submits nothing leaves the counter. *)
LEMMA StepCounts == IInv /\ Counted /\ [Next]_vars => Counted'
<1> SUFFICES ASSUME IInv, Counted, [Next]_vars PROVE Counted'
  OBVIOUS
<1>1. ASSUME UNCHANGED <<tail, putting, answer, outstanding>> PROVE Counted'
  BY <1>1 DEF Counted, OutstandingIsExact, Unaccepted, Pending
<1>2. ASSUME NEW e \in 1..tail, NEW a \in {"ok", "failed", "unknown"}, Settle(e, a),
             UNCHANGED <<tail, putting>>
      PROVE  Counted'
  BY <1>2, SettleCounts DEF IInv
<1>3. /\ forced \subseteq 1..tail /\ leftovers \subseteq 1..tail /\ ready \subseteq 1..tail
  BY WriterAssumption DEF IInv, TypeOK
<1> USE DEF clientVars, queueVars, futureVars, guardVars, listVars, dbVars, txnVars,
        threadVars, closeVars, othersVars, sharedVars
<1>4. CASE \E e \in Id : FlushTimesOut(e)
  <2>1. PICK e \in forced : Settle(e, "unknown") /\ UNCHANGED <<tail, putting>>
    BY <1>4 DEF FlushTimesOut, Pending
  <2> QED BY <1>2, <1>3, <2>1
<1>5. CASE CloseSettles
  <2>1. PICK e \in leftovers : Settle(e, "failed") /\ UNCHANGED <<tail, putting>>
    BY <1>5 DEF CloseSettles, First
  <2> QED BY <1>2, <1>3, <2>1
<1>6. CASE SettlesRemaining \/ RollsBackMutation \/ SettlesCommitted \/ SettlesRolledBack
  <2>1. /\ UNCHANGED <<tail, putting>>
        /\ \/ UNCHANGED <<answer, outstanding>>
           \/ \E e \in ready : Settle(e, "failed") \/ Settle(e, "ok")
    BY <1>6 DEF SettlesRemaining, RollsBackMutation, SettlesCommitted, SettlesRolledBack,
       First
  <2> QED BY <1>1, <1>2, <1>3, <2>1
<1>7. CASE CloseProceeds /\ ~CloseSettles
  BY <1>1, <1>7 DEF CloseProceeds, CloseRequestsDrain, CloseWakesWriter, CloseJoins,
     CloseAbandons, CloseTakes, CloseFindsQueueEmpty, CloseReturns
<1>8. CASE WriterRuns /\ ~SettlesRemaining /\ ~SettlesCommitted /\ ~SettlesRolledBack
  BY <1>1, <1>8 DEF WriterRuns, SeesAbandoned, Polls, TakesEnvelope, FindsNoEnvelope,
     HoldsEnvelope, GathersNoMore, StartsGroup, FinishesBatch, TakesRemaining,
     TookRemaining, Begins, RunsMutation, GivesUpGroup, EntersCommit,
     LeavesFailedCommit, LocksToSettle, RunsCallbacks
<1>9. CASE \/ UNCHANGED vars \/ CloseBegins \/ Opens \/ Stages \/ Commits \/ CommitRaises
           \/ SavepointRaises \/ Escapes \/ StartReturns \/ StartTimesOut
  BY <1>1, <1>9 DEF vars, CloseBegins, Opens, Stages, Commits, CommitRaises,
     SavepointRaises, Escapes, StartReturns, StartTimesOut
<1>10. CASE SubmitPuts \/ SubmitRejected \/ \E kind \in {"plain", "flush"} : SubmitBegins(kind)
  BY <1>10, SubmissionCounts
<1> QED
  BY <1>4, <1>5, <1>6, <1>7, <1>8, <1>9, <1>10 DEF Next, Callers, WriterBlocks

(* The counter of flush() is the number of accepted mutations without an   *)
(* answer and the submission under way, however often the writer and       *)
(* close() settle the same futures.                                        *)
THEOREM CountExact == Spec => []OutstandingIsExact
<1>1. Init => Counted
  <2> SUFFICES ASSUME Init PROVE Counted
    OBVIOUS
  <2>1. Pending(1..tail) = {}
    BY DEF Init, Pending
  <2> QED
    BY <2>1, FS_EmptySet DEF Init, Counted, OutstandingIsExact, Unaccepted
<1>2. Counted => OutstandingIsExact
  BY DEF Counted
<1> QED
  BY <1>1, <1>2, StepCounts, Invariance, PTL DEF Spec

-----------------------------------------------------------------------------
(* No mutation is lost on the way.                                         *)

(* What close() and a start() that gave up leave behind them.              *)
Stopping ==
  /\ closer # "idle" => putting = "nobody" /\ ~accepting
  /\ starter # "started" => tail = 0 /\ putting = "nobody"
  /\ drain => closer # "idle"
  /\ wpc = "open" => starter # "started"
  /\ abandoned => closer # "idle" \/ starter = "raised"
  /\ escapes = 0 => (wpc \in {"take", "fail"} => abandoned)

(* Nothing enters the queue any more: no submission is under way, and none *)
(* can begin.                                                              *)
NoMoreSubmissions == closer # "idle" \/ starter # "started"

(* Once the queue has been emptied for the last time it stays empty.       *)
Drained ==
  /\ escapes = 0 =>
       /\ wpc = "fail" => head = tail
       /\ wpc = "exited" => head = tail /\ NoMoreSubmissions
  /\ closer = "settle" => head = tail
  /\ closer \notin {"take", "settle"} => leftovers = {}

(* The list in which the writer thread has a mutation it may still have to *)
(* answer, for each place the thread can be.                               *)
WriterHas(e) ==
  \/ e \in hand \cup batch
  \/ wpc \in {"gather", "append"} /\ e \in current
  \/ wpc \in {"begin", "uncommit"} /\ e \in group
  \/ wpc \in {"loop", "run", "commit", "committed"} /\ e \in staged
  \/ wpc \in {"loop", "run", "rollback", "settle", "take", "fail"} /\ e \in ready

(* A pending mutation that left the queue is in one of the writer's lists  *)
(* or in close()'s, unless _current_group named it when an exception       *)
(* escaped.                                                                *)
Whereabouts ==
  \A e \in Pending(1..head) : e \in leftovers \cup dropped \/ WriterHas(e)

(* While a batch is processed, close() or _current_group still names every *)
(* pending mutation of it.                                                 *)
Named ==
  /\ wpc \in {"process"} \cup InTransaction \cup AfterCommit =>
       Pending(batch) \subseteq current \cup leftovers
  /\ wpc \in InTransaction \cup {"committed", "settle"} =>
       Pending(group) \subseteq current \cup leftovers

WInv == Stopping /\ Drained /\ Whereabouts /\ Named

(* The steps that take part in stopping keep what it promises.             *)
LEMMA StoppingKept ==
  ASSUME IInv, Stopping, Drained, [Next]_vars
  PROVE  (Stopping /\ Drained)'
<1> USE WriterAssumption
    DEF Stopping, Drained, NoMoreSubmissions, WriterGoes, QueueEmpty, First,
        clientVars, queueVars, futureVars,
        guardVars, listVars, dbVars, txnVars, threadVars, closeVars, othersVars, sharedVars
<1>0. /\ tail \in Nat /\ head \in 0..tail /\ escapes \in Nat
      /\ closer \in {"take", "settle"} => abandoned
  BY DEF IInv, TypeOK, Places
<1>1. CASE Callers
  <2>1. CASE StartReturns BY <1>0, <2>1 DEF StartReturns
  <2>2. CASE StartTimesOut BY <1>0, <2>2 DEF StartTimesOut
  <2>3. CASE \E kind \in {"plain", "flush"} : SubmitBegins(kind)
    BY <1>0, <2>3 DEF SubmitBegins, IInv, TypeOK, Places
  <2>4. CASE SubmitPuts BY <1>0, <2>4 DEF SubmitPuts, IInv, TypeOK, Places
  <2>5. CASE SubmitRejected BY <1>0, <2>5 DEF SubmitRejected
  <2>6. CASE \E e \in Id : FlushTimesOut(e) BY <1>0, <2>6 DEF FlushTimesOut
  <2> QED BY <1>1, <2>1, <2>2, <2>3, <2>4, <2>5, <2>6 DEF Callers
<1>2. CASE CloseProceeds \/ CloseBegins
  BY <1>0, <1>2 DEF CloseProceeds, CloseBegins, CloseRequestsDrain, CloseWakesWriter,
     CloseJoins, CloseAbandons, CloseTakes, CloseSettles, CloseFindsQueueEmpty,
     CloseReturns
<1>3. CASE WriterBlocks
  BY <1>0, <1>3 DEF WriterBlocks, Opens, Stages, RollsBackMutation, SavepointRaises,
     Escapes, Commits, CommitRaises
<1>4. CASE WriterRuns
  BY <1>0, <1>4 DEF WriterRuns, SeesAbandoned, Polls, TakesEnvelope, FindsNoEnvelope,
     HoldsEnvelope, GathersNoMore, StartsGroup, FinishesBatch, TakesRemaining,
     TookRemaining, SettlesRemaining, Begins, RunsMutation, GivesUpGroup,
     EntersCommit, LeavesFailedCommit, LocksToSettle, SettlesCommitted, RunsCallbacks,
     SettlesRolledBack
<1>5. CASE UNCHANGED vars
  BY <1>0, <1>5 DEF vars
<1> QED
  BY <1>1, <1>2, <1>3, <1>4, <1>5 DEF Next

(* Settling leaves one mutation less to keep.                              *)
LEMMA SettleForgets ==
  ASSUME TypeOK, NEW e \in 1..head, NEW a \in {"ok", "failed", "unknown"}, Settle(e, a),
         head' = head
  PROVE  Pending(1..head)' = Pending(1..head) \ {e}
BY WriterAssumption DEF TypeOK, Settle, Pending, Id, futureVars

(* Every mutation that leaves one list is answered or in the next one.     *)
LEMMA WhereaboutsKept ==
  ASSUME IInv, Drained, Named, Whereabouts, [Next]_vars
  PROVE  Whereabouts'
<1> SUFFICES \A e \in Pending(1..head)' : e \in (leftovers \cup dropped)' \/ WriterHas(e)'
  BY DEF Whereabouts
<1> USE WriterAssumption
    DEF WriterGoes, QueueEmpty, GuardFree, First, clientVars, queueVars, futureVars,
        guardVars, listVars, dbVars, txnVars, threadVars, closeVars, othersVars, sharedVars
<1>0. /\ tail \in Nat /\ head \in 0..tail
      /\ forced \subseteq 1..tail
      /\ ready \cup leftovers \cup staged \cup group \cup batch \cup hand \subseteq 1..head
  BY DEF IInv, TypeOK
<1>2. \A e \in Pending(1..head) : e \in leftovers \cup dropped \/ WriterHas(e)
  BY DEF Whereabouts
<1> USE <1>0, <1>2 DEF WriterHas, Pending
<1>3. CASE UNCHANGED vars
  BY <1>3 DEF vars
<1>4. CASE StartReturns \/ StartTimesOut \/ SubmitPuts \/ SubmitRejected
             \/ \E kind \in {"plain", "flush"} : SubmitBegins(kind)
  BY <1>4 DEF StartReturns, StartTimesOut, SubmitBegins, SubmitPuts, SubmitRejected
<1>5. CASE CloseBegins \/ CloseRequestsDrain \/ CloseWakesWriter \/ CloseJoins
             \/ CloseFindsQueueEmpty
  BY <1>5 DEF CloseBegins, CloseRequestsDrain, CloseWakesWriter, CloseJoins,
     CloseFindsQueueEmpty
<1>6. CASE CloseReturns
  BY <1>6 DEF CloseReturns
<1>7. CASE CloseAbandons
  BY <1>7 DEF CloseAbandons, IInv, Places, Drained
<1>8. CASE CloseTakes
  BY <1>8 DEF CloseTakes
<1>9. CASE CloseSettles
  BY <1>9, SettleForgets DEF CloseSettles, IInv
<1>10. CASE Opens \/ Stages \/ Commits \/ CommitRaises
  BY <1>10 DEF Opens, Stages, Commits, CommitRaises, IInv, Places
<1>11. CASE RollsBackMutation
  BY <1>11, SettleForgets DEF RollsBackMutation, IInv
<1>12. CASE SeesAbandoned \/ Polls \/ TakesEnvelope \/ FindsNoEnvelope
  BY <1>12 DEF SeesAbandoned, Polls, TakesEnvelope, FindsNoEnvelope, IInv, Places
<1>13. CASE HoldsEnvelope \/ GathersNoMore \/ StartsGroup \/ FinishesBatch
  <2>1. CASE HoldsEnvelope
    BY <1>13, <2>1 DEF HoldsEnvelope, IInv, Places, InTransaction, AfterCommit
  <2>2. CASE GathersNoMore
    BY <1>13, <2>2 DEF GathersNoMore, IInv, Places, InTransaction, AfterCommit
  <2>3. CASE StartsGroup
    BY <1>13, <2>3 DEF StartsGroup
  <2>4. CASE FinishesBatch
    BY <1>13, <2>4 DEF FinishesBatch
  <2> QED BY <1>13, <2>1, <2>2, <2>3, <2>4
<1>14. CASE TakesRemaining \/ TookRemaining \/ Begins \/ RunsMutation \/ GivesUpGroup
  BY <1>14 DEF TakesRemaining, TookRemaining, Begins, RunsMutation, GivesUpGroup,
     IInv, Places
<1>15. CASE EntersCommit \/ LeavesFailedCommit \/ LocksToSettle \/ RunsCallbacks
  BY <1>15 DEF EntersCommit, LeavesFailedCommit, LocksToSettle, RunsCallbacks
<1>16. CASE SettlesRemaining
  BY <1>16, SettleForgets DEF SettlesRemaining, IInv
<1>17. CASE SettlesCommitted
  BY <1>17, SettleForgets DEF SettlesCommitted, IInv
<1>18. CASE SettlesRolledBack
  BY <1>18, SettleForgets DEF SettlesRolledBack, IInv
<1>19. CASE \E e \in Id : FlushTimesOut(e)
  <2>1. Pending(1..head)' \subseteq Pending(1..head)
    BY <1>19 DEF FlushTimesOut, Settle, IInv, TypeOK, Id
  <2> QED BY <1>19, <2>1 DEF FlushTimesOut
<1>20. CASE SavepointRaises
  BY <1>20 DEF SavepointRaises, IInv, Places
<1>21. CASE Escapes
  <2>1. /\ dropped' = dropped \cup current
        /\ wpc \in {"begin", "run", "callbacks", "rollback"}
        /\ UNCHANGED <<leftovers, answer, head, hand>>
    BY <1>21 DEF Escapes
  <2>2. hand = {} /\ (wpc \in {"run", "rollback"} => ready \subseteq group)
        /\ (wpc = "run" => staged \subseteq group)
    BY <2>1 DEF IInv, Places
  <2>3. Pending(batch) \subseteq current \cup leftovers
    BY <2>1 DEF Named, InTransaction, AfterCommit
  <2>4. wpc # "callbacks" => Pending(group) \subseteq current \cup leftovers
    BY <2>1 DEF Named, InTransaction
  <2>5. \A e \in Pending(1..head) :
          WriterHas(e) =>
            \/ e \in Pending(batch)
            \/ wpc # "callbacks" /\ e \in Pending(group)
    BY <2>1, <2>2
  <2> QED BY <2>1, <2>3, <2>4, <2>5
<1> QED
  BY <1>3, <1>4, <1>5, <1>6, <1>7, <1>8, <1>9, <1>10, <1>11, <1>12, <1>13, <1>14, <1>15,
     <1>16, <1>17, <1>18, <1>19, <1>20, <1>21
     DEF Next, Callers, CloseProceeds, WriterBlocks, WriterRuns

(* The batch and the group keep their names in _current_group until close()*)
(* has taken them over or the batch is finished.                           *)
LEMMA NamedKept ==
  ASSUME IInv, Drained, Named, [Next]_vars
  PROVE  Named'
<1> USE WriterAssumption
    DEF WriterGoes, First, clientVars, queueVars, futureVars,
        guardVars, listVars, dbVars, txnVars, threadVars, closeVars, othersVars, sharedVars
<1>0. \A S \in SUBSET (1..head) : S \subseteq Id
  BY DEF IInv, TypeOK, Id
<1>1. /\ ready \cup leftovers \cup group \cup batch \cup current \subseteq 1..head
      /\ forced \subseteq 1..tail /\ head \in Nat /\ tail \in Nat
      /\ answer \in [Id -> {"none", "ok", "failed", "unknown"}]
      /\ ready \cup leftovers \cup group \cup batch \cup current \subseteq Id
  BY <1>0 DEF IInv, TypeOK
<1> USE DEF Named, Pending, InTransaction, AfterCommit
<1>2. ASSUME UNCHANGED <<wpc, batch, group, current, leftovers>>,
             \A e \in Id : answer[e] # "none" => answer'[e] # "none"
      PROVE  Named'
  BY <1>1, <1>2
<1>3. ASSUME NEW e \in Id, NEW a \in {"ok", "failed", "unknown"}, Settle(e, a)
      PROVE  /\ answer'[e] # "none"
             /\ \A x \in Id : answer[x] # "none" => answer'[x] # "none"
  BY <1>1, <1>3 DEF Settle, futureVars
<1>4. CASE Callers
  <2>1. CASE \E e \in Id : FlushTimesOut(e)
    BY <1>2, <1>3, <2>1 DEF FlushTimesOut
  <2>2. CASE ~\E e \in Id : FlushTimesOut(e)
    BY <1>2, <1>4, <2>2 DEF Callers, StartReturns, StartTimesOut, SubmitBegins, SubmitPuts,
       SubmitRejected
  <2> QED BY <2>1, <2>2
<1>5. CASE CloseBegins \/ CloseRequestsDrain \/ CloseWakesWriter \/ CloseJoins
             \/ CloseFindsQueueEmpty \/ CloseReturns \/ UNCHANGED vars
  BY <1>2, <1>5 DEF CloseBegins, CloseRequestsDrain, CloseWakesWriter, CloseJoins,
     CloseFindsQueueEmpty, CloseReturns, vars
<1>6. CASE CloseAbandons
  <2>1. leftovers = {}
    BY <1>6 DEF CloseAbandons, Drained
  <2>2. /\ UNCHANGED <<wpc, batch, group, answer>>
        /\ Pending(current) \subseteq current' \cup leftovers'
    BY <1>6 DEF CloseAbandons
  <2> QED BY <1>1, <2>1, <2>2
<1>7. CASE CloseTakes
  <2>1. UNCHANGED <<wpc, batch, group, current, answer>> /\ leftovers \subseteq leftovers'
    BY <1>7 DEF CloseTakes
  <2> QED BY <1>1, <2>1
<1>8. CASE CloseSettles
  <2>1. PICK e \in leftovers : Settle(e, "failed") /\ leftovers' = leftovers \ {e}
    BY <1>8 DEF CloseSettles
  <2>2. UNCHANGED <<wpc, batch, group, current>>
    BY <1>8 DEF CloseSettles
  <2> QED BY <1>1, <1>3, <2>1, <2>2
<1>9. CASE \/ Opens \/ Stages \/ Commits \/ CommitRaises \/ SavepointRaises
           \/ Polls \/ SeesAbandoned \/ TakesEnvelope \/ FindsNoEnvelope
           \/ TakesRemaining \/ TookRemaining \/ Begins \/ RunsMutation \/ GivesUpGroup
           \/ EntersCommit \/ LeavesFailedCommit \/ LocksToSettle \/ RunsCallbacks
           \/ FinishesBatch \/ Escapes
  BY <1>1, <1>9 DEF Opens, Stages, Commits, CommitRaises, SavepointRaises, Polls,
     SeesAbandoned, TakesEnvelope, FindsNoEnvelope, TakesRemaining, TookRemaining, Begins,
     RunsMutation, GivesUpGroup, EntersCommit, LeavesFailedCommit, LocksToSettle,
     RunsCallbacks, FinishesBatch, Escapes
<1>10. CASE HoldsEnvelope \/ GathersNoMore
  <2>1. wpc' = "process" => batch' = current'
    BY <1>10 DEF HoldsEnvelope, GathersNoMore
  <2>2. wpc' \in {"process", "gather"}
    BY <1>10 DEF HoldsEnvelope, GathersNoMore
  <2> QED BY <2>1, <2>2
<1>11. CASE StartsGroup
  <2>1. /\ group' \subseteq batch /\ batch' \subseteq batch
        /\ wpc = "process" /\ UNCHANGED <<current, leftovers, answer>>
    BY <1>1, <1>11, NextGroupFacts DEF StartsGroup
  <2> QED BY <2>1
<1>12. CASE SettlesRemaining \/ SettlesCommitted \/ SettlesRolledBack \/ RollsBackMutation
  <2>1. UNCHANGED <<batch, group, current, leftovers>>
    BY <1>12 DEF SettlesRemaining, SettlesCommitted, SettlesRolledBack, RollsBackMutation
  <2>2. \A e \in Id : answer[e] # "none" => answer'[e] # "none"
    BY <1>1, <1>3, <1>12
       DEF SettlesRemaining, SettlesCommitted, SettlesRolledBack, RollsBackMutation
  <2>3. \/ wpc' \in {wpc, "callbacks", "process", "exited"}
        \/ wpc = "run" /\ wpc' = "loop"
    BY <1>12 DEF SettlesRemaining, SettlesCommitted, SettlesRolledBack, RollsBackMutation
  <2>4. wpc \in {"fail", "settle", "rollback", "run"} /\ (wpc = "fail" => wpc' \in {"fail", "exited"})
    BY <1>12 DEF SettlesRemaining, SettlesCommitted, SettlesRolledBack, RollsBackMutation
  <2> QED BY <1>1, <2>1, <2>2, <2>3, <2>4
<1> QED
  BY <1>4, <1>5, <1>6, <1>7, <1>8, <1>9, <1>10, <1>11, <1>12
     DEF Next, CloseProceeds, WriterBlocks, WriterRuns

(* Nothing has been accepted yet, and nothing is being closed.             *)
LEMMA NothingLostInitially == Init => WInv
<1> SUFFICES ASSUME Init PROVE WInv
  OBVIOUS
<1>1. Stopping /\ Drained
  BY DEF Init, Stopping, Drained
<1>2. Whereabouts /\ Named
  BY DEF Init, Whereabouts, Named, Pending, InTransaction, AfterCommit
<1> QED
  BY <1>1, <1>2 DEF WInv

(* A future is left pending for good only if an exception that escaped     *)
(* _commit_group had its mutation cleared from _current_group, or ended    *)
(* the thread while it was in the queue: whatever close() takes over from  *)
(* the writer, and whenever it does, every other mutation is in a list     *)
(* whose owner still has to answer it.                                     *)
THEOREM OnlyEscapesCanLose == Spec => []OnlyEscapesLose
<1>1. IInv /\ WInv /\ [Next]_vars => WInv'
  BY StoppingKept, WhereaboutsKept, NamedKept DEF WInv
<1>2. IInv /\ WInv => OnlyEscapesLose
  <2> SUFFICES ASSUME IInv, WInv, wpc = "exited", closer = "closed"
               PROVE  /\ Pending(1..head) \subseteq dropped
                      /\ escapes = 0 => head = tail
    BY DEF OnlyEscapesLose
  <2>1. leftovers = {} /\ (escapes = 0 => head = tail)
    BY DEF WInv, Drained
  <2>2. hand = {} /\ batch = {}
    BY DEF IInv, Places, InTransaction, AfterCommit
  <2>3. \A e \in Pending(1..head) : e \in leftovers \cup dropped \/ WriterHas(e)
    BY DEF WInv, Whereabouts
  <2> QED
    BY <2>1, <2>2, <2>3 DEF WriterHas
<1> QED
  BY <1>1, <1>2, NothingLostInitially, Invariance, PTL DEF Spec

-----------------------------------------------------------------------------
(* LedgerWriter implements MutationLog.                                    *)

(* Nothing accepted, durable or answered: an initial state of MutationLog. *)
LEMMA InitiallyPromised == Init => Promise!Init
BY DEF Init, Promise!Init, Id, Promise!Id

(* Settling an envelope tells its submitter, or does nothing.              *)
LEMMA SettleTells ==
  ASSUME IInv, NEW e \in 1..tail, NEW a, Settle(e, a), UNCHANGED <<tail, durable>>,
         a = "ok" => e \in durable,
         a = "failed" => e \notin durable \/ answer[e] # "none",
         a \in {"ok", "failed", "unknown"}
  PROVE  Promise!Next \/ UNCHANGED <<tail, durable, answer>>
<1>1. CASE answer[e] = "none"
  BY <1>1 DEF Settle, Promise!Next, Promise!Confirm, Promise!Refuse,
     Promise!GiveUp, Promise!Tell
<1>2. CASE answer[e] # "none"
  BY <1>2 DEF Settle, futureVars
<1> QED
  BY <1>1, <1>2

(* Every step of the writer, of close() and of a caller is a step of       *)
(* MutationLog, or leaves what it speaks of unchanged.                     *)
LEMMA StepPromised == IInv /\ [Next]_vars => [Promise!Next]_<<tail, durable, answer>>
<1> SUFFICES ASSUME IInv, [Next]_vars
             PROVE  Promise!Next \/ UNCHANGED <<tail, durable, answer>>
  OBVIOUS
<1> USE DEF clientVars, queueVars, futureVars, guardVars, listVars, dbVars, txnVars,
        threadVars, closeVars, othersVars, sharedVars, WriterGoes
<1>1. CASE SubmitPuts
  <2>1. tail < MaxMutations /\ tail' = tail + 1 /\ UNCHANGED <<durable, answer>>
    BY <1>1 DEF SubmitPuts, IInv, Places
  <2> QED
    BY <2>1 DEF Promise!Next, Promise!Accept
<1>2. CASE Commits
  <2>1. /\ staged \subseteq group /\ staged \in SUBSET (1..tail)
        /\ durable \subseteq 1..tail
    BY <1>2, WriterAssumption DEF Commits, IInv, TypeOK, Places
  <2>2. \A n \in staged : \A d \in durable : d < n
    BY <1>2, <2>1 DEF Commits, IInv, InOrder, InTransaction
  <2>3. staged \cap durable = {}
    BY <2>1, <2>2
  <2>4. \A n \in staged : answer[n] # "failed"
    BY <1>2 DEF Commits, IInv, NotRefused
  <2>5. durable' = durable \cup staged /\ UNCHANGED <<tail, answer>>
    BY <1>2 DEF Commits
  <2> QED
    BY <2>1, <2>2, <2>3, <2>4, <2>5 DEF Promise!Next, Promise!Commit
<1>3. CASE \E e \in Id : FlushTimesOut(e)
  <2>1. PICK e \in Id : FlushTimesOut(e)
    BY <1>3
  <2>2. e \in 1..tail /\ Settle(e, "unknown") /\ UNCHANGED <<tail, durable>>
    BY <2>1 DEF FlushTimesOut, Pending, IInv, TypeOK
  <2> QED
    BY <2>2, SettleTells
<1>4. CASE CloseSettles
  <2>1. PICK e \in leftovers : Settle(e, "failed") /\ UNCHANGED <<tail, durable>>
    BY <1>4 DEF CloseSettles, First
  <2>2. e \in 1..tail /\ e \notin durable
    BY WriterAssumption DEF IInv, TypeOK, Refusable
  <2> QED
    BY <2>1, <2>2, SettleTells
<1>5. CASE SettlesRemaining
  <2>1. CASE ready = {}
    BY <1>5, <2>1 DEF SettlesRemaining
  <2>2. CASE ready # {}
    <3>1. PICK e \in ready : Settle(e, "failed") /\ UNCHANGED <<tail, durable>>
      BY <1>5, <2>2 DEF SettlesRemaining, First
    <3>2. e \in 1..tail /\ e \notin durable
      BY <1>5, WriterAssumption DEF SettlesRemaining, IInv, TypeOK, Refusable
    <3> QED
      BY <3>1, <3>2, SettleTells
  <2> QED
    BY <2>1, <2>2
<1>6. CASE RollsBackMutation
  <2>1. PICK e \in ready : Settle(e, "failed") /\ UNCHANGED <<tail, durable>>
    BY <1>6 DEF RollsBackMutation, First
  <2>2. e \in group
    BY <1>6 DEF RollsBackMutation, IInv, Places
  <2>3. e \in 1..tail /\ e \notin durable
    BY <1>6, <2>2, WriterAssumption
       DEF RollsBackMutation, IInv, TypeOK, InOrder, InTransaction
  <2> QED
    BY <2>1, <2>3, SettleTells
<1>7. CASE SettlesCommitted
  <2>1. CASE ready = {}
    BY <1>7, <2>1 DEF SettlesCommitted
  <2>2. CASE ready # {}
    <3>1. PICK e \in ready : Settle(e, "ok") /\ UNCHANGED <<tail, durable>>
      BY <1>7, <2>2 DEF SettlesCommitted, First
    <3>2. e \in 1..tail /\ e \in durable
      BY <1>7, WriterAssumption
         DEF SettlesCommitted, IInv, TypeOK, Places, Answered, AfterCommit
    <3> QED
      BY <3>1, <3>2, SettleTells
  <2> QED
    BY <2>1, <2>2
<1>8. CASE SettlesRolledBack
  <2>1. CASE ready = {}
    BY <1>8, <2>1 DEF SettlesRolledBack
  <2>2. CASE ready # {}
    <3>1. PICK e \in ready : Settle(e, "failed") /\ UNCHANGED <<tail, durable>>
      BY <1>8, <2>2 DEF SettlesRolledBack, First
    <3>2. e \in group
      BY <1>8 DEF SettlesRolledBack, IInv, Places
    <3>3. e \in 1..tail /\ e \notin durable
      BY <1>8, <3>2, WriterAssumption
         DEF SettlesRolledBack, IInv, TypeOK, InOrder, InTransaction
    <3> QED
      BY <3>1, <3>3, SettleTells
  <2> QED
    BY <2>1, <2>2
<1>9. CASE CloseProceeds /\ ~CloseSettles
  BY <1>9 DEF CloseProceeds, CloseRequestsDrain, CloseWakesWriter, CloseJoins,
     CloseAbandons, CloseTakes, CloseFindsQueueEmpty, CloseReturns
<1>10. CASE WriterRuns /\ ~SettlesRemaining /\ ~SettlesCommitted /\ ~SettlesRolledBack
  BY <1>10 DEF WriterRuns, SeesAbandoned, Polls, TakesEnvelope, FindsNoEnvelope,
     HoldsEnvelope, GathersNoMore, StartsGroup, FinishesBatch, TakesRemaining,
     TookRemaining, Begins, RunsMutation, GivesUpGroup, EntersCommit,
     LeavesFailedCommit, LocksToSettle, RunsCallbacks
<1>11. CASE \/ UNCHANGED vars \/ CloseBegins \/ Opens \/ Stages \/ CommitRaises
            \/ SavepointRaises \/ Escapes \/ StartReturns \/ StartTimesOut \/ SubmitRejected
            \/ \E kind \in {"plain", "flush"} : SubmitBegins(kind)
  BY <1>11 DEF vars, CloseBegins, Opens, Stages, CommitRaises, SavepointRaises,
     Escapes, StartReturns,
     StartTimesOut, SubmitRejected, SubmitBegins
<1> QED
  BY <1>1, <1>2, <1>3, <1>4, <1>5, <1>6, <1>7, <1>8, <1>9, <1>10, <1>11
     DEF Next, Callers, WriterBlocks

(* The threads, queue, groups and transactions of the writer keep what     *)
(* MutationLog promises its submitters.                                    *)
THEOREM Implements == Spec => ImplementsMutationLog
<1>1. [Promise!Next]_<<tail, durable, answer>> => [Promise!Next]_Promise!mlVars
  BY DEF Promise!mlVars
<1> QED
  BY <1>1, InitiallyPromised, StepPromised, Invariance, PTL
     DEF Spec, ImplementsMutationLog, Promise!Spec
=============================================================================
