------------------------- MODULE CommandQueueProofs -------------------------
(***************************************************************************)
(* Proofs about the runtime manager's command queue, for any commands of   *)
(* any kinds and any number of deaths of the daemon.                       *)
(***************************************************************************)
EXTENDS CommandQueue, FiniteSetTheorems, TLAPS

(* The places where the daemon works on a claimed file.                    *)
Working == {"claimed", "handling", "reopening", "settling", "verifying", "closed",
            "stopping", "deferring", "rejecting", "clearing", "completing", "completed"}

Sent == {c \in Commands : pc[c] = "sent"}

(* What was queued has a file or a result.                                 *)
QueuedKept ==
  \A c \in Sent : c \in inbox \union processing \union aside \/ result[c] # "none"

(* The daemon's file is claimed, and is unlinked only when its copy or its *)
(* result is written.                                                      *)
DaemonHolds ==
  /\ dpc \in Working => cur \in processing
  /\ dpc \in {"rejecting", "clearing", "completing"} => outcome # "none"
  /\ dpc = "completed" => result[cur] # "none"
  /\ dpc = "deferred" /\ cur \in Commands =>
       cur \in inbox \union aside \/ result[cur] # "none"

(* Files, victims and predecessors are commands that were queued; only     *)
(* they and the requests that were turned away have results.               *)
QueuedFirst ==
  /\ inbox \union processing \union aside \subseteq Sent
  /\ \A c \in Commands :
       /\ victims[c] \union older[c] \subseteq Sent
       /\ result[c] # "none" => pc[c] \in {"sent", "told"}
       /\ cancel[c] = "aside" => c \in aside

(* A victim is unlinked after its result is written.                       *)
ResultsFirst ==
  \A c \in Commands :
    /\ pc[c] \in {"overrule", "drop"} => ref[c] \in Sent
    /\ pc[c] = "drop" => result[ref[c]] # "none"

(* A command has one file, but between the two steps of its deferral.      *)
OneFile ==
  \A c \in Commands \ strays :
    /\ c \in inbox => c \notin aside
    /\ c \in processing =>
         \/ c \notin inbox \union aside
         \/ dpc = "deferred" /\ cur = c

(* A claimed command that is answered has been superseded, or the daemon   *)
(* is about to unlink it or has died.                                      *)
ClaimedUnanswered ==
  \A c \in processing \ strays :
    \/ result[c] \in {"none", "superseded"}
    \/ dpc \in {"completed", "deferred"} /\ cur = c
    \/ dpc \in {"down", "starting", "recovering"}

(* A pending command that is answered has been superseded, until the inbox *)
(* is tidied.                                                              *)
PendingUnanswered ==
  \A c \in inbox \ strays :
    \/ result[c] \in {"none", "superseded"}
    \/ dpc \in {"clearing", "down", "starting", "recovering", "tidying"}

(* A close has among its victims all that it finds pending, until it has   *)
(* superseded them.                                                        *)
ClosesSupersede ==
  \A d \in Commands :
    kind[d] \in Closing
      /\ pc[d] \in {"supersede", "overrule", "drop", "join", "enqueue", "sent", "joined"} =>
    \A c \in (older[d] \intersect inbox) \ again :
      kind[c] \in Opening => c \in victims[d] /\ pc[d] \in {"supersede", "overrule", "drop"}

Order ==
  /\ QueuedKept /\ DaemonHolds /\ QueuedFirst /\ ResultsFirst /\ OneFile
  /\ ClaimedUnanswered /\ PendingUnanswered /\ ClosesSupersede

IInv == TypeOK /\ Order

-----------------------------------------------------------------------------
(* Requests: a submission up to its place in the queue.                    *)

LEMMA RequestsTyped ==
  ASSUME IInv, NEW c \in Commands,
         Promises(c) \/ Refuses(c) \/ TakesStock(c) \/ ReadsVictim(c)
           \/ WritesSuperseded(c) \/ DropsVictim(c) \/ Interrupts(c) \/ Joins(c)
           \/ Enqueues(c)
  PROVE  TypeOK'
<1> USE DEF IInv, Order, TypeOK, Results, Kinds, ResultsFirst, QueuedFirst,
        Sent, Joinable, Rejection, files, state, daemon, world, history
<1>1. CASE Promises(c)
  BY <1>1 DEF Promises
<1>2. CASE Refuses(c)
  BY <1>2 DEF Refuses
<1>3. CASE TakesStock(c)
  BY <1>3 DEF TakesStock
<1>4. CASE ReadsVictim(c)
  BY <1>4 DEF ReadsVictim
<1>5. CASE WritesSuperseded(c)
  BY <1>5 DEF WritesSuperseded
<1>6. CASE DropsVictim(c)
  BY <1>6 DEF DropsVictim
<1>7. CASE Interrupts(c)
  BY <1>7 DEF Interrupts
<1>8. CASE Joins(c)
  BY <1>8 DEF Joins
<1>9. CASE Enqueues(c)
  BY <1>9 DEF Enqueues
<1> QED BY <1>1, <1>2, <1>3, <1>4, <1>5, <1>6, <1>7, <1>8, <1>9

LEMMA RequestsOrdered ==
  ASSUME IInv, TypeOK', NEW c \in Commands,
         Asks(c) \/ Promises(c) \/ Refuses(c) \/ TakesStock(c)
           \/ ReadsVictim(c) \/ WritesSuperseded(c) \/ DropsVictim(c)
           \/ Interrupts(c) \/ Joins(c) \/ Enqueues(c)
  PROVE  Order'
<1> USE DEF IInv, Order, TypeOK, QueuedKept, DaemonHolds, QueuedFirst,
        ResultsFirst, OneFile, ClaimedUnanswered, PendingUnanswered, ClosesSupersede, Sent,
        Working, Rejection, Overrules, files, state, daemon, world, history
<1>1. CASE Asks(c)
  BY <1>1 DEF Asks
<1>2. CASE Promises(c)
  BY <1>2 DEF Promises
<1>3. CASE Refuses(c)
  BY <1>3 DEF Refuses
<1>4. CASE TakesStock(c)
  BY <1>4 DEF TakesStock
<1>5. CASE ReadsVictim(c)
  BY <1>5 DEF ReadsVictim
<1>6. CASE WritesSuperseded(c)
  BY <1>6 DEF WritesSuperseded
<1>7. CASE DropsVictim(c)
  BY <1>7 DEF DropsVictim
<1>8. CASE Interrupts(c)
  BY <1>8 DEF Interrupts
<1>9. CASE Joins(c)
  BY <1>9 DEF Joins
<1>10. CASE Enqueues(c)
  BY <1>10 DEF Enqueues
<1> QED BY <1>1, <1>2, <1>3, <1>4, <1>5, <1>6, <1>7, <1>8, <1>9, <1>10

-----------------------------------------------------------------------------
(* Cancels, deferrals that come due, and the claim of a command.           *)

LEMMA MovesTyped ==
  ASSUME IInv, NEW c \in Commands,
         CancelTakes(c) \/ CancelEnds(c) \/ CancelInterrupts(c) \/ ComesDue(c)
         \/ Claims(c)
  PROVE  TypeOK'
<1> USE DEF IInv, Order, TypeOK, Results, Kinds, files, state, daemon,
        submitted, world, history, Elsewhere
<1>1. CASE CancelTakes(c)
  BY <1>1 DEF CancelTakes
<1>2. CASE CancelEnds(c)
  BY <1>2 DEF CancelEnds
<1>3. CASE CancelInterrupts(c)
  BY <1>3 DEF CancelInterrupts
<1>4. CASE ComesDue(c)
  BY <1>4 DEF ComesDue
<1>5. CASE Claims(c)
  BY <1>5 DEF Claims
<1> QED BY <1>1, <1>2, <1>3, <1>4, <1>5

LEMMA MovesOrdered ==
  ASSUME IInv, TypeOK', NEW c \in Commands,
         CancelTakes(c) \/ CancelEnds(c) \/ CancelInterrupts(c) \/ ComesDue(c)
         \/ Claims(c)
  PROVE  Order'
<1> USE DEF IInv, Order, TypeOK, QueuedKept, DaemonHolds, QueuedFirst,
        ResultsFirst, OneFile, ClaimedUnanswered, PendingUnanswered, ClosesSupersede, Sent,
        Working, files, state, daemon, submitted, world, history, Elsewhere
<1>1. CASE CancelTakes(c)
  BY <1>1 DEF CancelTakes
<1>2. CASE CancelEnds(c)
  BY <1>2 DEF CancelEnds, Answered
<1>3. CASE CancelInterrupts(c)
  BY <1>3 DEF CancelInterrupts
<1>4. CASE ComesDue(c)
  BY <1>4 DEF ComesDue
<1>5. CASE Claims(c)
  BY <1>5 DEF Claims
<1> QED BY <1>1, <1>2, <1>3, <1>4, <1>5

-----------------------------------------------------------------------------
(* The daemon starts, recovers, goes idle and ends.                        *)

LEMMA RecoveryTyped ==
  ASSUME IInv,
         Starts \/ SavesRunning \/ Recovers \/ Tidies \/ Reconciles \/ Begins
         \/ Leaves \/ Dies \/ WorkEnds
  PROVE  TypeOK'
<1> USE DEF IInv, Order, TypeOK, Results, Kinds, DaemonHolds, Working,
        Satisfied, Answered, files, state, daemon, submitted, world, history, Elsewhere
<1>1. CASE Starts
  BY <1>1 DEF Starts
<1>2. CASE SavesRunning
  BY <1>2 DEF SavesRunning
<1>3. CASE Recovers
  BY <1>3 DEF Recovers
<1>4. CASE Tidies
  BY <1>4 DEF Tidies
<1>5. CASE Reconciles
  BY <1>5 DEF Reconciles
<1>6. CASE Begins
  BY <1>6 DEF Begins
<1>7. CASE Leaves
  BY <1>7 DEF Leaves
<1>8. CASE Dies
  BY <1>8 DEF Dies
<1>9. CASE WorkEnds
  <2>1. busy' = FALSE
    BY <1>9 DEF WorkEnds
  <2>2. busy' \in BOOLEAN
    BY <2>1
  <2> QED BY <1>9, <2>2 DEF WorkEnds
<1> QED BY <1>1, <1>2, <1>3, <1>4, <1>5, <1>6, <1>7, <1>8, <1>9

LEMMA RecoveryOrdered ==
  ASSUME IInv, TypeOK',
         Starts \/ SavesRunning \/ Recovers \/ Tidies \/ Reconciles \/ Begins
         \/ Leaves \/ Dies \/ WorkEnds
  PROVE  Order'
<1> USE DEF IInv, Order, TypeOK, QueuedKept, DaemonHolds, QueuedFirst,
        ResultsFirst, OneFile, ClaimedUnanswered, PendingUnanswered, ClosesSupersede, Sent,
        Working, Satisfied, OverruledIn, Answered, files, state, daemon, submitted,
        world, history, Elsewhere
<1>1. CASE Starts
  BY <1>1 DEF Starts
<1>2. CASE SavesRunning
  BY <1>2 DEF SavesRunning
<1>3. CASE Recovers
  <2>1. /\ dpc = "recovering" /\ dpc' = "tidying" /\ processing' = {}
        /\ inbox \subseteq inbox' /\ inbox' \subseteq inbox \union processing
        /\ inbox' \ inbox \subseteq again'  /\ again \subseteq again'
        /\ UNCHANGED <<aside, cur, strays, pc, kind, victims, ref, older, cancel, outcome>>
    BY <1>3 DEF Recovers
  <2>2. \A c \in Commands :
          /\ c \in processing \ inbox' => result'[c] # "none"
          /\ result[c] # "none" => result'[c] # "none"
          /\ c \notin processing => result'[c] = result[c]
    BY <1>3 DEF Recovers
  <2>3. QueuedKept' /\ QueuedFirst'
    BY <2>1, <2>2
  <2>4. DaemonHolds' /\ ResultsFirst' /\ OneFile'
    BY <2>1, <2>2
  <2>5. ClaimedUnanswered' /\ PendingUnanswered' /\ ClosesSupersede'
    BY <2>1, <2>2
  <2> QED
    BY <2>3, <2>4, <2>5
<1>4. CASE Tidies
  <2>1. /\ dpc = "tidying" /\ dpc' = "idle" /\ inbox' \subseteq inbox
        /\ UNCHANGED <<processing, aside, cur, again, strays, pc, kind, victims, ref, older,
                       cancel, outcome>>
    BY <1>4 DEF Tidies
  <2>2. \A c \in Commands :
          /\ c \in inbox \ inbox' => result'[c] # "none"
          /\ result[c] # "none" => result'[c] # "none"
          /\ c \notin inbox => result'[c] = result[c]
          /\ c \in inbox' => result'[c] = "none" /\ result[c] = "none"
    BY <1>4 DEF Tidies
  <2>3. QueuedKept' /\ QueuedFirst'
    BY <2>1, <2>2
  <2>4. DaemonHolds' /\ ResultsFirst' /\ OneFile'
    BY <2>1, <2>2
  <2>5. ClaimedUnanswered' /\ PendingUnanswered' /\ ClosesSupersede'
    BY <2>1, <2>2
  <2> QED
    BY <2>3, <2>4, <2>5
<1>5. CASE Reconciles
  BY <1>5 DEF Reconciles
<1>6. CASE Begins
  BY <1>6 DEF Begins
<1>7. CASE Leaves
  BY <1>7 DEF Leaves
<1>8. CASE Dies
  BY <1>8 DEF Dies
<1>9. CASE WorkEnds
  BY <1>9 DEF WorkEnds
<1> QED BY <1>1, <1>2, <1>3, <1>4, <1>5, <1>6, <1>7, <1>8, <1>9

-----------------------------------------------------------------------------
(* The handlers of the claimed command.                                    *)

LEMMA HandlersTyped ==
  ASSUME IInv,
         HandsOff \/ FindsNoHandler \/ HandlesOpen \/ FindsOpen \/ Blocks \/ Republishes
           \/ Reopens \/ Settles \/ Verifies \/ HandlesClose \/ ClaimsReopen
           \/ FinishesShutdown
  PROVE  TypeOK'
<1> USE DEF IInv, Order, TypeOK, Results, Kinds, DaemonHolds, Working, files,
        state, submitted, world, history, Elsewhere, Handles, Finishes, Yields
<1>1. CASE HandlesOpen
  BY <1>1 DEF HandlesOpen
<1>2. CASE Blocks
  BY <1>2 DEF Blocks
<1>3. CASE Republishes
  BY <1>3 DEF Republishes
<1>4. CASE Reopens
  BY <1>4 DEF Reopens
<1>5. CASE Verifies
  BY <1>5 DEF Verifies
<1>6. CASE HandlesClose
  <2>1. busy' = FALSE
    BY <1>6 DEF HandlesClose
  <2>2. busy' \in BOOLEAN
    BY <2>1
  <2> QED BY <1>6, <2>2 DEF HandlesClose
<1>7. CASE ClaimsReopen
  BY <1>7 DEF ClaimsReopen
<1>8. CASE FinishesShutdown
  BY <1>8 DEF FinishesShutdown
<1>9. CASE HandsOff
  BY <1>9 DEF HandsOff
<1>10. CASE FindsNoHandler \/ FindsOpen
  BY <1>10 DEF FindsNoHandler, FindsOpen
<1>11. CASE Settles
  BY <1>11 DEF Settles
<1> QED BY <1>1, <1>2, <1>3, <1>4, <1>5, <1>6, <1>7, <1>8, <1>9, <1>10, <1>11

LEMMA HandlersOrdered ==
  ASSUME IInv, TypeOK',
         HandsOff \/ FindsNoHandler \/ HandlesOpen \/ FindsOpen \/ Blocks \/ Republishes
           \/ Reopens \/ Settles \/ Verifies \/ HandlesClose \/ ClaimsReopen
           \/ FinishesShutdown
  PROVE  Order'
<1> USE DEF IInv, Order, TypeOK, QueuedKept, DaemonHolds, QueuedFirst,
        ResultsFirst, OneFile, ClaimedUnanswered, PendingUnanswered, ClosesSupersede, Sent,
        Working, files, state, submitted, world, history, Elsewhere, Handles, Finishes,
        Yields
<1>1. CASE HandlesOpen
  BY <1>1 DEF HandlesOpen
<1>2. CASE Blocks
  BY <1>2 DEF Blocks
<1>3. CASE Republishes
  BY <1>3 DEF Republishes
<1>4. CASE Reopens
  BY <1>4 DEF Reopens
<1>5. CASE Verifies
  BY <1>5 DEF Verifies
<1>6. CASE HandlesClose
  BY <1>6 DEF HandlesClose
<1>7. CASE ClaimsReopen
  BY <1>7 DEF ClaimsReopen
<1>8. CASE FinishesShutdown
  BY <1>8 DEF FinishesShutdown
<1>9. CASE HandsOff
  BY <1>9 DEF HandsOff
<1>10. CASE FindsNoHandler \/ FindsOpen
  BY <1>10 DEF FindsNoHandler, FindsOpen
<1>11. CASE Settles
  BY <1>11 DEF Settles
<1> QED BY <1>1, <1>2, <1>3, <1>4, <1>5, <1>6, <1>7, <1>8, <1>9, <1>10, <1>11

-----------------------------------------------------------------------------
(* What follows a handler.                                                 *)

LEMMA EndingsTyped ==
  ASSUME IInv,
         Defers \/ UnlinksDeferred \/ Forgets \/ Rejects \/ ClearsInbox
           \/ Completes \/ UnlinksClaimed \/ OpensDeferred
  PROVE  TypeOK'
<1> USE DEF IInv, Order, TypeOK, Results, Kinds, DaemonHolds, Working,
        Rejection, files, state, submitted, world, history, Elsewhere
<1>1. CASE Defers
  BY <1>1 DEF Defers
<1>2. CASE UnlinksDeferred
  BY <1>2 DEF UnlinksDeferred
<1>3. CASE Forgets
  BY <1>3 DEF Forgets
<1>4. CASE Rejects
  BY <1>4 DEF Rejects
<1>5. CASE ClearsInbox
  BY <1>5 DEF ClearsInbox
<1>6. CASE Completes
  BY <1>6 DEF Completes
<1>7. CASE UnlinksClaimed
  BY <1>7 DEF UnlinksClaimed
<1>8. CASE OpensDeferred
  <2>1. PICK s \in {"completed", "failed"} : intent' = [intent EXCEPT ![reopen] = s]
    BY <1>8 DEF OpensDeferred
  <2>2. intent' \in [Commands -> {"none", "pending", "claimed", "completed", "failed"}]
    BY <2>1
  <2> QED BY <1>8, <2>2 DEF OpensDeferred
<1> QED BY <1>1, <1>2, <1>3, <1>4, <1>5, <1>6, <1>7, <1>8

LEMMA EndingsOrdered ==
  ASSUME IInv, TypeOK',
         Defers \/ UnlinksDeferred \/ Forgets \/ Rejects \/ ClearsInbox
           \/ Completes \/ UnlinksClaimed \/ OpensDeferred
  PROVE  Order'
<1> USE DEF IInv, Order, TypeOK, QueuedKept, DaemonHolds, QueuedFirst,
        ResultsFirst, OneFile, ClaimedUnanswered, PendingUnanswered, ClosesSupersede, Sent,
        Working, Rejection, files, state, submitted, world, history, Elsewhere
<1>1. CASE Defers
  BY <1>1 DEF Defers
<1>2. CASE UnlinksDeferred
  BY <1>2 DEF UnlinksDeferred
<1>3. CASE Forgets
  BY <1>3 DEF Forgets
<1>4. CASE Rejects
  BY <1>4 DEF Rejects
<1>5. CASE ClearsInbox
  BY <1>5 DEF ClearsInbox
<1>6. CASE Completes
  BY <1>6 DEF Completes
<1>7. CASE UnlinksClaimed
  BY <1>7 DEF UnlinksClaimed
<1>8. CASE OpensDeferred
  BY <1>8 DEF OpensDeferred
<1> QED BY <1>1, <1>2, <1>3, <1>4, <1>5, <1>6, <1>7, <1>8

-----------------------------------------------------------------------------
(* A new request is younger than all before it.                              *)
LEMMA AsksTyped ==
  ASSUME IInv, NEW c \in Commands, Asks(c)
  PROVE  TypeOK'
<1>1. IsFiniteSet({d \in Commands : asked[d] > 0})
  BY QueueAssumption, FS_Subset
<1>2. 1 + Cardinality({d \in Commands : asked[d] > 0}) \in Nat
  BY <1>1, FS_CardinalityType
<1> QED
  BY <1>2 DEF Asks, IInv, TypeOK, files, state, daemon, world, history

(* Before the first request the invariant holds.                            *)
LEMMA Initially == Init => IInv
<1> SUFFICES ASSUME Init PROVE IInv
  OBVIOUS
<1>1. TypeOK
  BY QueueAssumption DEF Init, TypeOK, Results, Kinds
<1>2. Order
  BY <1>1, QueueAssumption DEF Init, Order, QueuedKept, DaemonHolds, QueuedFirst,
     ResultsFirst, OneFile, ClaimedUnanswered, PendingUnanswered, ClosesSupersede, Sent, Working
<1> QED
  BY <1>1, <1>2 DEF IInv

(* A step that changes nothing keeps it.                                   *)
LEMMA Stutters == IInv /\ UNCHANGED vars => IInv'
BY DEF vars, files, state, daemon, submitted, world, history, IInv, TypeOK, Order, QueuedKept,
   DaemonHolds, QueuedFirst, ResultsFirst, OneFile, ClaimedUnanswered, PendingUnanswered, ClosesSupersede, Sent

(* Every step of a request, a cancel or the daemon keeps it.               *)
LEMMA Inductive == IInv /\ [Next]_vars => IInv'
<1> SUFFICES ASSUME IInv, Next PROVE IInv'
  BY Stutters
<1>1. ASSUME NEW c \in Commands, Asks(c) \/ SubmissionStep(c)
      PROVE  IInv'
  <2>1. TypeOK'
    BY <1>1, AsksTyped, RequestsTyped DEF SubmissionStep
  <2> QED
    BY <1>1, <2>1, RequestsOrdered DEF SubmissionStep, IInv
<1>2. ASSUME NEW c \in Commands,
             CancelTakes(c) \/ CancelEnds(c) \/ CancelInterrupts(c) \/ ComesDue(c) \/ Claims(c)
      PROVE  IInv'
  BY <1>2, MovesTyped, MovesOrdered DEF IInv
<1>3. ASSUME DaemonStep \/ Starts \/ Reconciles \/ Dies \/ WorkEnds,
             ~\E c \in Commands : Claims(c)
      PROVE  IInv'
  <2>1. TypeOK'
    BY <1>3, RecoveryTyped, HandlersTyped, EndingsTyped DEF DaemonStep
  <2> QED
    BY <1>3, <2>1, RecoveryOrdered, HandlersOrdered, EndingsOrdered DEF DaemonStep, IInv
<1> QED
  BY <1>1, <1>2, <1>3 DEF Next, DaemonStep

(* In every reachable state IInv holds.                                    *)
THEOREM Invariance == Spec => []IInv
BY Initially, Inductive, PTL DEF Spec

(* Every variable keeps its type.                                          *)
THEOREM TypeCorrect == Spec => []TypeOK
<1>1. IInv => TypeOK
  BY DEF IInv
<1> QED
  BY <1>1, Invariance, PTL

(* What has a place in the queue keeps it for good.                        *)
LEMMA SentKept ==
  ASSUME IInv, [Next]_vars, NEW d \in Sent
  PROVE  d \in Sent'
<1>1. ASSUME NEW c \in Commands, Asks(c) \/ SubmissionStep(c)
      PROVE  pc' = pc \/ (pc[c] # "sent" /\ \E place : pc' = [pc EXCEPT ![c] = place])
  BY <1>1 DEF Asks, SubmissionStep, Promises, Refuses, TakesStock, ReadsVictim,
     WritesSuperseded, DropsVictim, Interrupts, Joins, Enqueues, submitted
<1>2. ASSUME NEW c \in Commands, CancelTakes(c) \/ CancelEnds(c) \/ CancelInterrupts(c)
                                 \/ ComesDue(c) \/ Claims(c)
      PROVE  pc' = pc
  BY <1>2 DEF CancelTakes, CancelEnds, CancelInterrupts, ComesDue, Claims,
     Elsewhere, submitted
<1>3. ASSUME \/ SavesRunning \/ Recovers \/ Tidies \/ Begins \/ HandsOff
             \/ FindsNoHandler \/ HandlesOpen \/ FindsOpen \/ Blocks \/ Republishes
             \/ Reopens \/ Settles \/ Verifies \/ HandlesClose \/ ClaimsReopen
      PROVE  pc' = pc
  BY <1>3 DEF SavesRunning, Recovers, Tidies, Begins, HandsOff, FindsNoHandler, HandlesOpen, FindsOpen, Blocks, Republishes, Settles,
     Reopens, Verifies, HandlesClose, Handles, Finishes, Yields, ClaimsReopen, Elsewhere,
     submitted
<1>4. ASSUME \/ FinishesShutdown \/ Defers \/ UnlinksDeferred \/ Forgets \/ Rejects
             \/ ClearsInbox \/ Completes \/ UnlinksClaimed \/ OpensDeferred \/ Leaves
             \/ Starts \/ Reconciles \/ Dies \/ WorkEnds \/ UNCHANGED vars
      PROVE  pc' = pc
  BY <1>4 DEF FinishesShutdown, Defers, UnlinksDeferred, Forgets, Rejects, ClearsInbox,
     Completes, UnlinksClaimed, OpensDeferred, Leaves, Starts, Reconciles, Dies, WorkEnds,
     Elsewhere, vars, submitted
<1>5. pc' = pc \/ \E c \in Commands : /\ pc[c] # "sent"
                                        /\ \E place : pc' = [pc EXCEPT ![c] = place]
  BY <1>1, <1>2, <1>3, <1>4 DEF Next, DaemonStep
<1> QED
  BY <1>5 DEF IInv, TypeOK, Sent

(* What the state file names, and what a client joined, was queued.        *)
JoinedQueued ==
  /\ active # "none" => active \in Sent
  /\ \A c \in Commands : pc[c] = "joined" => ref[c] \in Sent

LEMMA JoinedStep == IInv /\ JoinedQueued /\ [Next]_vars => JoinedQueued'
<1> SUFFICES ASSUME IInv, JoinedQueued, [Next]_vars PROVE JoinedQueued'
  OBVIOUS
<1>1. /\ pc \in [Commands -> {"new", "promise", "refuse", "stock", "supersede", "overrule",
                              "drop", "join", "enqueue", "sent", "joined", "told"}]
      /\ ref \in [Commands -> Commands \union {"none"}]
      /\ inbox \union processing \subseteq Sent
      /\ dpc \in Working => cur \in processing
  BY DEF IInv, TypeOK, Order, QueuedFirst, DaemonHolds
<1>2. ASSUME NEW d \in Sent PROVE d \in Sent'
  BY SentKept
<1>3. active' \in {active, "none"} \/ Begins
  BY DEF Next, Asks, SubmissionStep, Promises, Refuses, TakesStock, ReadsVictim,
     WritesSuperseded, DropsVictim, Interrupts, Joins, Enqueues, CancelTakes, CancelEnds,
     CancelInterrupts, ComesDue, Starts, DaemonStep, SavesRunning, Recovers, Tidies, Claims,
     HandsOff, FindsNoHandler, HandlesOpen, FindsOpen, Blocks, Republishes, Settles, Reopens, Verifies, HandlesClose, Handles, Finishes,
     Yields, ClaimsReopen, FinishesShutdown, Defers, UnlinksDeferred, Forgets, Rejects,
     ClearsInbox, Completes, UnlinksClaimed, OpensDeferred, Leaves, Reconciles, Dies, WorkEnds,
     vars, state
<1>4. active' # "none" => active' \in Sent'
  <2>1. CASE active' \in {active, "none"}
    BY <1>2, <2>1 DEF JoinedQueued
  <2>2. CASE Begins
    BY <1>1, <1>2, <2>2 DEF Begins, Working
  <2> QED
    BY <1>3, <2>1, <2>2
<1>5. ASSUME NEW c \in Commands, pc'[c] = "joined" PROVE ref'[c] \in Sent'
  <2>1. CASE pc[c] = "joined" /\ ref'[c] = ref[c]
    BY <1>2, <2>1 DEF JoinedQueued
  <2>2. CASE Joins(c)
    <3>1. ref'[c] \in Joinable(c)
      BY <1>1, <1>5, <2>2 DEF Joins
    <3>2. Joinable(c) \subseteq Sent
      BY <1>1 DEF Joinable, JoinedQueued
    <3> QED
      BY <1>2, <3>1, <3>2
  <2>3. (pc[c] = "joined" /\ ref'[c] = ref[c]) \/ Joins(c)
    <3>1. ASSUME NEW d \in Commands, Asks(d) \/ SubmissionStep(d)
          PROVE  (pc[c] = "joined" /\ ref'[c] = ref[c]) \/ Joins(c)
      <4>1. CASE d = c
        BY <1>1, <1>5, <3>1, <4>1 DEF Asks, SubmissionStep, Promises, Refuses, TakesStock,
           ReadsVictim, WritesSuperseded, DropsVictim, Interrupts, Enqueues
      <4>2. CASE d # c
        BY <1>1, <1>5, <3>1, <4>2 DEF Asks, SubmissionStep, Promises, Refuses, TakesStock,
           ReadsVictim, WritesSuperseded, DropsVictim, Interrupts, Joins, Enqueues
      <4> QED
        BY <4>1, <4>2
    <3>2. ASSUME UNCHANGED <<pc, ref>>
          PROVE  (pc[c] = "joined" /\ ref'[c] = ref[c]) \/ Joins(c)
      BY <1>5, <3>2
    <3>3. \/ \E d \in Commands : Asks(d) \/ SubmissionStep(d)
          \/ UNCHANGED <<pc, ref>>
      BY DEF Next, CancelTakes, CancelEnds, CancelInterrupts, ComesDue, Starts, DaemonStep,
         SavesRunning, Recovers, Tidies, Claims, Begins, HandsOff, FindsNoHandler, HandlesOpen, FindsOpen, Blocks, Republishes, Settles,
         Reopens, Verifies, HandlesClose, Handles, ClaimsReopen, FinishesShutdown, Defers,
         UnlinksDeferred, Forgets, Rejects, ClearsInbox, Completes, UnlinksClaimed,
         OpensDeferred, Leaves, Reconciles, Dies, WorkEnds, vars, Elsewhere, submitted
    <3> QED
      BY <3>1, <3>2, <3>3
  <2> QED
    BY <2>1, <2>2, <2>3
<1> QED
  BY <1>4, <1>5 DEF JoinedQueued

(* A command that somebody waits for, its requester or one who joined it,  *)
(* has a file or a result, wherever the daemon dies and whatever requests, *)
(* cancels and recoveries do at the same time.                             *)
THEOREM NothingIsLost == Spec => []NothingLost
<1>1. Init => JoinedQueued
  BY DEF Init, JoinedQueued
<1>2. IInv /\ JoinedQueued => NothingLost
  BY DEF IInv, Order, QueuedKept, JoinedQueued, NothingLost, Awaited, Sent
<1> QED
  BY <1>1, <1>2, JoinedStep, Invariance, PTL DEF Spec

(* The daemon claims no command that has its final answer, be it pending,  *)
(* recovered, deferred or put back by a cancel, unless it had two files    *)
(* when the daemon died or was answered while a cancel held its file.      *)
THEOREM AnswersAreFinal == Spec => AnsweredIsNotRedone
<1>1. IInv /\ [Next]_vars =>
        [\A c \in Commands :
           Claims(c) => result[c] \in {"none", "superseded"} \/ c \in strays]_vars
  BY DEF IInv, Order, PendingUnanswered, Claims
<1> QED
  BY <1>1, Invariance, PTL DEF Spec, AnsweredIsNotRedone

(* Once a close has its place in the queue, the daemon claims no opening   *)
(* that was queued before the close was asked for.                         *)
THEOREM ClosesComeLast == Spec => QueuedCloseComesLast
<1>1. IInv /\ [Next]_vars =>
        [\A c, d \in Commands :
           Claims(c) /\ c \notin again /\ kind[c] \in Opening /\ kind[d] \in Closing
             /\ c \in older[d] => pc[d] \notin {"sent", "joined"}]_vars
  BY DEF IInv, Order, ClosesSupersede, Claims
<1> QED
  BY <1>1, Invariance, PTL DEF Spec, QueuedCloseComesLast

-----------------------------------------------------------------------------
(* How often a command is carried out.                                     *)

(* How often the daemon has acted for a command, how often it has died     *)
(* with the command in hand; the commands that it handed to Electron, and  *)
(* those for which it found the workbench open                             *)
VARIABLES acts, deaths, handed, found

(* The handlers that open, close or restart the workbench for a command    *)
ActsFor(c) ==
  /\ cur = c
  /\ Republishes \/ HandlesClose \/ (HandlesOpen /\ dpc' = "verifying")

DiesOver(c) == Dies /\ cur = c

Counts ==
  /\ acts' = [c \in Commands |-> IF ActsFor(c) THEN acts[c] + 1 ELSE acts[c]]
  /\ deaths' = [c \in Commands |-> IF DiesOver(c) THEN deaths[c] + 1 ELSE deaths[c]]
  /\ handed' = IF HandsOff THEN handed \union {cur} ELSE handed
  /\ found' = IF FindsOpen THEN found \union {cur} ELSE found

CountsFromZero ==
  /\ acts = [c \in Commands |-> 0] /\ deaths = [c \in Commands |-> 0]
  /\ handed = {} /\ found = {}

CountedSpec == Spec /\ CountsFromZero /\ [][Counts]_<<vars, acts, deaths, handed, found>>

(* A command is carried out once, and once more for each time the daemon   *)
(* dies with it in hand.                                                   *)
CarriedOutOnce == \A c \in Commands : acts[c] <= 1 + deaths[c]

(* The daemon has acted for the command that it holds.                     *)
Acted(c) ==
  /\ cur = c
  /\ dpc \in {"reopening", "settling", "verifying", "closed", "stopping", "rejecting",
              "clearing", "completing", "completed"}

One(b) == IF b THEN 1 ELSE 0

(* The files of a command that may still have it carried out.              *)
Chances(c) ==
  One(c \in inbox) + One(c \in aside) + One(c \in processing /\ ~Acted(c))

(* A deferred command has two files until the claimed one is unlinked; if  *)
(* the daemon dies before, its death pays for the second.                  *)
Deferring(c) == cur = c /\ dpc = "deferred"

Chanced(c) == acts[c] + Chances(c) <= 1 + deaths[c] + One(Deferring(c))

ChancesCounted ==
  /\ acts \in [Commands -> Nat] /\ deaths \in [Commands -> Nat]
  /\ dpc = "deferred" => cur \in processing
  /\ \A c \in Commands : Chanced(c) /\ (c \notin Sent => acts[c] = 0)

(* A step that gives a command no new file and no new place leaves it no   *)
(* more chances than it had.                                               *)
LEMMA ChancesFall ==
  ASSUME ChancesCounted, Counts, NEW c \in Commands,
         ~ActsFor(c), ~DiesOver(c),
         c \in inbox' => c \in inbox,
         c \in aside' => c \in aside,
         c \in processing' /\ ~Acted(c)' => c \in processing /\ ~Acted(c),
         Deferring(c) => Deferring(c)'
  PROVE  Chanced(c)'
<1>1. acts'[c] = acts[c] /\ deaths'[c] = deaths[c]
  BY DEF Counts
<1>2. /\ One(c \in inbox') <= One(c \in inbox) /\ One(c \in aside') <= One(c \in aside)
      /\ One(c \in processing' /\ ~Acted(c)') <= One(c \in processing /\ ~Acted(c))
      /\ One(Deferring(c)) <= One(Deferring(c)')
  BY DEF One
<1>3. /\ One(c \in inbox) \in Nat /\ One(c \in inbox') \in Nat
      /\ One(c \in aside) \in Nat /\ One(c \in aside') \in Nat
      /\ One(c \in processing /\ ~Acted(c)) \in Nat
      /\ One(c \in processing' /\ ~Acted(c)') \in Nat
      /\ One(Deferring(c)) \in Nat /\ One(Deferring(c)') \in Nat
  BY DEF One
<1>4. acts[c] \in Nat /\ deaths[c] \in Nat /\ Chanced(c)
  BY DEF ChancesCounted
<1> HIDE DEF One, Acted, Deferring
<1> QED
  BY <1>1, <1>2, <1>3, <1>4 DEF Chanced, Chances

(* Acting for a command uses up its claimed file.                          *)
LEMMA ActingSpends ==
  ASSUME IInv, ChancesCounted, Counts, NEW c \in Commands, ActsFor(c)
  PROVE  Chanced(c)'
<1>1. /\ cur = c /\ cur' = c /\ dpc = "handling"
      /\ dpc' \in {"completing", "reopening", "verifying", "closed"}
      /\ inbox' = inbox /\ aside' = aside /\ processing' = processing
  BY DEF ActsFor, Republishes, HandlesClose, HandlesOpen, Handles, Finishes, files
<1>2. c \in processing
  BY <1>1 DEF IInv, Order, DaemonHolds, Working
<1>3. Acted(c)' /\ ~Acted(c) /\ ~Deferring(c) /\ ~Deferring(c)' /\ ~DiesOver(c)
  BY <1>1 DEF Acted, Deferring, DiesOver, Dies
<1>4. acts'[c] = acts[c] + 1 /\ deaths'[c] = deaths[c]
  BY <1>3 DEF Counts
<1>5. acts[c] \in Nat /\ deaths[c] \in Nat /\ Chanced(c)
  BY DEF ChancesCounted
<1> QED
  BY <1>1, <1>2, <1>3, <1>4, <1>5 DEF Chanced, Chances, One

(* A death gives the command in hand one more chance at most.              *)
LEMMA DeathGives ==
  ASSUME ChancesCounted, Counts, NEW c \in Commands, DiesOver(c), c # "none"
  PROVE  Chanced(c)'
<1>1. /\ cur = c /\ cur' = "none" /\ dpc' = "down"
      /\ inbox' = inbox /\ aside' = aside /\ processing' = processing
  BY DEF DiesOver, Dies, files
<1>2. ~Acted(c)' /\ ~Deferring(c)' /\ ~ActsFor(c) /\ ~(Acted(c) /\ Deferring(c))
  BY <1>1 DEF Acted, Deferring, ActsFor, Republishes, HandlesClose, HandlesOpen, Finishes
<1>3. acts'[c] = acts[c] /\ deaths'[c] = deaths[c] + 1
  BY <1>2 DEF Counts
<1>4. acts[c] \in Nat /\ deaths[c] \in Nat /\ Chanced(c)
  BY DEF ChancesCounted
<1> QED
  BY <1>1, <1>2, <1>3, <1>4 DEF Chanced, Chances, One

(* Any other step moves the files of a command, adds the one that it is    *)
(* queued with or the copy that defers it.                                 *)
LEMMA ChancesStep ==
  ASSUME IInv, ChancesCounted, Next, Counts, NEW c \in Commands
  PROVE  Chanced(c)'
<1>1. c # "none"
  BY QueueAssumption
<1>2. acts[c] \in Nat /\ deaths[c] \in Nat /\ Chanced(c)
  BY DEF ChancesCounted
<1>3. SUFFICES ASSUME ~ActsFor(c), ~DiesOver(c) PROVE Chanced(c)'
  BY <1>1, ActingSpends, DeathGives
<1>4. acts'[c] = acts[c] /\ deaths'[c] = deaths[c]
  BY <1>3 DEF Counts
<1>5. ASSUME NEW d \in Commands,
             Asks(d) \/ Promises(d) \/ Refuses(d) \/ TakesStock(d) \/ ReadsVictim(d)
               \/ WritesSuperseded(d) \/ DropsVictim(d) \/ Interrupts(d) \/ Joins(d)
               \/ CancelInterrupts(d) \/ ComesDue(d)
      PROVE  Chanced(c)'
  <2>1. /\ inbox' \subseteq inbox /\ aside' = aside /\ processing' = processing
        /\ dpc' = dpc /\ cur' = cur
    BY <1>5 DEF Asks, Promises, Refuses, TakesStock, ReadsVictim, WritesSuperseded,
       DropsVictim, Interrupts, Joins, CancelInterrupts, ComesDue, files, daemon
  <2> QED
    BY <1>3, <2>1, ChancesFall DEF Acted, Deferring
<1>6. ASSUME NEW d \in Commands, Enqueues(d)
      PROVE  Chanced(c)'
  <2>1. /\ inbox' = inbox \union {d} /\ aside' = aside /\ processing' = processing
        /\ dpc' = dpc /\ cur' = cur /\ pc[d] = "enqueue"
    BY <1>6 DEF Enqueues, daemon
  <2>2. CASE d = c
    <3>1. c \notin Sent /\ c \notin inbox /\ c \notin aside /\ c \notin processing
      BY <2>1, <2>2 DEF Sent, IInv, Order, QueuedFirst
    <3>2. acts[c] = 0
      BY <3>1 DEF ChancesCounted
    <3> QED
      BY <1>2, <1>4, <2>1, <2>2, <3>1, <3>2 DEF Chanced, Chances, One, Acted, Deferring
  <2>3. CASE d # c
    BY <1>3, <2>1, <2>3, ChancesFall DEF Acted, Deferring
  <2> QED
    BY <2>2, <2>3
<1>7. ASSUME NEW d \in Commands, CancelTakes(d) \/ CancelEnds(d)
      PROVE  Chanced(c)'
  <2>1. /\ processing' = processing /\ dpc' = dpc /\ cur' = cur
        /\ \/ d \in inbox /\ inbox' = inbox \ {d} /\ aside' = aside \union {d}
           \/ d \in aside /\ inbox' \subseteq inbox \union {d} /\ aside' = aside \ {d}
    BY <1>7 DEF CancelTakes, CancelEnds, daemon, IInv, Order, QueuedFirst
  <2>2. CASE d = c
    BY <1>2, <1>4, <2>1, <2>2 DEF Chanced, Chances, One, Acted, Deferring
  <2>3. CASE d # c
    BY <1>3, <2>1, <2>3, ChancesFall DEF Acted, Deferring
  <2> QED
    BY <2>2, <2>3
<1>8. ASSUME NEW d \in Commands, Claims(d)
      PROVE  Chanced(c)'
  <2>1. /\ d \in inbox /\ inbox' = inbox \ {d} /\ processing' = processing \union {d}
        /\ aside' = aside /\ dpc = "idle" /\ dpc' = "claimed" /\ cur' = d
    BY <1>8 DEF Claims
  <2>2. CASE d = c
    BY <1>2, <1>4, <2>1, <2>2 DEF Chanced, Chances, One, Acted, Deferring
  <2>3. CASE d # c
    BY <1>3, <2>1, <2>3, ChancesFall DEF Acted, Deferring
  <2> QED
    BY <2>2, <2>3
<1>9. CASE Recovers
  <2>1. /\ inbox' \subseteq inbox \union processing /\ processing' = {} /\ aside' = aside
        /\ dpc = "recovering" /\ dpc' = "tidying" /\ cur' = cur
    BY <1>9 DEF Recovers
  <2> QED
    BY <1>2, <1>4, <2>1 DEF Chanced, Chances, One, Acted, Deferring
<1>10. CASE Defers
  <2>1. /\ inbox' = inbox \union {cur} /\ processing' = processing /\ aside' = aside
        /\ dpc = "deferring" /\ dpc' = "deferred" /\ cur' = cur
    BY <1>10 DEF Defers
  <2>2. CASE cur = c
    BY <1>2, <1>4, <2>1, <2>2 DEF Chanced, Chances, One, Acted, Deferring
  <2>3. CASE cur # c
    BY <1>3, <2>1, <2>3, ChancesFall DEF Acted, Deferring
  <2> QED
    BY <2>2, <2>3
<1>11. CASE UnlinksDeferred
  <2>1. /\ inbox' = inbox /\ processing' = processing \ {cur} /\ aside' = aside
        /\ dpc = "deferred" /\ dpc' = "forgetting" /\ cur' = cur /\ cur \in processing
    BY <1>11 DEF UnlinksDeferred, ChancesCounted
  <2>2. CASE cur = c
    BY <1>2, <1>4, <2>1, <2>2 DEF Chanced, Chances, One, Acted, Deferring
  <2>3. CASE cur # c
    BY <1>3, <2>1, <2>3, ChancesFall DEF Acted, Deferring
  <2> QED
    BY <2>2, <2>3
<1>12. CASE Starts \/ SavesRunning \/ Tidies \/ Reconciles \/ Begins \/ WorkEnds
  <2>1. /\ inbox' \subseteq inbox /\ aside' = aside /\ processing' = processing /\ cur' = cur
        /\ \/ dpc' = dpc
           \/ dpc' \in {"starting", "recovering", "idle", "handling"}
              /\ dpc \in {"down", "starting", "tidying", "claimed"}
    BY <1>12 DEF Starts, SavesRunning, Tidies, Reconciles, Begins, WorkEnds, files, daemon
  <2> QED
    BY <1>3, <2>1, ChancesFall DEF Acted, Deferring
<1>13. CASE \/ HandsOff \/ FindsNoHandler \/ HandlesOpen \/ FindsOpen \/ Blocks \/ Republishes
            \/ Reopens \/ Settles \/ Verifies \/ HandlesClose \/ ClaimsReopen
            \/ FinishesShutdown \/ Rejects \/ ClearsInbox \/ Completes
  <2>1. /\ inbox' \subseteq inbox /\ aside' = aside /\ processing' = processing /\ cur' = cur
        /\ dpc # "deferred"
        /\ \/ dpc' \in {"reopening", "settling", "verifying", "closed", "stopping",
                        "rejecting", "clearing", "completing", "completed"}
           \/ dpc = "handling"
    BY <1>13 DEF HandsOff, FindsNoHandler, HandlesOpen, FindsOpen, Blocks, Republishes, Reopens,
       Settles, Verifies, HandlesClose, ClaimsReopen, FinishesShutdown, Rejects, ClearsInbox,
       Completes, Handles, Finishes, Yields, files
  <2> QED
    BY <1>3, <2>1, ChancesFall DEF Acted, Deferring
<1>14. CASE Forgets \/ UnlinksClaimed \/ OpensDeferred \/ Leaves \/ Dies
  <2>1. CASE UnlinksClaimed
    BY <1>3, <2>1, ChancesFall DEF UnlinksClaimed, Acted, Deferring
  <2>2. CASE Dies
    BY <1>1, <1>3, <2>2, ChancesFall DEF Dies, DiesOver, Acted, Deferring, files
  <2>3. CASE Forgets \/ OpensDeferred \/ Leaves
    <3>1. /\ dpc \in {"forgetting", "deferredOpen", "leaving"}
          /\ inbox' = inbox /\ aside' = aside /\ processing' = processing
      BY <2>3 DEF Forgets, OpensDeferred, Leaves, files
    <3> QED
      BY <1>3, <3>1, ChancesFall DEF Acted, Deferring
  <2> QED
    BY <1>14, <2>1, <2>2, <2>3
<1> QED
  BY <1>5, <1>6, <1>7, <1>8, <1>9, <1>10, <1>11, <1>12, <1>13, <1>14
     DEF Next, SubmissionStep, DaemonStep

(* Only the daemon unlinks a claimed file: a deferred one is there when it *)
(* comes to it.                                                            *)
LEMMA DeferredClaimed ==
  ASSUME IInv, ChancesCounted, [Next]_vars, dpc' = "deferred"
  PROVE  cur' \in processing'
<1>1. /\ dpc = "deferring" => cur \in processing
      /\ dpc = "deferred" => cur \in processing
  BY DEF IInv, Order, DaemonHolds, Working, ChancesCounted
<1>2. CASE Defers
  BY <1>1, <1>2 DEF Defers
<1>3. ASSUME NEW c \in Commands,
             Asks(c) \/ SubmissionStep(c) \/ CancelTakes(c) \/ CancelEnds(c)
               \/ CancelInterrupts(c) \/ ComesDue(c)
      PROVE  UNCHANGED <<dpc, cur, processing>>
  BY <1>3 DEF Asks, SubmissionStep, Promises, Refuses, TakesStock, ReadsVictim,
     WritesSuperseded, DropsVictim, Interrupts, Joins, Enqueues, CancelTakes, CancelEnds,
     CancelInterrupts, ComesDue, files, daemon
<1>4. CASE Reconciles \/ WorkEnds \/ UNCHANGED vars
  BY <1>1, <1>4 DEF Reconciles, WorkEnds, vars, files, daemon
<1>5. ~(DaemonStep /\ ~Defers) /\ ~Starts /\ ~Dies
  BY DEF DaemonStep, SavesRunning, Recovers, Tidies, Claims, Begins, HandsOff, FindsNoHandler, HandlesOpen, FindsOpen, Blocks,
     Republishes, Settles, Reopens, Verifies, HandlesClose, Handles, Finishes, Yields, ClaimsReopen,
     FinishesShutdown, UnlinksDeferred, Forgets, Rejects, ClearsInbox, Completes,
     UnlinksClaimed, OpensDeferred, Leaves, Starts, Dies
<1> QED
  BY <1>1, <1>2, <1>3, <1>4, <1>5 DEF Next

LEMMA ChancesInductive ==
  ASSUME IInv, IInv', ChancesCounted, [Next]_vars, [Counts]_<<vars, acts, deaths, handed, found>>
  PROVE  ChancesCounted'
<1>1. CASE UNCHANGED <<vars, acts, deaths, handed, found>>
  BY <1>1 DEF vars, files, daemon, submitted, ChancesCounted, Chanced, Chances, Acted,
     Deferring, Sent
<1>2. CASE Counts /\ Next
  <2>1. acts' \in [Commands -> Nat] /\ deaths' \in [Commands -> Nat]
    BY <1>2 DEF Counts, ChancesCounted
  <2>2. ASSUME NEW c \in Commands, c \notin Sent' PROVE acts'[c] = 0
    <3>1. c \notin Sent
      BY <1>2, <2>2, SentKept
    <3>2. ~ActsFor(c)
      BY <3>1 DEF ActsFor, Republishes, HandlesClose, HandlesOpen, IInv, Order,
         DaemonHolds, Working, QueuedFirst
    <3> QED
      BY <1>2, <3>1, <3>2 DEF Counts, ChancesCounted
  <2> QED
    BY <1>2, <2>1, <2>2, ChancesStep, DeferredClaimed DEF ChancesCounted
<1>3. CASE Counts /\ UNCHANGED vars
  <2>1. ASSUME NEW c \in Commands PROVE ~ActsFor(c) /\ ~DiesOver(c)
    BY <1>3 DEF ActsFor, Republishes, HandlesClose, HandlesOpen, Finishes, DiesOver, Dies,
       vars, daemon
  <2>2. acts' = acts /\ deaths' = deaths
    BY <1>3, <2>1 DEF Counts, ChancesCounted
  <2> QED
    BY <1>3, <2>2 DEF vars, files, daemon, submitted, ChancesCounted, Chanced, Chances, Acted,
       Deferring, Sent
<1> QED
  BY <1>1, <1>2, <1>3

(* The daemon acts for a command at most once, and at most once more for   *)
(* each of its deaths with the command in hand, whatever requests, cancels *)
(* and recoveries do with its files (command_queue.py:212, :280, :397).    *)
THEOREM CommandsActOnce == CountedSpec => []CarriedOutOnce
<1>1. Init /\ CountsFromZero => ChancesCounted
  BY DEF Init, CountsFromZero, ChancesCounted, Chanced, Chances, One, Acted, Deferring
<1>2. ChancesCounted => CarriedOutOnce
  <2> SUFFICES ASSUME ChancesCounted, NEW c \in Commands PROVE acts[c] <= 1 + deaths[c]
    BY DEF CarriedOutOnce
  <2>1. acts[c] \in Nat /\ deaths[c] \in Nat /\ Chanced(c)
    BY DEF ChancesCounted
  <2>2. Deferring(c) => c \in processing /\ ~Acted(c)
    BY DEF ChancesCounted, Deferring, Acted
  <2> QED
    BY <2>1, <2>2 DEF Chanced, Chances, One
<1> QED
  BY <1>1, <1>2, ChancesInductive, Invariance, PTL DEF Spec, CountedSpec

(* What entitles a client to hear that its request succeeded: for an open, *)
(* that the daemon acted for it, found the workbench open or handed the    *)
(* command to Electron; for a restart, that it was handed to Electron.     *)
Earned(c) ==
  /\ kind[c] = "open" => acts[c] >= 1 \/ c \in handed \union found
  /\ kind[c] = "restart" => c \in handed

(* A client that is told that its open or restart succeeded is told the    *)
(* truth.                                                                  *)
OkMeansDone == \A c \in Commands : result[c] = "ok" => Earned(c)

(* What the daemon is about to answer with "ok" is earned.                 *)
Truthful ==
  /\ OkMeansDone
  /\ dpc \in {"reopening", "settling", "verifying", "closed", "stopping"} => Earned(cur)
  /\ dpc \in {"rejecting", "clearing", "completing"} /\ outcome = "ok" => Earned(cur)

(* Nobody but the daemon changes its place, its command or its outcome, or *)
(* answers an open or a restart with "ok".                                 *)
LEMMA OthersAnswer ==
  ASSUME IInv, NEW c \in Commands,
         Asks(c) \/ SubmissionStep(c) \/ CancelTakes(c) \/ CancelEnds(c)
           \/ CancelInterrupts(c) \/ ComesDue(c)
  PROVE  /\ UNCHANGED <<daemon, kind>>
         /\ \A d \in Commands : kind[d] \in Opening /\ result'[d] = "ok" => result[d] = "ok"
<1>1. result \in [Commands -> Results] /\ kind \in [Commands -> Kinds]
  BY DEF IInv, TypeOK
<1>2. Asks(c) \/ TakesStock(c) \/ ReadsVictim(c) \/ DropsVictim(c) \/ Interrupts(c) \/ Joins(c)
        \/ Enqueues(c) \/ CancelTakes(c) \/ CancelInterrupts(c) \/ ComesDue(c)
      => UNCHANGED <<daemon, kind, result>>
  BY DEF Asks, TakesStock, ReadsVictim, DropsVictim, Interrupts, Joins, Enqueues,
     CancelTakes, CancelInterrupts, ComesDue, submitted, Elsewhere
<1>3. Promises(c) \/ Refuses(c) \/ WritesSuperseded(c) \/ CancelEnds(c)
      => /\ UNCHANGED <<daemon, kind>>
         /\ \A d \in Commands :
              result'[d] \in {result[d], "reopens", Rejection(d), "superseded", "cancelled"}
  BY <1>1 DEF Promises, Refuses, WritesSuperseded, CancelEnds, submitted, Elsewhere
<1> QED
  BY <1>2, <1>3 DEF SubmissionStep, Rejection, Opening

(* What is earned stays earned.                                            *)
LEMMA EarnedKept ==
  ASSUME ChancesCounted, Counts, UNCHANGED kind, NEW c \in Commands, Earned(c)
  PROVE  Earned(c)'
<1>1. acts'[c] >= acts[c] /\ handed \subseteq handed' /\ found \subseteq found'
  BY DEF Counts, ChancesCounted
<1>2. acts[c] \in Nat /\ acts'[c] \in Nat
  BY DEF Counts, ChancesCounted
<1> QED
  BY <1>1, <1>2 DEF Earned

(* A handler that ends well has earned its answer.                         *)
LEMMA HandlersEarn ==
  ASSUME IInv, ChancesCounted, Counts,
         HandsOff \/ FindsOpen \/ Republishes \/ HandlesClose
           \/ (HandlesOpen /\ dpc' = "verifying")
  PROVE  Earned(cur)'
<1>1. /\ dpc \in {"claimed", "handling"} /\ cur \in Commands /\ kind \in [Commands -> Kinds]
      /\ UNCHANGED <<cur, kind>>
  BY DEF HandsOff, FindsOpen, Republishes, HandlesClose, HandlesOpen, Handles, Elsewhere,
     submitted, IInv, TypeOK, Order, DaemonHolds, Working
<1>2. CASE HandsOff
  BY <1>1, <1>2 DEF Counts, Earned
<1>3. CASE FindsOpen
  BY <1>1, <1>3 DEF Counts, Earned, FindsOpen
<1>4. CASE HandlesClose
  BY <1>1, <1>4 DEF HandlesClose, Closing, Earned
<1>5. CASE Republishes \/ (HandlesOpen /\ dpc' = "verifying")
  <2>1. kind[cur] = "open" /\ ActsFor(cur)
    BY <1>5 DEF Republishes, MayRepublish, HandlesOpen, ActsFor
  <2>2. acts'[cur] = acts[cur] + 1 /\ acts[cur] \in Nat
    BY <1>1, <2>1 DEF Counts, ChancesCounted
  <2> QED
    BY <1>1, <2>1, <2>2 DEF Earned
<1> QED
  BY <1>2, <1>3, <1>4, <1>5

(* The daemon answers an open or a restart with "ok" only as it completes  *)
(* it, with the outcome of a handler.                                      *)
LEMMA TruthfulStep ==
  ASSUME IInv, IInv', ChancesCounted, ChancesCounted', Truthful, Next, Counts
  PROVE  Truthful'
<1>1. /\ result \in [Commands -> Results] /\ kind \in [Commands -> Kinds]
      /\ dpc \in Working => cur \in Commands
  BY DEF IInv, TypeOK, Order, DaemonHolds
<1>2. ASSUME UNCHANGED kind,
             \A d \in Commands :
               kind[d] \in Opening /\ result'[d] = "ok" => result[d] = "ok" \/ Earned(d)
      PROVE  OkMeansDone'
  <2>1. ASSUME NEW d \in Commands, result'[d] = "ok" PROVE Earned(d)'
    <3>1. CASE kind[d] \in Opening
      BY <1>2, <2>1, <3>1, EarnedKept DEF Truthful, OkMeansDone
    <3>2. CASE kind[d] \notin Opening
      BY <1>2, <3>2 DEF Earned, Opening
    <3> QED
      BY <3>1, <3>2
  <2> QED
    BY <2>1 DEF OkMeansDone
<1>3. ASSUME UNCHANGED <<dpc, cur, outcome, kind>>, OkMeansDone'
      PROVE  Truthful'
  BY <1>1, <1>3, EarnedKept DEF Truthful, Working
<1>4. ASSUME NEW c \in Commands,
             Asks(c) \/ SubmissionStep(c) \/ CancelTakes(c) \/ CancelEnds(c)
               \/ CancelInterrupts(c) \/ ComesDue(c)
      PROVE  Truthful'
  <2>1. UNCHANGED <<dpc, cur, outcome, kind>>
    BY <1>4, OthersAnswer DEF daemon
  <2>2. OkMeansDone'
    BY <1>2, <1>4, <2>1, OthersAnswer
  <2> QED
    BY <1>3, <2>1, <2>2
<1>5. CASE Reconciles \/ WorkEnds
  <2>1. UNCHANGED <<dpc, cur, outcome, kind, result>>
    BY <1>5 DEF Reconciles, WorkEnds, daemon, Elsewhere, submitted
  <2>2. OkMeansDone'
    BY <1>2, <2>1
  <2> QED
    BY <1>3, <2>1, <2>2
<1>6. CASE \/ Starts \/ SavesRunning \/ Begins \/ Defers \/ UnlinksDeferred \/ Forgets
           \/ UnlinksClaimed \/ OpensDeferred \/ Leaves \/ Dies \/ Recovers \/ Tidies
           \/ \E c \in Commands : Claims(c)
  <2>1. dpc' \in {"starting", "recovering", "handling", "deferred", "forgetting", "idle",
                  "deferredOpen", "leaving", "down", "tidying", "claimed"}
    BY <1>6 DEF Starts, SavesRunning, Begins, Defers, UnlinksDeferred, Forgets, UnlinksClaimed,
       OpensDeferred, Leaves, Dies, Recovers, Tidies, Claims
  <2>2. kind' = kind
    BY <1>6 DEF Starts, SavesRunning, Begins, Defers, UnlinksDeferred, Forgets, UnlinksClaimed,
       OpensDeferred, Leaves, Dies, Recovers, Tidies, Claims, Elsewhere, submitted
  <2>3. CASE Recovers \/ Tidies
    <3>1. ASSUME NEW d \in Commands, kind[d] \in Opening, result'[d] = "ok"
          PROVE  result[d] = "ok"
      BY <2>3, <3>1 DEF Recovers, Tidies, Satisfied, Opening, Closing
    <3> QED
      BY <1>2, <2>1, <2>2, <3>1 DEF Truthful
  <2>4. CASE ~(Recovers \/ Tidies)
    <3>1. result' = result
      BY <1>6, <2>4 DEF Starts, SavesRunning, Begins, Defers, UnlinksDeferred, Forgets,
         UnlinksClaimed, OpensDeferred, Leaves, Dies, Claims
    <3> QED
      BY <1>2, <2>1, <2>2, <3>1 DEF Truthful
  <2> QED
    BY <2>3, <2>4
<1>7. CASE \/ HandsOff \/ FindsNoHandler \/ FindsOpen \/ Blocks \/ Republishes
           \/ HandlesOpen \/ HandlesClose
  <2>1. UNCHANGED <<cur, kind, result>>
    BY <1>7 DEF HandsOff, FindsNoHandler, FindsOpen, Blocks, Republishes, HandlesOpen,
       HandlesClose, Handles, Elsewhere, submitted
  <2>2. OkMeansDone'
    BY <1>2, <2>1
  <2>3. CASE HandsOff \/ FindsOpen \/ Republishes \/ HandlesClose
               \/ (HandlesOpen /\ dpc' = "verifying")
    BY <2>2, <2>3, HandlersEarn DEF Truthful
  <2>4. CASE FindsNoHandler \/ Blocks \/ (HandlesOpen /\ dpc' # "verifying")
    <3>1. \/ dpc' = "completing" /\ outcome' # "ok"
          \/ dpc' = "deferring"
      BY <2>4 DEF FindsNoHandler, Blocks, HandlesOpen, Yields, Finishes
    <3> QED
      BY <2>2, <3>1 DEF Truthful
  <2> QED
    BY <1>7, <2>3, <2>4
<1>8. CASE \/ Reopens \/ Settles \/ Verifies \/ ClaimsReopen \/ FinishesShutdown
           \/ ClearsInbox
  <2>1. UNCHANGED <<cur, kind, result>> /\ cur \in Commands
    BY <1>1, <1>8 DEF Reopens, Settles, Verifies, ClaimsReopen, FinishesShutdown, ClearsInbox,
       Handles, Working, Elsewhere, submitted
  <2>2. OkMeansDone'
    BY <1>2, <2>1
  <2>3. CASE ClearsInbox
    BY <2>1, <2>2, <2>3, EarnedKept DEF ClearsInbox, Truthful
  <2>4. CASE Reopens \/ Settles \/ Verifies \/ ClaimsReopen \/ FinishesShutdown
    <3>1. Earned(cur)
      BY <2>4 DEF Truthful, Reopens, Settles, Verifies, ClaimsReopen, FinishesShutdown
    <3> QED
      BY <2>1, <2>2, <3>1, EarnedKept DEF Truthful
  <2> QED
    BY <1>8, <2>3, <2>4
<1>9. CASE Rejects
  <2>1. /\ kind' = kind /\ cur' = cur /\ outcome' = outcome /\ cur \in Commands
        /\ dpc = "rejecting" /\ dpc' = "clearing"
    BY <1>1, <1>9 DEF Rejects, Elsewhere, submitted, Working
  <2>2. OkMeansDone'
    BY <1>2, <1>9, <2>1 DEF Rejects, Rejection, Opening
  <2> QED
    BY <2>1, <2>2, EarnedKept DEF Truthful
<1>10. CASE Completes
  <2>1. /\ kind' = kind /\ result' = [result EXCEPT ![cur] = outcome] /\ cur \in Commands
        /\ dpc = "completing" /\ dpc' = "completed"
    BY <1>1, <1>10 DEF Completes, Elsewhere, submitted, Working
  <2>2. ASSUME NEW d \in Commands, kind[d] \in Opening, result'[d] = "ok"
        PROVE  result[d] = "ok" \/ Earned(d)
    BY <1>1, <2>1, <2>2 DEF Truthful
  <2> QED
    BY <1>2, <2>1, <2>2 DEF Truthful
<1> QED
  BY <1>4, <1>5, <1>6, <1>7, <1>8, <1>9, <1>10 DEF Next, DaemonStep

(* Whoever hears that an open is done can rely on it: the daemon has acted *)
(* for that command, found the workbench open or handed the command to     *)
(* Electron, though recoveries, cancels, requests and shutdowns write      *)
(* results of other commands meanwhile.  A restart is done by Electron or  *)
(* not at all (command_queue.py:823, daemon.py:2704, :2811, :3602).        *)
THEOREM OkIsTruthful == CountedSpec => []OkMeansDone
<1>1. Init /\ CountsFromZero => ChancesCounted /\ Truthful
  BY DEF Init, CountsFromZero, ChancesCounted, Chanced, Chances, One, Acted, Deferring,
     Truthful, OkMeansDone
<1>2. ASSUME IInv, IInv', ChancesCounted, Truthful, [Next]_vars,
             [Counts]_<<vars, acts, deaths, handed, found>>
      PROVE  ChancesCounted' /\ Truthful'
  <2>1. ChancesCounted'
    BY <1>2, ChancesInductive
  <2>2. CASE Next /\ Counts
    BY <1>2, <2>1, <2>2, TruthfulStep
  <2>3. CASE UNCHANGED vars /\ Counts
    <3>1. UNCHANGED <<dpc, cur, outcome, kind, result>>
      BY <2>3 DEF vars, daemon, submitted
    <3>2. ASSUME NEW c \in Commands, Earned(c) PROVE Earned(c)'
      BY <1>2, <2>3, <3>1, <3>2, EarnedKept
    <3>3. dpc \in Working => cur \in Commands
      BY <1>2 DEF IInv, TypeOK, Order, DaemonHolds
    <3> QED
      BY <1>2, <2>1, <3>1, <3>2, <3>3 DEF Truthful, OkMeansDone, Working
  <2>4. CASE UNCHANGED <<vars, acts, deaths, handed, found>>
    BY <1>2, <2>1, <2>4 DEF Truthful, OkMeansDone, Earned, vars, daemon, submitted
  <2> QED
    BY <1>2, <2>2, <2>3, <2>4
<1>3. Truthful => OkMeansDone
  BY DEF Truthful
<1> QED
  BY <1>1, <1>2, <1>3, Invariance, PTL DEF Spec, CountedSpec
=============================================================================
