---------------------------- MODULE LedgerWriter ----------------------------
(***************************************************************************)
(* The single writer of the workflow ledger                                *)
(* (core/research/workflow/ledger/writer.py): submitters put mutations in  *)
(* a bounded queue, one thread gathers them into groups and commits each   *)
(* group in one SQLite transaction, and close() drains or abandons it.     *)
(*                                                                         *)
(* Envelopes are numbered in the order the queue accepts them, so the      *)
(* queue is the interval head+1 .. tail and every list the code keeps of   *)
(* envelopes is a set of numbers, read in increasing order.                *)
(***************************************************************************)
EXTENDS Integers, FiniteSets

CONSTANTS
  MaxMutations,      (* bound: envelopes ever accepted                      *)
  QueueSize,         (* capacity of the queue                               *)
  MaxEscapes         (* bound: exceptions _commit_group does not handle     *)

ASSUME WriterAssumption ==
  /\ MaxMutations \in Nat
  /\ QueueSize \in Nat \ {0}
  /\ MaxEscapes \in Nat

VARIABLES
  starter,       (* start(): "waiting" | "started" | "raised"              *)
  putting,       (* the submit() holding the accept lock, if any           *)
  accepting,     (* _accepting, the negation of _closed                    *)
  tail, head,    (* envelopes put into, and taken from, the queue          *)
  wakeup,        (* the _WAKEUP marker is in the queue, behind all others  *)
  forced,        (* envelopes submitted with force_flush                   *)
  answer,        (* state of each envelope's future                        *)
  outstanding,   (* _outstanding                                           *)
  drain,         (* _drain_requested                                       *)
  abandoned,     (* _abandoned                                             *)
  current,       (* _current_group                                         *)
  committing,    (* _commit_in_progress                                    *)
  wpc,           (* where the writer thread is                             *)
  hand,          (* envelope taken from the queue, not yet in current      *)
  batch,         (* the part of _process_batch's batch not yet grouped     *)
  group,         (* the group _commit_group works on                       *)
  ready,         (* rest of the list the writer thread is looping over     *)
  staged,        (* mutations released into the open transaction           *)
  durable,       (* mutations in the database                              *)
  notified,      (* mutations whose after-commit callbacks have run        *)
  escapes,       (* exceptions _commit_group has not handled, so far       *)
  dropped,       (* history: what _current_group named when one escaped    *)
  closer,        (* where close() is                                       *)
  leftovers      (* close()'s list of envelopes to settle                  *)

clientVars == <<starter, putting, accepting, tail, forced>>
queueVars  == <<head, wakeup>>
futureVars == <<answer, outstanding>>
guardVars  == <<abandoned, current, committing>>
listVars   == <<batch, group, ready, staged>>
dbVars     == <<durable, notified, escapes, dropped>>
txnVars    == <<listVars, dbVars>>
threadVars == <<wpc, hand, txnVars>>
closeVars  == <<drain, closer, leftovers>>
othersVars == <<clientVars, closeVars>>
sharedVars == <<queueVars, futureVars, guardVars>>
vars == <<othersVars, sharedVars, threadVars>>

Id == 1..MaxMutations

First(S) == {e \in S : \A x \in S : e <= x}   (* {} or the least, as a set *)

Pending(S) == {e \in S : answer[e] = "none"}

(* Fault: the writer looks only for the marker when it decides to stop.    *)
QueueWithoutMarker == ~wakeup

QueueEmpty == head = tail /\ ~wakeup

(* The writer thread holds _commit_guard while it settles a committed      *)
(* group, close() while it settles what it abandons.                       *)
GuardFree == wpc # "settle" /\ closer \notin {"take", "settle"}

(* Fault: settling twice is not noticed.                                   *)
SettleAgain(e, a) ==
  /\ answer' = [answer EXCEPT ![e] = IF @ = "none" THEN a ELSE @]
  /\ outstanding' = IF outstanding > 0 THEN outstanding - 1 ELSE 0

(* _settle: under the condition's lock, exactly once.                      *)
Settle(e, a) ==
  IF answer[e] = "none"
    THEN /\ answer' = [answer EXCEPT ![e] = a]
         /\ outstanding' = IF outstanding > 0 THEN outstanding - 1 ELSE 0
    ELSE UNCHANGED futureVars

Init ==
  /\ starter = "waiting" /\ putting = "nobody" /\ accepting = TRUE
  /\ tail = 0 /\ head = 0 /\ wakeup = FALSE /\ forced = {}
  /\ answer = [e \in Id |-> "none"] /\ outstanding = 0
  /\ drain = FALSE /\ abandoned = FALSE
  /\ current = {} /\ committing = FALSE
  /\ wpc = "open" /\ hand = {}
  /\ batch = {} /\ group = {} /\ ready = {} /\ staged = {}
  /\ durable = {} /\ notified = {} /\ escapes = 0 /\ dropped = {}
  /\ closer = "idle" /\ leftovers = {}

-----------------------------------------------------------------------------
(* start() and submit(), in the callers' threads                           *)

(* The gate opens once the connection is open, or once opening it failed:  *)
(* before start() returns, the thread ends in no other way.                *)
StartReturns ==
  /\ starter = "waiting" /\ wpc # "open"
  /\ starter' = IF wpc = "exited" THEN "raised" ELSE "started"
  /\ UNCHANGED <<putting, accepting, tail, forced, sharedVars, threadVars,
                 closeVars>>

StartTimesOut ==
  /\ starter = "waiting" /\ wpc = "open"
  /\ abandoned' = TRUE
  /\ starter' = "raised"
  /\ UNCHANGED <<putting, accepting, tail, forced, queueVars, futureVars, current,
                 committing, threadVars, closeVars>>

(* submit() takes the accept lock, checks _accepting and counts itself.    *)
SubmitBegins(kind) ==
  /\ starter = "started" /\ putting = "nobody" /\ accepting
  /\ tail < MaxMutations
  /\ putting' = kind
  /\ outstanding' = outstanding + 1
  /\ UNCHANGED <<starter, accepting, tail, forced, queueVars, answer, guardVars,
                 threadVars, closeVars>>

SubmitPuts ==
  /\ putting # "nobody"
  /\ tail - head < QueueSize
  /\ tail' = tail + 1
  /\ forced' = IF putting = "flush" THEN forced \cup {tail + 1} ELSE forced
  /\ putting' = "nobody"
  /\ UNCHANGED <<starter, accepting, sharedVars, threadVars, closeVars>>

(* The queue stays full for the whole enqueue timeout.                     *)
SubmitRejected ==
  /\ putting # "nobody"
  /\ tail - head >= QueueSize
  /\ putting' = "nobody"
  /\ outstanding' = IF outstanding > 0 THEN outstanding - 1 ELSE 0
  /\ UNCHANGED <<starter, accepting, tail, forced, queueVars, answer, guardVars,
                 threadVars, closeVars>>

(* _flush_until: the submitter of a forced mutation stops waiting for it.  *)
FlushTimesOut(e) ==
  /\ e \in Pending(forced)
  /\ Settle(e, "unknown")
  /\ UNCHANGED <<othersVars, queueVars, guardVars, threadVars>>

-----------------------------------------------------------------------------
(* close()                                                                 *)

(* Under the accept lock; the queue may be too full for the marker.        *)
CloseBegins ==
  /\ starter # "waiting" /\ closer = "idle" /\ putting = "nobody"
  /\ accepting' = FALSE
  /\ closer' = "drain"
  /\ UNCHANGED <<starter, putting, tail, forced, sharedVars, threadVars, drain,
                 leftovers>>

CloseRequestsDrain ==
  /\ closer = "drain"
  /\ drain' = TRUE
  /\ closer' = "wake"
  /\ UNCHANGED <<clientVars, sharedVars, threadVars, leftovers>>

CloseWakesWriter ==
  /\ closer = "wake"
  /\ wakeup' = (tail - head < QueueSize)
  /\ closer' = "join"
  /\ UNCHANGED <<clientVars, head, futureVars, guardVars, threadVars, drain,
                 leftovers>>

CloseJoins ==
  /\ closer = "join" /\ wpc = "exited"
  /\ closer' = "closed"
  /\ UNCHANGED <<clientVars, sharedVars, threadVars, drain, leftovers>>

(* Fault: the thread is joined without a timeout.                          *)
CloseNeverAbandons == FALSE

(* Fault: what the writer is working on is left to it.                     *)
CloseAbandonsQueueOnly ==
  /\ closer = "join" /\ wpc # "exited" /\ GuardFree
  /\ abandoned' = TRUE
  /\ leftovers' = {}
  /\ closer' = "take"
  /\ UNCHANGED <<clientVars, queueVars, futureVars, current, committing, threadVars,
                 drain>>

(* Fault: what the writer had gathered is taken from it and forgotten.     *)
CloseForgetsGathered ==
  /\ closer = "join" /\ wpc # "exited" /\ GuardFree
  /\ abandoned' = TRUE
  /\ leftovers' = {}
  /\ current' = IF committing THEN current ELSE {}
  /\ closer' = "take"
  /\ UNCHANGED <<clientVars, queueVars, futureVars, committing, threadVars, drain>>

(* The join timed out: take the guard, tell the writer to give up, and     *)
(* take over what it holds, except a group whose COMMIT has started. The   *)
(* interpreter switches threads on calls and backward jumps only, none of  *)
(* which is between _settle_remaining's read and its reset of              *)
(* _current_group: one step.                                               *)
CloseAbandons ==
  /\ closer = "join" /\ wpc # "exited" /\ GuardFree
  /\ abandoned' = TRUE
  /\ leftovers' = IF committing THEN {} ELSE Pending(current)
  /\ current' = IF committing THEN current ELSE {}
  /\ closer' = "take"
  /\ UNCHANGED <<clientVars, queueVars, futureVars, committing, threadVars, drain>>

(* _settle_remaining empties the queue and then settles; _settle_queued    *)
(* settles each envelope before it takes the next.                         *)
CloseTakes ==
  /\ closer = "take" /\ ~QueueEmpty
  /\ committing => leftovers = {}
  /\ IF head < tail
       THEN /\ head' = head + 1
            /\ leftovers' = leftovers \cup {head + 1}
            /\ UNCHANGED wakeup
       ELSE /\ wakeup' = FALSE
            /\ UNCHANGED <<head, leftovers>>
  /\ UNCHANGED <<clientVars, futureVars, guardVars, threadVars, drain, closer>>

CloseSettles ==
  /\ \/ closer = "take" /\ committing
     \/ closer = "settle"
  /\ \E e \in First(leftovers) :
       /\ Settle(e, "failed")
       /\ leftovers' = leftovers \ {e}
  /\ UNCHANGED <<clientVars, queueVars, guardVars, threadVars, drain, closer>>

CloseFindsQueueEmpty ==
  /\ closer = "take" /\ QueueEmpty
  /\ committing => leftovers = {}
  /\ closer' = "settle"
  /\ UNCHANGED <<clientVars, sharedVars, threadVars, drain, leftovers>>

CloseReturns ==
  /\ closer = "settle" /\ leftovers = {}
  /\ closer' = "closed"
  /\ UNCHANGED <<clientVars, sharedVars, threadVars, drain, leftovers>>

CloseProceeds ==
  \/ CloseRequestsDrain \/ CloseWakesWriter \/ CloseJoins \/ CloseAbandons
  \/ CloseTakes \/ CloseSettles \/ CloseFindsQueueEmpty \/ CloseReturns

-----------------------------------------------------------------------------
(* The writer thread: _run and _drain_loop                                 *)

WriterGoes(from, to) == wpc = from /\ wpc' = to

Opens ==
  /\ \/ WriterGoes("open", "top")
     \/ WriterGoes("open", "exited")     (* open_writer raised *)
  /\ UNCHANGED <<othersVars, sharedVars, hand, txnVars>>

SeesAbandoned ==
  /\ abandoned
  /\ WriterGoes("top", "take")
  /\ ready' = Pending(current)
  /\ current' = {}
  /\ UNCHANGED <<othersVars, queueVars, futureVars, abandoned, committing, hand,
                 batch, group, staged, dbVars>>

Polls ==
  /\ ~abandoned
  /\ WriterGoes("top", "get")
  /\ UNCHANGED <<othersVars, sharedVars, hand, txnVars>>

(* Fault: an empty queue is read.                                          *)
TakesFromEmpty ==
  /\ \/ WriterGoes("get", "first")
     \/ WriterGoes("gather", "append")
  /\ head' = head + 1
  /\ hand' = {head + 1}
  /\ UNCHANGED <<othersVars, wakeup, futureVars, guardVars, txnVars>>

(* queue.get and get_nowait hand over an envelope before _current_group    *)
(* names it.                                                               *)
TakesEnvelope ==
  /\ head < tail
  /\ \/ WriterGoes("get", "first")
     \/ WriterGoes("gather", "append")
  /\ head' = head + 1
  /\ hand' = {head + 1}
  /\ UNCHANGED <<othersVars, wakeup, futureVars, guardVars, txnVars>>

(* The poll timed out, or returned the marker.                             *)
FindsNoEnvelope ==
  /\ head = tail
  /\ wpc = "get"
  /\ wakeup' = FALSE
  /\ wpc' = IF drain /\ current = {} THEN "exited" ELSE "top"
  /\ UNCHANGED <<othersVars, head, futureVars, guardVars, hand, txnVars>>

HoldsEnvelope ==
  /\ wpc \in {"first", "append"}
  /\ current' = IF wpc = "first" THEN hand ELSE current \cup hand
  /\ batch' = IF hand \subseteq forced THEN current' ELSE {}
  /\ wpc' = IF hand \subseteq forced THEN "process" ELSE "gather"
  /\ hand' = {}
  /\ UNCHANGED <<othersVars, queueVars, futureVars, abandoned, committing, group,
                 ready, staged, dbVars>>

GathersNoMore ==
  /\ head = tail
  /\ WriterGoes("gather", "process")
  /\ wakeup' = FALSE
  /\ batch' = current
  /\ UNCHANGED <<othersVars, head, futureVars, guardVars, hand, group, ready,
                 staged, dbVars>>

(* Fault: the forced mutation overtakes those before it.                   *)
ForcedFirst(b) == IF b \cap forced # {} THEN b \cap forced ELSE b

(* _process_batch: a forced mutation commits alone, those before it        *)
(* together.                                                               *)
NextGroup(b) ==
  LET plain == {e \in b : \A f \in b \cap forced : e < f}
  IN  IF plain # {} THEN plain ELSE First(b)

StartsGroup ==
  /\ batch # {}
  /\ WriterGoes("process", "begin")
  /\ group' = NextGroup(batch)
  /\ batch' = batch \ group'
  /\ UNCHANGED <<othersVars, sharedVars, hand, ready, staged, dbVars>>

FinishesBatch ==
  /\ batch = {} /\ wpc = "process"
  /\ current' = {}
  /\ wpc' = IF drain /\ QueueEmpty THEN "exited" ELSE "top"
  /\ UNCHANGED <<othersVars, queueVars, futureVars, abandoned, committing, hand,
                 txnVars>>

(* _settle_remaining in the writer thread                                  *)
TakesRemaining ==
  /\ wpc = "take" /\ head < tail
  /\ head' = head + 1
  /\ ready' = ready \cup {head + 1}
  /\ UNCHANGED <<othersVars, wakeup, futureVars, guardVars, wpc, hand, batch, group,
                 staged, dbVars>>

TookRemaining ==
  /\ head = tail
  /\ WriterGoes("take", "fail")
  /\ wakeup' = FALSE
  /\ UNCHANGED <<othersVars, head, futureVars, guardVars, hand, txnVars>>

SettlesRemaining ==
  /\ wpc = "fail"
  /\ IF ready = {}
       THEN /\ wpc' = "exited"
            /\ UNCHANGED <<futureVars, ready>>
       ELSE \E e \in First(ready) :
              /\ Settle(e, "failed")
              /\ ready' = ready \ {e}
              /\ UNCHANGED wpc
  /\ UNCHANGED <<othersVars, queueVars, guardVars, hand, batch, group, staged,
                 dbVars>>

-----------------------------------------------------------------------------
(* The writer thread: _commit_group                                        *)

Begins ==
  /\ WriterGoes("begin", "loop")
  /\ ready' = group
  /\ staged' = {}
  /\ UNCHANGED <<othersVars, sharedVars, hand, batch, group, dbVars>>

(* An exception no handler of _commit_group catches: any at BEGIN, which   *)
(* is outside its try, and one that is no Exception from a mutation, from  *)
(* COMMIT or ROLLBACK (handled so far only to clear _commit_in_progress),  *)
(* or from a callback. _drain_loop's finally clears _current_group before  *)
(* _run's _settle_remaining reads it.                                      *)
Escapes ==
  /\ escapes < MaxEscapes
  /\ \/ wpc \in {"begin", "run", "callbacks"}
     \/ wpc = "rollback" /\ ready = group
  /\ wpc' = "take"
  /\ escapes' = escapes + 1
  /\ dropped' = dropped \cup current
  /\ notified' \in IF wpc = "callbacks"
                     THEN {notified \cup {x \in staged : x <= e} : e \in staged}
                     ELSE {notified}
  /\ current' = {}
  /\ ready' = {}
  /\ batch' = {}
  /\ UNCHANGED <<othersVars, queueVars, futureVars, abandoned, committing, hand,
                 group, staged, durable>>

RunsMutation ==
  /\ ~abandoned /\ ready # {}
  /\ WriterGoes("loop", "run")
  /\ UNCHANGED <<othersVars, sharedVars, hand, txnVars>>

Stages ==
  /\ ~abandoned
  /\ WriterGoes("run", "loop")
  /\ staged' = staged \cup First(ready)
  /\ ready' = ready \ First(ready)
  /\ UNCHANGED <<othersVars, sharedVars, hand, batch, group, dbVars>>

(* fn raised, or close() gave up while it ran: back to the savepoint.      *)
RollsBackMutation ==
  /\ WriterGoes("run", "loop")
  /\ \E e \in First(ready) :
       /\ Settle(e, "failed")
       /\ ready' = ready \ {e}
  /\ UNCHANGED <<othersVars, queueVars, guardVars, hand, batch, group, staged,
                 dbVars>>

(* SAVEPOINT, or the way back to it, raised: the whole group fails.        *)
SavepointRaises ==
  /\ WriterGoes("run", "rollback")
  /\ ready' = group
  /\ UNCHANGED <<othersVars, sharedVars, hand, batch, group, staged, dbVars>>

(* Before a mutation, or under the guard just before COMMIT.               *)
GivesUpGroup ==
  /\ abandoned
  /\ ready = {} => GuardFree
  /\ WriterGoes("loop", "rollback")
  /\ ready' = group
  /\ UNCHANGED <<othersVars, sharedVars, hand, batch, group, staged, dbVars>>

(* Fault: _abandoned is not looked at again under the guard.               *)
EntersCommitRegardless ==
  /\ ready = {} /\ GuardFree
  /\ WriterGoes("loop", "commit")
  /\ committing' = TRUE
  /\ UNCHANGED <<othersVars, queueVars, futureVars, abandoned, current, hand,
                 txnVars>>

EntersCommit ==
  /\ ~abandoned /\ ready = {} /\ GuardFree
  /\ WriterGoes("loop", "commit")
  /\ committing' = TRUE
  /\ UNCHANGED <<othersVars, queueVars, futureVars, abandoned, current, hand,
                 txnVars>>

Commits ==
  /\ WriterGoes("commit", "committed")
  /\ durable' = durable \cup staged
  /\ UNCHANGED <<othersVars, sharedVars, hand, listVars, notified, escapes,
                 dropped>>

CommitRaises ==
  /\ WriterGoes("commit", "uncommit")
  /\ UNCHANGED <<othersVars, sharedVars, hand, txnVars>>

LeavesFailedCommit ==
  /\ GuardFree
  /\ WriterGoes("uncommit", "rollback")
  /\ committing' = FALSE
  /\ ready' = group
  /\ UNCHANGED <<othersVars, queueVars, futureVars, abandoned, current, hand, batch,
                 group, staged, dbVars>>

LocksToSettle ==
  /\ GuardFree
  /\ WriterGoes("committed", "settle")
  /\ ready' = staged
  /\ UNCHANGED <<othersVars, sharedVars, hand, batch, group, staged, dbVars>>

SettlesCommitted ==
  /\ wpc = "settle"
  /\ IF ready = {}
       THEN /\ wpc' = "callbacks"
            /\ committing' = FALSE
            /\ UNCHANGED <<futureVars, ready>>
       ELSE \E e \in First(ready) :
              /\ Settle(e, "ok")
              /\ ready' = ready \ {e}
              /\ UNCHANGED <<committing, wpc>>
  /\ UNCHANGED <<othersVars, queueVars, abandoned, current, hand, batch, group,
                 staged, dbVars>>

(* Fault: the callbacks of rolled-back mutations run as well.              *)
RunsAllCallbacks ==
  /\ WriterGoes("callbacks", "process")
  /\ notified' = notified \cup group
  /\ UNCHANGED <<othersVars, sharedVars, hand, listVars, durable, escapes,
                 dropped>>

RunsCallbacks ==
  /\ WriterGoes("callbacks", "process")
  /\ notified' = notified \cup staged
  /\ UNCHANGED <<othersVars, sharedVars, hand, listVars, durable, escapes,
                 dropped>>

SettlesRolledBack ==
  /\ wpc = "rollback"
  /\ IF ready = {}
       THEN /\ wpc' = "process"
            /\ UNCHANGED <<futureVars, ready>>
       ELSE \E e \in First(ready) :
              /\ Settle(e, "failed")
              /\ ready' = ready \ {e}
              /\ UNCHANGED wpc
  /\ UNCHANGED <<othersVars, queueVars, guardVars, hand, batch, group, staged,
                 dbVars>>

-----------------------------------------------------------------------------
(* Steps that wait for the database or for a caller's mutation.            *)
WriterBlocks ==
  \/ Opens \/ Stages \/ RollsBackMutation \/ SavepointRaises \/ Commits
  \/ CommitRaises \/ Escapes

(* BEGIN IMMEDIATE waits at most the connection's busy timeout.            *)
WriterRuns ==
  \/ SeesAbandoned \/ Polls \/ TakesEnvelope \/ FindsNoEnvelope \/ HoldsEnvelope
  \/ GathersNoMore \/ StartsGroup \/ FinishesBatch \/ TakesRemaining
  \/ TookRemaining \/ SettlesRemaining \/ Begins \/ RunsMutation
  \/ GivesUpGroup \/ EntersCommit \/ LeavesFailedCommit \/ LocksToSettle
  \/ SettlesCommitted \/ RunsCallbacks \/ SettlesRolledBack

Callers ==
  \/ StartReturns \/ StartTimesOut
  \/ \E kind \in {"plain", "flush"} : SubmitBegins(kind)
  \/ SubmitPuts \/ SubmitRejected
  \/ \E e \in Id : FlushTimesOut(e)

Next == Callers \/ CloseBegins \/ CloseProceeds \/ WriterBlocks \/ WriterRuns

Spec == Init /\ [][Next]_vars

(* The operating system schedules every thread; the database and the       *)
(* callers' mutations may hang.                                            *)
HangingSpec ==
  /\ Spec
  /\ WF_vars(WriterRuns)
  /\ WF_vars(CloseProceeds)
  /\ WF_vars(SubmitPuts \/ SubmitRejected)

(* The database and the mutations return.                                  *)
NothingHangs == WF_vars(WriterRuns \/ WriterBlocks)

(* Every transaction can begin, and what mutations and callbacks raise is  *)
(* an Exception.                                                           *)
NothingEscapes == [](escapes = 0)

-----------------------------------------------------------------------------
(* Properties                                                              *)

TypeOK ==
  /\ starter \in {"waiting", "started", "raised"}
  /\ putting \in {"nobody", "plain", "flush"}
  /\ accepting \in BOOLEAN
  /\ tail \in 0..MaxMutations /\ head \in 0..tail
  /\ wakeup \in BOOLEAN
  /\ forced \subseteq 1..tail
  /\ answer \in [Id -> {"none", "ok", "failed", "unknown"}]
  /\ outstanding \in Nat
  /\ drain \in BOOLEAN /\ abandoned \in BOOLEAN /\ committing \in BOOLEAN
  /\ wpc \in {"open", "top", "get", "first", "gather", "append", "process",
              "begin", "loop", "run", "commit", "uncommit", "rollback",
              "committed", "settle", "callbacks", "take", "fail", "exited"}
  /\ current \cup hand \cup batch \cup group \cup ready \cup staged \cup leftovers
       \subseteq 1..head
  /\ durable \subseteq 1..head /\ notified \subseteq 1..head
  /\ escapes \in 0..MaxEscapes /\ dropped \subseteq 1..head
  /\ closer \in {"idle", "drain", "wake", "join", "take", "settle", "closed"}

(* A future that holds a result belongs to a mutation in the database, and *)
(* one that holds an error to a mutation that is not and never will be;    *)
(* only the flush of a forced mutation may say the outcome is unknown.     *)
AnswersMatchDatabase ==
  \A e \in 1..tail :
    /\ answer[e] = "ok" => e \in durable
    /\ answer[e] = "failed" => e \notin durable
    /\ answer[e] = "unknown" => e \in forced

(* The counter flush() waits on is the number of accepted mutations with a *)
(* pending future, and the submission in progress: flush() never returns   *)
(* early, nor waits for a mutation answered already or rejected.           *)
OutstandingIsExact ==
  outstanding = Cardinality(Pending(1..tail)) + (IF putting = "nobody" THEN 0 ELSE 1)

(* After-commit callbacks run for no mutation that was rolled back, and    *)
(* not before its submitter has been answered.                             *)
CallbacksFollowCommit ==
  notified \subseteq durable \ Pending(Id)

(* Once close() has given up on the writer, or start() has, no COMMIT      *)
(* starts any more, and the database stays as the one that may then be     *)
(* under way leaves it.                                                    *)
NoCommitAfterAbandon ==
  [][abandoned /\ ~committing =>
       abandoned' /\ ~committing' /\ durable' = durable]_vars

(* The writer keeps the promises of MutationLog.                           *)
Promise == INSTANCE MutationLog WITH accepted <- tail

ImplementsMutationLog == Promise!Spec

(* Every mutation submit() accepted is answered, with or without close(),  *)
(* if neither the database nor a mutation hangs forever and no exception   *)
(* escapes _commit_group.                                                  *)
EveryMutationAnswered ==
  NothingHangs /\ NothingEscapes => \A e \in Id : (e <= tail) ~> (answer[e] # "none")

(* close() returns however long the database or a mutation hangs.          *)
CloseIsBounded == (closer = "drain") ~> (closer = "closed")

(* Once close() has been called, every mutation is answered but those of a *)
(* batch one of whose groups is in a COMMIT that hangs, if no exception    *)
(* escapes _commit_group.                                                  *)
CloseAnswers ==
  NothingEscapes => (closer = "drain") ~>
    (\A e \in 1..tail : answer[e] # "none" \/ (committing /\ e \in current))

(* When the writer thread has ended and close() has returned, a future is  *)
(* pending only if an exception escaped _commit_group while _current_group *)
(* named its mutation, or if one had ended the thread and submit() went on *)
(* filling the queue. Nothing else loses an envelope: neither the hand-over *)
(* from the queue to the writer's lists nor close() taking over those      *)
(* lists while the writer works on them, and no escape loses an envelope   *)
(* of another batch that has left the queue.                               *)
OnlyEscapesLose ==
  wpc = "exited" /\ closer = "closed" =>
    /\ Pending(1..head) \subseteq dropped
    /\ escapes = 0 => head = tail

(* writer.py:9 promises to settle every accepted envelope: when the writer *)
(* thread has ended and close() has returned, no future is pending.        *)
NothingLeftPending ==
  wpc = "exited" /\ closer = "closed" => Pending(1..tail) = {}
=============================================================================
