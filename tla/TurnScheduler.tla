---------------------------- MODULE TurnScheduler ---------------------------
(***************************************************************************)
(* The scheduler of chat turns and execution reservations                  *)
(* (core/web/services/session_turn_scheduler.py) with the callbacks it is  *)
(* used with (session/schedule.py, proactive.py, submit.py, control.py).   *)
(* User turns own their session's runtime entry from their admission on;   *)
(* proactive turns are admitted when the scheduler has chosen them; a      *)
(* reservation takes a session, or a whole agent, for other work.          *)
(*                                                                         *)
(* Each turn is a thread of control of its own: the thread that releases a *)
(* slot submits the turns it started in any order with its other work.     *)
(***************************************************************************)
EXTENDS Integers, Sequences, FiniteSets, SequencesExt

CONSTANTS
  Turns,        (* chat turns and reservations, each used once             *)
  Kind,         (* "user", "proactive", "session" or "agent" reservation   *)
  SessionOf,    (* the session of each turn                                *)
  Sessions, Agents,
  AgentOf,      (* the agent of each session                               *)
  MaxActive,    (* max_active_per_agent                                    *)
  MaxFailures,  (* bound: exceptions raised on the way                     *)
  MaxDefers     (* bound: times a proactive turn goes back behind a user's *)

ASSUME SchedulerAssumption ==
  /\ Kind \in [Turns -> {"user", "proactive", "session", "agent"}]
  /\ SessionOf \in [Turns -> Sessions] /\ AgentOf \in [Sessions -> Agents]
  /\ MaxActive \in Nat \ {0} /\ MaxFailures \in Nat /\ MaxDefers \in Nat
  /\ "none" \notin Turns

VARIABLES
  runtime,    (* _SESSION_ACTIVE_TURN_IDS: the turn that runs each session *)
  active,     (* _active_turn_ids_by_session                               *)
  slots,      (* _active_session_keys_by_agent                             *)
  exclusive,  (* _active_external_turn_ids_by_agent                        *)
  queue,      (* _queues                                                   *)
  pc,         (* where each turn is                                        *)
  frames,     (* callers that release the turn if its submission raises    *)
  dequeued,   (* turns that another turn's release submitted               *)
  clearing,   (* user turns whose failed submit is to clear the session    *)
  stray,      (* history: turns released without holding anything          *)
  failures, defers

books == [active |-> active, slots |-> slots, exclusive |-> exclusive]
bookVars == <<active, slots, exclusive>>
stackVars == <<frames, dequeued, clearing>>
vars == <<runtime, bookVars, queue, pc, stackVars, stray, failures, defers>>

Agent(t) == AgentOf[SessionOf[t]]
Chat(t) == Kind[t] \in {"user", "proactive"}
Exclusive(t) == Kind[t] = "agent"
Queued(t) == \E i \in DOMAIN queue[Agent(t)] : queue[Agent(t)][i] = t

Init ==
  /\ runtime = [s \in Sessions |-> "none"]
  /\ active = [s \in Sessions |-> "none"]
  /\ slots = [a \in Agents |-> {}]
  /\ exclusive = [a \in Agents |-> "none"]
  /\ queue = [a \in Agents |-> <<>>]
  /\ pc = [t \in Turns |-> "new"]
  /\ frames = [t \in Turns |-> 0] /\ dequeued = {} /\ clearing = {}
  /\ stray = {} /\ failures = 0 /\ defers = 0

-----------------------------------------------------------------------------
(* The scheduler's books                                                   *)

Activated(b, t) ==
  IF Exclusive(t)
    THEN [b EXCEPT !.exclusive[Agent(t)] = t]
    ELSE [b EXCEPT !.active[SessionOf[t]] = t,
                   !.slots[Agent(t)] = @ \cup {SessionOf[t]}]

(* Fault: whatever turn holds the session is thrown out.                   *)
DeactivatedWhoever(b, t) ==
  IF Exclusive(t)
    THEN [b EXCEPT !.exclusive[Agent(t)] = IF @ = t THEN "none" ELSE @]
    ELSE [b EXCEPT !.active[SessionOf[t]] = "none",
                   !.slots[Agent(t)] = @ \ {SessionOf[t]}]

(* Fault: the agent's slot is kept.                                        *)
DeactivatedKeepsSlot(b, t) ==
  IF Exclusive(t)
    THEN [b EXCEPT !.exclusive[Agent(t)] = IF @ = t THEN "none" ELSE @]
    ELSE [b EXCEPT !.active[SessionOf[t]] = IF @ = t THEN "none" ELSE @]

(* The slot goes whoever holds the session, the session only if it is t.   *)
Deactivated(b, t) ==
  IF Exclusive(t)
    THEN [b EXCEPT !.exclusive[Agent(t)] = IF @ = t THEN "none" ELSE @]
    ELSE [b EXCEPT !.active[SessionOf[t]] = IF @ = t THEN "none" ELSE @,
                   !.slots[Agent(t)] = @ \ {SessionOf[t]}]

(* Fault: one turn too many.                                               *)
BlockedByOneMore(b, t) ==
  \/ b.exclusive[Agent(t)] # "none"
  \/ Exclusive(t) /\ b.slots[Agent(t)] # {}
  \/ ~Exclusive(t) /\ \/ b.active[SessionOf[t]] # "none"
                      \/ Cardinality(b.slots[Agent(t)]) > MaxActive
  \/ Chat(t) /\ runtime[SessionOf[t]] \notin {"none", t}

(* _chat_queue_reason_locked and _reservation_queue_reason_locked, without *)
(* the waiters                                                             *)
Blocked(b, t) ==
  \/ b.exclusive[Agent(t)] # "none"
  \/ Exclusive(t) /\ b.slots[Agent(t)] # {}
  \/ ~Exclusive(t) /\ \/ b.active[SessionOf[t]] # "none"
                      \/ Cardinality(b.slots[Agent(t)]) >= MaxActive
  \/ Chat(t) /\ runtime[SessionOf[t]] \notin {"none", t}

(* A newcomer waits behind a reservation of the agent, and such a          *)
(* reservation behind anyone.                                              *)
MustWait(t) ==
  \/ Blocked(books, t)
  \/ \E i \in DOMAIN queue[Agent(t)] : Exclusive(t) \/ Exclusive(queue[Agent(t)][i])

(* User turns go before the first proactive one, all others to the end.    *)
Enqueued(q, t) ==
  LET low == {i \in DOMAIN q : Kind[q[i]] = "proactive"}
      at  == IF Kind[t] = "user" /\ low # {} THEN Min(low) ELSE Len(q) + 1
  IN  InsertAt(q, at, t)

(* A user turn that no longer owns its session.                            *)
Stale(t) == Kind[t] = "user" /\ runtime[SessionOf[t]] # t

(* Fault: the pass ends at the first turn that cannot start.               *)
ConsideredInOrder(pass, t) ==
  IF pass.over \/ Blocked(pass.books, t)
    THEN [pass EXCEPT !.kept = Append(@, t), !.over = TRUE]
    ELSE IF Stale(t) THEN [pass EXCEPT !.dropped = @ \cup {t}]
    ELSE [pass EXCEPT !.books = Activated(@, t), !.started = @ \cup {t}]

(* One turn of release's pass over the queue.                              *)
Considered(pass, t) ==
  LET starts == [pass EXCEPT !.books = Activated(@, t), !.started = @ \cup {t}]
      stays  == [pass EXCEPT !.kept = Append(@, t)]
      first  == pass.kept = <<>> /\ pass.started = {}
      free   == ~Blocked(pass.books, t)
  IN  CASE pass.over    -> stays
        [] ~pass.over /\ Stale(t) -> [pass EXCEPT !.dropped = @ \cup {t}]
        [] ~pass.over /\ Exclusive(t) ->
             [(IF first /\ free THEN starts ELSE stays) EXCEPT !.over = TRUE]
        [] OTHER -> IF free THEN starts ELSE stays

(* The pass after each of its turns.                                       *)
PassOver(b, q) ==
  LET after[i \in 0..Len(q)] ==
        IF i = 0
          THEN [books |-> b, kept |-> <<>>, started |-> {}, dropped |-> {}, over |-> FALSE]
          ELSE Considered(after[i - 1], q[i])
  IN  after

Pass(b, q) == PassOver(b, q)[Len(q)]

(* The books name t. *)
Holds(t) == t \in {active[SessionOf[t]], exclusive[Agent(t)]}

(* Turns that the thread which submitted t, and now unwinds for it, may    *)
(* still have to submit.                                                   *)
NotYetSubmitted(t) ==
  IF pc[t] = "raised" /\ frames[t] = 1 /\ t \in dequeued
    THEN {x \in dequeued : pc[x] = "submit" /\ Agent(x) = Agent(t)} ELSE {}

(* What the pass r makes of the turns: t goes to a place, the dropped end, *)
(* the reservations that start are granted, and some turns move.           *)
Moves(t, r, moved, to, place, depth) ==
  LET chats == {x \in r.started : Chat(x)}
  IN  /\ pc' = [x \in Turns |->
                  IF x = t THEN place
                  ELSE IF x \in r.dropped THEN "ended"
                  ELSE IF x \in chats \cup moved THEN to
                  ELSE IF x \in r.started /\ pc[x] = "queued" THEN "granted"
                  ELSE pc[x]]
      /\ frames' = [x \in Turns |-> IF x = t THEN depth
                                    ELSE IF x \in chats THEN 1 ELSE frames[x]]
      /\ dequeued' = (IF depth = 0 THEN dequeued \ {t} ELSE dequeued) \cup chats

(* release(t), after which t goes to a place; the turns it starts are      *)
(* submitted next, unless marking one of them dequeued raises.             *)
Release(t, place, depth, raisedPlace, raisedDepth) ==
  \E r \in {Pass(Deactivated(books, t), queue[Agent(t)])} :
    /\ active' = r.books.active /\ slots' = r.books.slots
    /\ exclusive' = r.books.exclusive
    /\ queue' = [queue EXCEPT ![Agent(t)] = r.kept]
    /\ stray' = IF Holds(t) THEN stray ELSE stray \cup {t}
    /\ \/ Moves(t, r, {}, "submit", place, depth) /\ UNCHANGED failures
       \/ /\ \E x \in r.started : Kind[x] = "user"
          /\ failures < MaxFailures
          /\ failures' = failures + 1
          /\ \E lost \in SUBSET NotYetSubmitted(t) :
               Moves(t, r, lost, "leaked", raisedPlace, raisedDepth)
    /\ UNCHANGED <<runtime, defers>>

Goes(t, place) == pc' = [pc EXCEPT ![t] = place]

SessionFreed(t) ==
  [runtime EXCEPT ![SessionOf[t]] = IF @ = t THEN "none" ELSE @]

-----------------------------------------------------------------------------
(* schedule() and _reserve_execution                                       *)

(* A user's message is accepted while nothing runs in the session.         *)
Admits(t) ==
  /\ Kind[t] = "user" /\ pc[t] = "new"
  /\ runtime[SessionOf[t]] = "none"
  /\ runtime' = [runtime EXCEPT ![SessionOf[t]] = t]
  /\ Goes(t, "admitted")
  /\ UNCHANGED <<bookVars, queue, stackVars, stray, failures, defers>>

Ready(t) ==
  \/ pc[t] = "new" /\ Kind[t] # "user"
  \/ pc[t] \in {"admitted", "redo"}

(* Whoever may start holds its slot at once; a chat's schedule() then      *)
(* submits it.                                                             *)
Starts(t) ==
  /\ Ready(t) /\ ~MustWait(t)
  /\ LET b == Activated(books, t)
     IN active' = b.active /\ slots' = b.slots /\ exclusive' = b.exclusive
  /\ Goes(t, IF Chat(t) THEN "submit" ELSE "running")
  /\ frames' = [frames EXCEPT ![t] = IF Chat(t) THEN @ + 1 ELSE 0]
  /\ UNCHANGED <<runtime, queue, dequeued, clearing, stray, failures, defers>>

(* Marking a user's turn queued may raise: its submit will clear the       *)
(* session's runtime entry, but the turn stays in the queue.               *)
Waits(t) ==
  /\ Ready(t) /\ MustWait(t)
  /\ queue' = [queue EXCEPT ![Agent(t)] = Enqueued(@, t)]
  /\ Goes(t, "queued")
  /\ frames' = [frames EXCEPT ![t] = 0]
  /\ dequeued' = dequeued \ {t}
  /\ \/ UNCHANGED <<clearing, failures>>
     \/ /\ failures < MaxFailures /\ runtime[SessionOf[t]] = t
        /\ failures' = failures + 1
        /\ clearing' = clearing \cup {t}
  /\ UNCHANGED <<runtime, bookVars, stray, defers>>

-----------------------------------------------------------------------------
(* _submit_scheduled_session_turn and the executor                         *)

SubmitsUser(t) ==
  /\ pc[t] = "submit" /\ Kind[t] = "user"
  /\ Goes(t, "running")
  /\ frames' = [frames EXCEPT ![t] = 0] /\ dequeued' = dequeued \ {t}
  /\ UNCHANGED <<runtime, bookVars, queue, clearing, stray, failures, defers>>

SubmitsProactive(t) ==
  /\ pc[t] = "submit" /\ Kind[t] = "proactive"
  /\ runtime[SessionOf[t]] \in {"none", t}
  /\ runtime' = [runtime EXCEPT ![SessionOf[t]] = t]
  /\ Goes(t, "running")
  /\ frames' = [frames EXCEPT ![t] = 0] /\ dequeued' = dequeued \ {t}
  /\ UNCHANGED <<bookVars, queue, clearing, stray, failures, defers>>

(* The user was faster: release, and schedule anew.                        *)
DefersProactive(t) ==
  /\ pc[t] = "submit" /\ Kind[t] = "proactive" /\ defers < MaxDefers
  /\ runtime[SessionOf[t]] \notin {"none", t}
  /\ defers' = defers + 1
  /\ Goes(t, "defers")
  /\ UNCHANGED <<runtime, bookVars, queue, stackVars, stray, failures>>

ReleasesDeferred(t) ==
  /\ pc[t] = "defers"
  /\ Release(t, "redo", frames[t], "raised", frames[t])
  /\ UNCHANGED clearing

(* Fault: the slot is not given back.                                      *)
DropsWithoutRelease(t) ==
  /\ pc[t] = "submit" /\ Kind[t] = "proactive"
  /\ Goes(t, "ended")
  /\ UNCHANGED <<runtime, bookVars, queue, stackVars, stray, failures, defers>>

(* The plugin's binding is no longer valid.                                *)
DropsProactive(t) ==
  /\ pc[t] = "submit" /\ Kind[t] = "proactive"
  /\ Release(t, "ended", 0, "raised", frames[t])
  /\ UNCHANGED clearing

(* The executor has shut down, or the admission fails: before or after it  *)
(* took the session.                                                       *)
SubmitRaises(t) ==
  /\ failures < MaxFailures /\ pc[t] = "submit"
  /\ failures' = failures + 1
  /\ Goes(t, "raised")
  /\ \/ UNCHANGED runtime
     \/ /\ Kind[t] = "proactive" /\ runtime[SessionOf[t]] = "none"
        /\ runtime' = [runtime EXCEPT ![SessionOf[t]] = t]
  /\ UNCHANGED <<bookVars, queue, stackVars, stray, defers>>

(* The outermost caller of a dequeued turn clears its runtime entry, and   *)
(* each caller releases it; a user's submit clears the entry last.         *)
UnwindsRuntime(t) ==
  /\ pc[t] = "raised" /\ frames[t] = 1 /\ t \in dequeued
  /\ runtime[SessionOf[t]] = t
  /\ runtime' = SessionFreed(t)
  /\ UNCHANGED <<bookVars, queue, pc, stackVars, stray, failures, defers>>

Unwinds(t) ==
  /\ pc[t] = "raised" /\ frames[t] > 0
  /\ frames[t] = 1 /\ t \in dequeued => runtime[SessionOf[t]] # t
  /\ LET place == IF frames[t] > 1 THEN "raised" ELSE "ended"
     IN  Release(t, place, frames[t] - 1, place, frames[t] - 1)
  /\ clearing' = IF Kind[t] = "user" /\ t \notin dequeued THEN clearing \cup {t} ELSE clearing

ClearsRuntime(t) ==
  /\ t \in clearing
  /\ runtime' = [runtime EXCEPT ![SessionOf[t]] = "none"]
  /\ clearing' = clearing \ {t}
  /\ UNCHANGED <<bookVars, queue, pc, frames, dequeued, stray, failures, defers>>

(* The worker is done, and its executor thread releases the turn.          *)
Finishes(t) ==
  /\ Chat(t) /\ pc[t] = "running"
  /\ runtime' = SessionFreed(t)
  /\ Goes(t, "leaving")
  /\ UNCHANGED <<bookVars, queue, stackVars, stray, failures, defers>>

Leaves(t) ==
  /\ pc[t] = "leaving" \/ (~Chat(t) /\ pc[t] = "running")
  /\ Release(t, "ended", 0, "ended", 0)
  /\ UNCHANGED clearing

-----------------------------------------------------------------------------
(* Stops, and reservations that are not waited for any more                *)

(* Fault: the turn is only looked for.                                     *)
WithTurn(q, t) == q

(* A turn is in its queue at most once.                                    *)
WithoutTurn(q, t) ==
  IF \E i \in DOMAIN q : q[i] = t
    THEN RemoveAt(q, CHOOSE i \in DOMAIN q : q[i] = t)
    ELSE q

(* The stop of a queued turn: out of the queue first, then out of the      *)
(* session.                                                                *)
CancelsQueued(t) ==
  /\ Chat(t) /\ Queued(t)
  /\ Kind[t] = "proactive" \/ runtime[SessionOf[t]] = t
  /\ queue' = [queue EXCEPT ![Agent(t)] = WithoutTurn(@, t)]
  /\ Goes(t, "cancelled")
  /\ UNCHANGED <<runtime, bookVars, stackVars, stray, failures, defers>>

EndsCancelled(t) ==
  /\ pc[t] = "cancelled"
  /\ runtime' = SessionFreed(t)
  /\ Goes(t, "ended")
  /\ UNCHANGED <<bookVars, queue, stackVars, stray, failures, defers>>

(* A newer message supersedes the turn that runs, or a reconciliation      *)
(* takes it for dead: its worker may still be there.                       *)
Superseded(t) ==
  /\ Chat(t) /\ runtime[SessionOf[t]] = t
  /\ runtime' = SessionFreed(t)
  /\ UNCHANGED <<bookVars, queue, pc, stackVars, stray, failures, defers>>

SeesGrant(t) ==
  /\ pc[t] = "granted"
  /\ Goes(t, "running")
  /\ UNCHANGED <<runtime, bookVars, queue, stackVars, stray, failures, defers>>

(* The deadline passes before the grant is seen.                           *)
Expires(t) ==
  /\ ~Chat(t) /\ pc[t] = "queued"
  /\ Goes(t, "expired")
  /\ UNCHANGED <<runtime, bookVars, queue, stackVars, stray, failures, defers>>

(* Then the reservation leaves the queue, if it is still there: one that   *)
(* was granted meanwhile is never released.                                *)
GivesUp(t) ==
  /\ pc[t] = "expired"
  /\ Goes(t, IF Queued(t) THEN "ended" ELSE "leaked")
  /\ queue' = [queue EXCEPT ![Agent(t)] = WithoutTurn(@, t)]
  /\ UNCHANGED <<runtime, bookVars, stackVars, stray, failures, defers>>

CancelsReservation(t) ==
  /\ ~Chat(t) /\ pc[t] = "queued"
  /\ queue' = [queue EXCEPT ![Agent(t)] = WithoutTurn(@, t)]
  /\ Goes(t, "ended")
  /\ UNCHANGED <<runtime, bookVars, stackVars, stray, failures, defers>>

-----------------------------------------------------------------------------
Works(t) ==
  \/ Starts(t) \/ Waits(t) \/ SubmitsUser(t) \/ SubmitsProactive(t)
  \/ DefersProactive(t) \/ ReleasesDeferred(t) \/ DropsProactive(t)
  \/ SubmitRaises(t) \/ UnwindsRuntime(t) \/ Unwinds(t) \/ ClearsRuntime(t)
  \/ Finishes(t) \/ Leaves(t) \/ EndsCancelled(t) \/ SeesGrant(t) \/ GivesUp(t)

Next ==
  \E t \in Turns :
    Admits(t) \/ Works(t) \/ CancelsQueued(t) \/ Superseded(t) \/ Expires(t)
    \/ CancelsReservation(t)

Spec == Init /\ [][Next]_vars

(* Threads run, and what holds a slot is done some day.                    *)
FairSpec == Spec /\ \A t \in Turns : WF_vars(Works(t))

-----------------------------------------------------------------------------
(* Properties                                                              *)

Places == {"new", "admitted", "queued", "submit", "defers", "redo", "raised", "running",
           "leaving", "granted", "expired", "cancelled", "leaked", "ended"}

TypeOK ==
  /\ runtime \in [Sessions -> Turns \cup {"none"}]
  /\ active \in [Sessions -> Turns \cup {"none"}]
  /\ slots \in [Agents -> SUBSET Sessions]
  /\ exclusive \in [Agents -> Turns \cup {"none"}]
  /\ queue \in [Agents -> Seq(Turns)]
  /\ pc \in [Turns -> Places]
  /\ frames \in [Turns -> Nat]
  /\ dequeued \subseteq Turns /\ clearing \subseteq Turns /\ stray \subseteq Turns
  /\ failures \in 0..MaxFailures /\ defers \in 0..MaxDefers
  /\ \A a \in Agents : \A i, j \in DOMAIN queue[a] :
       /\ Agent(queue[a][i]) = a /\ pc[queue[a][i]] \in {"queued", "expired"}
       /\ queue[a][i] = queue[a][j] => i = j

(* A turn whose code runs, or may: in the executor or a reservation's body. *)
Executes(t) == pc[t] \in {"running", "leaving"}

(* Two turns never execute in one session, whatever is stopped, superseded *)
(* or reconciled and whichever submissions fail.                           *)
SessionSerialized ==
  \A t, u \in Turns :
    Executes(t) /\ Executes(u) /\ SessionOf[t] = SessionOf[u]
      /\ ~Exclusive(t) /\ ~Exclusive(u) => t = u

(* Whatever executes or is about to is in the books, and nothing else is,  *)
(* but a slot leaked by a timeout that lost the race or a failed dequeue.  *)
BooksMatch ==
  /\ \A t \in Turns :
       /\ pc[t] \in {"submit", "running", "leaving", "granted", "defers", "leaked"} => Holds(t)
       /\ Holds(t) => pc[t] \in {"submit", "running", "leaving", "granted", "defers",
                                 "expired", "raised", "leaked"}
  /\ stray = {} => \A a \in Agents :
       slots[a] = {s \in Sessions : AgentOf[s] = a /\ active[s] # "none"}

Executing(a) == {t \in Turns : Executes(t) /\ Agent(t) = a}

(* An agent executes no more than its maximum at once, and nothing beside  *)
(* a reservation of the whole agent.                                       *)
AgentBounded ==
  \A a \in Agents :
    /\ Cardinality(Executing(a)) <= MaxActive
    /\ \A t \in Executing(a) : Exclusive(t) => Executing(a) = {t}

BoundedUnlessReleasedTwice == stray = {} => AgentBounded

(* A user's turn that owns its session, or a reservation, waits in the     *)
(* queue only behind a turn whose release will consider it.                *)
NoLostWakeup ==
  \A t \in Turns :
    Queued(t) /\ ~Stale(t) /\ Kind[t] # "proactive" =>
      \E u \in Turns : Agent(u) = Agent(t) /\ Holds(u)

(* A user's turn that owns its session, or a session reservation, does not *)
(* wait forever, if every turn that executes returns and no slot leaks.    *)
NobodyStarves ==
  \A t \in Turns :
    (Kind[t] \in {"user", "session"} /\ pc[t] = "queued") ~>
      (pc[t] # "queued" \/ Stale(t) \/ \E u \in Turns : pc[u] = "leaked")
=============================================================================
