---------------------------- MODULE CommandQueue ----------------------------
(***************************************************************************)
(* The runtime manager's queue of lifecycle commands: command_queue.py,    *)
(* restart_coordinator.py and the command loop of daemon.py, all under     *)
(* core/runtime_manager.  Clients in several processes write command files *)
(* into the inbox; one daemon renames a file to processing, acts, writes a *)
(* result file and unlinks the command.  There is no lock: a step below is *)
(* one file operation, or several of which the others cannot tell the      *)
(* order.  The daemon may die anywhere; the files stay.                    *)
(***************************************************************************)
EXTENDS Naturals, FiniteSets

CONSTANTS
  Commands,      (* command ids                                            *)
  KindsOf,       (* the kinds of request a command may be                  *)
  Patient,       (* commands that carry deferredUntilActiveWorkClear       *)
  Cancelled,     (* commands whose requester may want to cancel them       *)
  MaxCrashes     (* bound: deaths of the daemon                            *)

(* restart, shutdown and close are restart_workbench, close_workbench with *)
(* stopManager and without it.                                             *)
Kinds == {"open", "restart", "close", "shutdown", "force"}

ASSUME QueueAssumption ==
  /\ KindsOf \in [Commands -> SUBSET Kinds]
  /\ Patient \subseteq Commands /\ Cancelled \subseteq Commands /\ MaxCrashes \in Nat
  /\ "none" \notin Commands /\ IsFiniteSet(Commands)

VARIABLES
  inbox, processing, aside,  (* files: pending, claimed, taken by a cancel *)
  waits,        (* commands whose deferUntil has not come                  *)
  result,       (* result files                                            *)
  interrupts,   (* interrupt files                                         *)
  intent,       (* restart intents, under the id of the open they stand for*)
  active, stopping,  (* state.json: activeCommandId, runtimeState stopping *)
  dpc, cur, outcome, reopen,  (* the daemon: where it is, its command, the
                   result to write, the intent it claimed                  *)
  pc, kind, asked, victims, ref,  (* each submission: where it is, its kind,
                   its place in the order of requestedAt, the pending
                   commands left to supersede, the command at hand or
                   joined                                                  *)
  cancel,       (* cancel_lifecycle_command for each command               *)
  bench, busy,  (* the workbench; whether it has active work               *)
  crashes,
  older, again, (* history: for each submission, the commands queued before
                   it; commands that came back to the inbox                *)
  strays        (* history: commands that had two files when the daemon
                   died; those answered while a cancel held their file     *)

files     == <<inbox, processing, aside, waits>>
state     == <<active, stopping>>
daemon    == <<dpc, cur, outcome, reopen>>
submitted == <<pc, kind, asked, victims, ref, older>>
world     == <<bench, busy, crashes>>
history   == <<again, strays>>
vars == <<files, result, interrupts, intent, state, daemon, submitted, cancel,
          world, history>>

Opening == {"open", "restart"}
Closing == {"close", "shutdown", "force"}
Results == {"none", "ok", "failed", "blocked", "interrupted", "superseded",
            "refused", "cancelled", "reopens"}

Init ==
  /\ inbox = {} /\ processing = {} /\ aside = {} /\ waits = {}
  /\ result = [c \in Commands |-> "none"]
  /\ interrupts = {}
  /\ intent = [c \in Commands |-> "none"]
  /\ active = "none" /\ stopping = FALSE
  /\ dpc = "down" /\ cur = "none" /\ outcome = "none" /\ reopen = "none"
  /\ pc = [c \in Commands |-> "new"]
  /\ kind \in [Commands -> Kinds] /\ \A c \in Commands : kind[c] \in KindsOf[c]
  /\ asked = [c \in Commands |-> 0]
  /\ victims = [c \in Commands |-> {}]
  /\ ref = [c \in Commands |-> "none"]
  /\ cancel = [c \in Commands |-> "no"]
  /\ bench = "open" /\ busy \in BOOLEAN
  /\ crashes = 0 /\ again = {} /\ strays = {}
  /\ older = [c \in Commands |-> {}]

-----------------------------------------------------------------------------
(* submit_command                                                          *)

(* The state file belongs to a live manager from its first save_state on.  *)
Owned == dpc \notin {"down", "starting"}

ShuttingDown ==
  Owned /\ (stopping \/ (active # "none" /\ kind[active] = "shutdown"))

(* build_command and _shutdown_in_progress_state                           *)
Asks(c) ==
  /\ pc[c] = "new"
  /\ asked' = [asked EXCEPT ![c] = 1 + Cardinality({d \in Commands : asked[d] > 0})]
  /\ older' = [older EXCEPT ![c] = {d \in Commands : pc[d] = "sent"}]
  /\ pc' = [pc EXCEPT ![c] = IF ~ShuttingDown THEN "stock"
                             ELSE IF kind[c] = "open" THEN "promise" ELSE "refuse"]
  /\ UNCHANGED <<files, result, interrupts, intent, state, daemon, kind, victims,
                 ref, cancel, world, history>>

(* _complete_deferred_open_command                                         *)
Promises(c) ==
  /\ pc[c] = "promise"
  /\ intent' = [intent EXCEPT ![c] = "pending"]
  /\ result' = [result EXCEPT ![c] = "reopens"]
  /\ pc' = [pc EXCEPT ![c] = "told"]
  /\ UNCHANGED <<files, interrupts, state, daemon, kind, asked, victims, ref, older,
                 cancel, world, history>>

(* Fault: the answer has the command's kind for its status.                *)
RejectionNamesKind(c) == kind[c]

Rejection(c) == IF kind[c] = "shutdown" THEN "ok" ELSE "refused"

(* _complete_rejected_shutdown_command                                     *)
Refuses(c) ==
  /\ pc[c] = "refuse"
  /\ result' = [result EXCEPT ![c] = Rejection(c)]
  /\ pc' = [pc EXCEPT ![c] = "told"]
  /\ UNCHANGED <<files, interrupts, intent, state, daemon, kind, asked, victims, ref,
                 older, cancel, world, history>>

(* Fault: a close leaves pending restarts alone.                           *)
OverrulesOpensOnly(c, v) ==
  \/ kind[c] \in Closing /\ kind[v] = "open"
  \/ kind[c] = "force" /\ kind[v] \in {"close", "shutdown"}
  \/ kind[c] \in Opening /\ kind[v] \in {"close", "shutdown"} /\ asked[c] > asked[v]

(* What a request supersedes among the pending commands: a close all       *)
(* opens and restarts, an open or restart the closes asked for before it.  *)
Overrules(c, v) ==
  \/ kind[c] \in Closing /\ kind[v] \in Opening
  \/ kind[c] = "force" /\ kind[v] \in {"close", "shutdown"}
  \/ kind[c] \in Opening /\ kind[v] \in {"close", "shutdown"} /\ asked[c] > asked[v]

(* The listing of the inbox that the loop goes through                     *)
TakesStock(c) ==
  /\ pc[c] = "stock"
  /\ victims' = [victims EXCEPT ![c] = {v \in inbox : Overrules(c, v)}]
  /\ pc' = [pc EXCEPT ![c] = "supersede"]
  /\ UNCHANGED <<files, result, interrupts, intent, state, daemon, kind, asked, ref,
                 older, cancel, world, history>>

(* _load_command_file: a file that has moved reads as no command.          *)
ReadsVictim(c) ==
  /\ pc[c] = "supersede"
  /\ \E v \in victims[c] :
       IF v \in inbox
         THEN /\ pc' = [pc EXCEPT ![c] = "overrule"]
              /\ ref' = [ref EXCEPT ![c] = v] /\ UNCHANGED victims
         ELSE /\ victims' = [victims EXCEPT ![c] = @ \ {v}]
              /\ UNCHANGED <<pc, ref>>
  /\ UNCHANGED <<files, result, interrupts, intent, state, daemon, kind, asked, older,
                 cancel, world, history>>

(* complete_command on the pending file: the result, then the unlink       *)
WritesSuperseded(c) ==
  /\ pc[c] = "overrule"
  /\ result' = [result EXCEPT ![ref[c]] = "superseded"]
  /\ interrupts' = interrupts \ {ref[c]}
  /\ pc' = [pc EXCEPT ![c] = "drop"]
  /\ UNCHANGED <<files, intent, state, daemon, kind, asked, victims, ref, older, cancel,
                 world, history>>

DropsVictim(c) ==
  /\ pc[c] = "drop"
  /\ inbox' = inbox \ {ref[c]}
  /\ victims' = [victims EXCEPT ![c] = @ \ {ref[c]}]
  /\ ref' = [ref EXCEPT ![c] = "none"]
  /\ pc' = [pc EXCEPT ![c] = "supersede"]
  /\ UNCHANGED <<processing, aside, waits, result, interrupts, intent, state, daemon,
                 kind, asked, older, cancel, world, history>>

(* request_active_lifecycle_interrupt_for_close                            *)
Interrupts(c) ==
  /\ pc[c] = "supersede" /\ victims[c] = {}
  /\ interrupts' = IF kind[c] \in Closing /\ Owned /\ active # "none"
                      /\ kind[active] \in Opening
                     THEN interrupts \union {active} ELSE interrupts
  /\ pc' = [pc EXCEPT ![c] = "join"]
  /\ UNCHANGED <<files, result, intent, state, daemon, kind, asked, victims, ref, older,
                 cancel, world, history>>

(* The kinds of active, and of pending, commands a request may join        *)
JoinsActive(c) ==
  CASE kind[c] = "open"    -> Opening
    [] kind[c] = "restart" -> {"restart"}
    [] kind[c] = "force"   -> Closing
    [] OTHER               -> {"close", "shutdown"}

JoinsPending(c) ==
  CASE kind[c] = "force" -> {"force"}
    [] OTHER             -> JoinsActive(c)

(* _joinable_lifecycle_command                                             *)
Joinable(c) ==
  IF ~Owned THEN {}
  ELSE IF active # "none" /\ kind[active] \in JoinsActive(c) THEN {active}
  ELSE {d \in inbox : kind[d] \in JoinsPending(c)}

(* An open or restart that wants a browser joins none that has none.       *)
Joins(c) ==
  /\ pc[c] = "join"
  /\ \/ /\ Joinable(c) = {} \/ kind[c] \in Opening
        /\ pc' = [pc EXCEPT ![c] = "enqueue"] /\ UNCHANGED ref
     \/ /\ pc' = [pc EXCEPT ![c] = "joined"]
        /\ \E d \in Joinable(c) : ref' = [ref EXCEPT ![c] = d]
  /\ UNCHANGED <<files, result, interrupts, intent, state, daemon, kind, asked, victims,
                 older, cancel, world, history>>

Enqueues(c) ==
  /\ pc[c] = "enqueue"
  /\ inbox' = inbox \union {c}
  /\ pc' = [pc EXCEPT ![c] = "sent"]
  /\ UNCHANGED <<processing, aside, waits, result, interrupts, intent, state, daemon,
                 kind, asked, victims, ref, older, cancel, world, history>>

(* Fault: only a command that succeeded counts as answered.                *)
AnsweredOk(c) == result[c] = "ok"

(* _discard_recovered_command_with_existing_result                         *)
Answered(c) == result[c] # "none"

-----------------------------------------------------------------------------
(* cancel_lifecycle_command                                                *)

(* The rename that takes the command from the daemon                       *)
CancelTakes(c) ==
  /\ c \in Cancelled /\ cancel[c] = "no" /\ c \in inbox
  /\ inbox' = inbox \ {c} /\ aside' = aside \union {c}
  /\ cancel' = [cancel EXCEPT ![c] = "aside"]
  /\ UNCHANGED <<processing, waits, result, interrupts, intent, state, daemon, submitted,
                 world, history>>

(* No operation cancels an open: its file goes back.                       *)
CancelEnds(c) ==
  /\ cancel[c] = "aside"
  /\ aside' = aside \ {c}
  /\ cancel' = [cancel EXCEPT ![c] = "yes"]
  /\ IF kind[c] = "open"
       THEN /\ inbox' = inbox \union {c} /\ again' = again \union {c}
            /\ strays' = IF Answered(c) THEN strays \union {c} ELSE strays
            /\ UNCHANGED <<result, interrupts>>
       ELSE /\ result' = [result EXCEPT ![c] = "cancelled"]
            /\ interrupts' = interrupts \ {c}
            /\ UNCHANGED <<inbox, history>>
  /\ UNCHANGED <<processing, waits, intent, state, daemon, submitted, world>>

(* A claimed restart is asked to stop at its next safe point.              *)
CancelInterrupts(c) ==
  /\ c \in Cancelled /\ cancel[c] = "no"
  /\ c \in processing \ inbox /\ kind[c] = "restart"
  /\ interrupts' = interrupts \union {c}
  /\ cancel' = [cancel EXCEPT ![c] = "yes"]
  /\ UNCHANGED <<files, result, intent, state, daemon, submitted, world, history>>

-----------------------------------------------------------------------------
(* run_forever                                                             *)

Elsewhere == <<submitted, cancel>>

(* _claim_daemon_ownership                                                 *)
Starts ==
  /\ dpc = "down" /\ dpc' = "starting"
  /\ UNCHANGED <<files, result, interrupts, intent, state, cur, outcome, reopen,
                 Elsewhere, world, history>>

(* The first save_state: the rest of the file is what it was.              *)
SavesRunning ==
  /\ dpc = "starting" /\ dpc' = "recovering"
  /\ stopping' = FALSE
  /\ UNCHANGED <<files, result, interrupts, intent, active, cur, outcome, reopen,
                 Elsewhere, world, history>>

(* _complete_recovered_satisfied_close_workbench                           *)
Satisfied(c) == kind[c] \in Closing /\ bench = "closed"

(* _supersede_recovered_close_for_newer_open, _supersede_pending_close_..  *)
OverruledIn(c, pending) ==
  /\ kind[c] \in {"close", "shutdown"}
  /\ \E d \in pending \ {c} : kind[d] \in Opening /\ asked[d] > asked[c]

(* Fault: only the inbox is looked at after a start.                       *)
RecoversPendingOnly ==
  /\ dpc = "recovering" /\ dpc' = "tidying"
  /\ UNCHANGED <<files, result, interrupts, intent, state, cur, outcome, reopen,
                 Elsewhere, world, history>>

(* recover_processing_queue, the claimed commands                          *)
Recovers ==
  /\ dpc = "recovering" /\ dpc' = "tidying"
  /\ LET open      == {c \in processing : ~Answered(c)}
         satisfied == {c \in open : Satisfied(c)}
         overruled == {c \in open \ satisfied : OverruledIn(c, inbox \union processing)}
         back      == open \ (satisfied \union overruled)
     IN  /\ processing' = {} /\ inbox' = inbox \union back
         /\ result' = [c \in Commands |-> CASE c \in satisfied -> "ok"
                                            [] c \in overruled -> "superseded"
                                            [] OTHER           -> result[c]]
         /\ interrupts' = interrupts \ (satisfied \union overruled)
         /\ again' = again \union back
  /\ UNCHANGED <<aside, waits, intent, state, cur, outcome, reopen, Elsewhere, world,
                 strays>>

(* recover_processing_queue, the pending commands: closes overruled by a   *)
(* pending open, then those with a result and the closes already satisfied *)
Tidies ==
  /\ dpc = "tidying" /\ dpc' = "idle"
  /\ LET overruled == {c \in inbox : OverruledIn(c, inbox)}
         answered  == {c \in inbox \ overruled : Answered(c)}
         satisfied == {c \in inbox \ (overruled \union answered) : Satisfied(c)}
     IN  /\ inbox' = inbox \ (overruled \union answered \union satisfied)
         /\ result' = [c \in Commands |-> CASE c \in satisfied -> "ok"
                                            [] c \in overruled -> "superseded"
                                            [] OTHER           -> result[c]]
         /\ interrupts' = interrupts \ (satisfied \union overruled)
  /\ UNCHANGED <<processing, aside, waits, intent, state, cur, outcome, reopen, Elsewhere,
                 world, history>>

(* _reconcile_observation, which the idle loop calls now and then          *)
Reconciles ==
  /\ dpc = "idle" /\ active # "none" /\ result[active] # "none"
  /\ active' = "none"
  /\ UNCHANGED <<files, result, interrupts, intent, stopping, daemon, Elsewhere, world,
                 history>>

(* claim_next_command: within a second the names of the files are random.  *)
Claims(c) ==
  /\ dpc = "idle" /\ dpc' = "claimed"
  /\ c \in inbox \ waits
  /\ inbox' = inbox \ {c} /\ processing' = processing \union {c}
  /\ cur' = c
  /\ UNCHANGED <<aside, waits, result, interrupts, intent, state, outcome, reopen,
                 Elsewhere, world, history>>

(* clear_lifecycle_interrupt, and _handle_command up to the handler        *)
Begins ==
  /\ dpc = "claimed" /\ dpc' = "handling"
  /\ interrupts' = interrupts \ {cur}
  /\ active' = cur
  /\ UNCHANGED <<files, result, intent, stopping, cur, outcome, reopen, Elsewhere, world,
                 history>>

(* _finish_command                                                         *)
Finishes(o) ==
  /\ active' = "none" /\ outcome' = o /\ dpc' = "completing"

(* Electron owns the queue: the command is forwarded to it and no handler  *)
(* runs; a shutdown is not forwarded.                                      *)
HandsOff ==
  /\ dpc = "claimed"
  /\ \/ kind[cur] # "shutdown" /\ Finishes("ok") /\ bench' \in {"open", "closed"}
     \/ Finishes("failed") /\ UNCHANGED bench
  /\ interrupts' = interrupts \ {cur}
  /\ UNCHANGED <<files, result, intent, stopping, cur, reopen, Elsewhere, busy, crashes,
                 history>>

-----------------------------------------------------------------------------
(* The handlers                                                            *)

(* _finish_interrupted_lifecycle_command                                   *)
Yields == Finishes("interrupted") /\ interrupts' = interrupts \ {cur}

Handles == UNCHANGED <<result, intent, stopping, cur, reopen, Elsewhere, crashes, history>>

(* Nothing handles restart_workbench any more: it is an unknown command.   *)
FindsNoHandler ==
  /\ dpc = "handling" /\ kind[cur] = "restart"
  /\ Finishes("failed")
  /\ Handles /\ UNCHANGED <<files, interrupts, bench, busy>>

(* Up to open_workbench; the build before it may fail.                     *)
HandlesOpen ==
  /\ dpc = "handling" /\ kind[cur] = "open"
  /\ \/ Finishes("failed") /\ UNCHANGED <<interrupts, bench>>
     \/ cur \in interrupts /\ Yields /\ UNCHANGED bench
     \/ /\ cur \notin interrupts /\ dpc' = "verifying" /\ bench' = "open"
        /\ UNCHANGED <<active, outcome, interrupts>>
  /\ Handles /\ UNCHANGED <<files, busy>>

(* The workbench is open already, and its window takes the focus.          *)
FindsOpen ==
  /\ dpc = "handling" /\ kind[cur] = "open" /\ bench = "open"
  /\ Finishes("ok")
  /\ Handles /\ UNCHANGED <<files, interrupts, bench, busy>>

(* An open that finds the workbench open and publishes a new release of    *)
(* the frontend restarts it.                                               *)
MayRepublish == kind[cur] = "open" /\ bench = "open"

(* _block_lifecycle_command_if_active_work; the look for active work may   *)
(* itself fail.                                                            *)
Blocks ==
  /\ dpc = "handling" /\ (kind[cur] \in {"close", "shutdown"} \/ MayRepublish)
  /\ \/ Finishes("blocked")
     \/ busy /\ cur \in Patient /\ dpc' = "deferring" /\ UNCHANGED <<active, outcome>>
  /\ Handles /\ UNCHANGED <<files, interrupts, bench, busy>>

(* _perform_restart_workbench, up to the verified close                    *)
Republishes ==
  /\ dpc = "handling" /\ MayRepublish /\ ~busy
  /\ \/ Finishes("failed") /\ UNCHANGED bench
     \/ dpc' = "reopening" /\ bench' = "closed" /\ UNCHANGED <<active, outcome>>
  /\ Handles /\ UNCHANGED <<files, interrupts, busy>>

(* An open that is interrupted in its restart is answered as if it were not. *)
Reopens ==
  /\ dpc = "reopening"
  /\ IF cur \in interrupts
       THEN Finishes("ok") /\ UNCHANGED bench
       ELSE dpc' = "settling" /\ bench' = "open" /\ UNCHANGED <<active, outcome>>
  /\ Handles /\ UNCHANGED <<files, interrupts, busy>>

Settles ==
  /\ dpc = "settling"
  /\ \/ Finishes("ok") /\ UNCHANGED bench
     \/ cur \notin interrupts /\ Finishes("failed") /\ bench' \in {"open", "closed"}
  /\ Handles /\ UNCHANGED <<files, interrupts, busy>>

(* _wait_for_open_verification and what follows it                         *)
Verifies ==
  /\ dpc = "verifying"
  /\ \/ cur \in interrupts /\ Yields /\ UNCHANGED bench
     \/ /\ cur \notin interrupts /\ UNCHANGED interrupts
        /\ \/ Finishes("ok") /\ UNCHANGED bench
           \/ Finishes("failed") /\ bench' \in {"open", "closed"}
  /\ Handles /\ UNCHANGED <<files, busy>>

(* A forced close stops the active work first.                             *)
HandlesClose ==
  /\ dpc = "handling" /\ kind[cur] \in Closing
  /\ kind[cur] = "force" \/ ~busy
  /\ busy' = FALSE
  /\ \/ Finishes("failed") /\ UNCHANGED bench
     \/ /\ bench' = "closed"
        /\ IF kind[cur] = "shutdown"
             THEN dpc' = "closed" /\ UNCHANGED <<active, outcome>>
             ELSE Finishes("ok")
  /\ Handles /\ UNCHANGED <<files, interrupts>>

(* _claim_workbench_reopen_intent                                          *)
ClaimsReopen ==
  /\ dpc = "closed" /\ dpc' = "stopping"
  /\ LET pending == {i \in Commands : intent[i] = "pending"}
     IN  IF pending = {} THEN reopen' = "none" /\ UNCHANGED intent
         ELSE \E i \in pending : reopen' = i /\ intent' = [intent EXCEPT ![i] = "claimed"]
  /\ UNCHANGED <<files, result, interrupts, state, cur, outcome, Elsewhere, world, history>>

(* _finish_command of a shutdown                                           *)
FinishesShutdown ==
  /\ dpc = "stopping"
  /\ active' = "none" /\ outcome' = "ok"
  /\ stopping' = (reopen = "none")
  /\ dpc' = IF reopen = "none" THEN "rejecting" ELSE "completing"
  /\ UNCHANGED <<files, result, interrupts, intent, cur, reopen, Elsewhere, world, history>>

-----------------------------------------------------------------------------
(* _process_claimed_command, after the handler                             *)

(* Fault: the claimed file is unlinked before its copy is written.         *)
UnlinksThenDefers ==
  /\ dpc = "deferring" /\ dpc' = "deferred"
  /\ processing' = processing \ {cur}
  /\ UNCHANGED <<inbox, waits, aside, result, interrupts, intent, state, cur, outcome,
                 reopen, Elsewhere, world, history>>

(* defer_processing_command_for_active_work writes, then unlinks.          *)
Defers ==
  /\ dpc = "deferring" /\ dpc' = "deferred"
  /\ inbox' = inbox \union {cur} /\ waits' = waits \union {cur}
  /\ again' = again \union {cur}
  /\ UNCHANGED <<processing, aside, result, interrupts, intent, state, cur, outcome, reopen,
                 Elsewhere, world, strays>>

UnlinksDeferred ==
  /\ dpc = "deferred" /\ dpc' = "forgetting"
  /\ processing' = processing \ {cur}
  /\ UNCHANGED <<inbox, aside, waits, result, interrupts, intent, state, cur, outcome,
                 reopen, Elsewhere, world, history>>

(* _clear_active_command                                                   *)
Forgets ==
  /\ dpc = "forgetting" /\ dpc' = "idle"
  /\ active' = "none" /\ cur' = "none"
  /\ UNCHANGED <<files, result, interrupts, intent, stopping, outcome, reopen, Elsewhere,
                 world, history>>

(* reject_pending_commands_for_shutdown                                    *)
Rejects ==
  /\ dpc = "rejecting" /\ dpc' = "clearing"
  /\ result' = [c \in Commands |-> IF c \in inbox THEN Rejection(c) ELSE result[c]]
  /\ UNCHANGED <<files, interrupts, intent, state, cur, outcome, reopen, Elsewhere, world,
                 history>>

(* Its unlinks; what was queued since its listing stays.                   *)
ClearsInbox ==
  /\ dpc = "clearing" /\ dpc' = "completing"
  /\ inbox' = {c \in inbox : result[c] = "none"}
  /\ UNCHANGED <<processing, aside, waits, result, interrupts, intent, state, cur, outcome,
                 reopen, Elsewhere, world, history>>

(* complete_command                                                        *)
Completes ==
  /\ dpc = "completing" /\ dpc' = "completed"
  /\ result' = [result EXCEPT ![cur] = outcome]
  /\ interrupts' = interrupts \ {cur}
  /\ UNCHANGED <<files, intent, state, cur, outcome, reopen, Elsewhere, world, history>>

UnlinksClaimed ==
  /\ dpc = "completed"
  /\ processing' = processing \ {cur}
  /\ cur' = "none" /\ outcome' = "none"
  /\ dpc' = IF reopen # "none" THEN "deferredOpen" ELSE IF stopping THEN "leaving" ELSE "idle"
  /\ UNCHANGED <<inbox, aside, waits, result, interrupts, intent, state, reopen, Elsewhere,
                 world, history>>

(* _run_deferred_workbench_open                                            *)
OpensDeferred ==
  /\ dpc = "deferredOpen" /\ dpc' = "idle"
  /\ bench' = "open"
  /\ \E s \in {"completed", "failed"} : intent' = [intent EXCEPT ![reopen] = s]
  /\ reopen' = "none" /\ active' = "none"
  /\ UNCHANGED <<files, result, interrupts, stopping, cur, outcome, Elsewhere, busy, crashes,
                 history>>

(* _finalize_daemon_stopped_state, clear_pid and the exit                  *)
Leaves ==
  /\ dpc = "leaving" /\ dpc' = "down"
  /\ active' = "none" /\ stopping' = FALSE /\ bench' = "closed"
  /\ UNCHANGED <<files, result, interrupts, intent, cur, outcome, reopen, Elsewhere, busy,
                 crashes, history>>

-----------------------------------------------------------------------------
(* The daemon is killed: its files stay.                                   *)
Dies ==
  /\ dpc # "down" /\ crashes < MaxCrashes
  /\ dpc' = "down" /\ cur' = "none" /\ outcome' = "none" /\ reopen' = "none"
  /\ crashes' = crashes + 1
  /\ strays' = strays \union (processing \intersect (inbox \union aside))
  /\ UNCHANGED <<files, result, interrupts, intent, state, Elsewhere, bench, busy, again>>

(* deferUntil comes.                                                       *)
ComesDue(c) ==
  /\ c \in waits /\ waits' = waits \ {c}
  /\ UNCHANGED <<inbox, processing, aside, result, interrupts, intent, state, daemon,
                 Elsewhere, world, history>>

WorkEnds ==
  /\ busy /\ busy' = FALSE
  /\ UNCHANGED <<files, result, interrupts, intent, state, daemon, Elsewhere, bench, crashes,
                 history>>

SubmissionStep(c) ==
  \/ Promises(c) \/ Refuses(c) \/ TakesStock(c) \/ ReadsVictim(c) \/ WritesSuperseded(c)
  \/ DropsVictim(c) \/ Interrupts(c) \/ Joins(c) \/ Enqueues(c)

DaemonStep ==
  \/ SavesRunning \/ Recovers \/ Tidies \/ (\E c \in Commands : Claims(c)) \/ Begins
  \/ HandsOff \/ FindsNoHandler \/ HandlesOpen \/ FindsOpen \/ Blocks \/ Republishes
  \/ Reopens \/ Settles \/ Verifies \/ HandlesClose
  \/ ClaimsReopen \/ FinishesShutdown \/ Defers \/ UnlinksDeferred \/ Forgets \/ Rejects
  \/ ClearsInbox \/ Completes \/ UnlinksClaimed \/ OpensDeferred \/ Leaves

Next ==
  \/ \E c \in Commands : \/ Asks(c) \/ SubmissionStep(c)
                         \/ CancelTakes(c) \/ CancelEnds(c) \/ CancelInterrupts(c)
                         \/ ComesDue(c)
  \/ Starts \/ DaemonStep \/ Reconciles \/ Dies \/ WorkEnds

Spec == Init /\ [][Next]_vars

(* Processes run, the watchdog starts the daemon again, time passes and    *)
(* work ends.  Nothing is assumed of users and of crashes.                 *)
FairSpec ==
  /\ Spec
  /\ WF_vars(DaemonStep) /\ WF_vars(Starts) /\ WF_vars(WorkEnds)
  /\ \A c \in Commands : WF_vars(SubmissionStep(c)) /\ WF_vars(CancelEnds(c))
                         /\ WF_vars(ComesDue(c))

-----------------------------------------------------------------------------
(* Properties                                                              *)

TypeOK ==
  /\ inbox \subseteq Commands /\ processing \subseteq Commands
  /\ aside \subseteq Commands /\ waits \subseteq Commands
  /\ result \in [Commands -> Results]
  /\ interrupts \subseteq Commands
  /\ intent \in [Commands -> {"none", "pending", "claimed", "completed", "failed"}]
  /\ active \in Commands \union {"none"} /\ stopping \in BOOLEAN
  /\ dpc \in {"down", "starting", "recovering", "tidying", "idle", "claimed", "handling",
              "reopening", "settling", "verifying", "closed", "stopping", "deferring", "deferred",
              "forgetting", "rejecting", "clearing", "completing", "completed",
              "deferredOpen", "leaving"}
  /\ cur \in Commands \union {"none"} /\ outcome \in Results
  /\ reopen \in Commands \union {"none"}
  /\ pc \in [Commands -> {"new", "promise", "refuse", "stock", "supersede", "overrule",
                          "drop", "join", "enqueue", "sent", "joined", "told"}]
  /\ kind \in [Commands -> Kinds]
  /\ asked \in [Commands -> Nat]
  /\ victims \in [Commands -> SUBSET Commands]
  /\ ref \in [Commands -> Commands \union {"none"}]
  /\ cancel \in [Commands -> {"no", "aside", "yes"}]
  /\ bench \in {"open", "closed"} /\ busy \in BOOLEAN
  /\ crashes \in Nat
  /\ older \in [Commands -> SUBSET Commands] /\ again \subseteq Commands
  /\ strays \subseteq Commands

(* The command a client waits for: its own, or the one it joined.          *)
Awaited(c) == IF pc[c] = "joined" THEN ref[c] ELSE c

(* A command that somebody waits for is never lost, be it the client's own *)
(* or one it joined: until it has a result it is pending, claimed or in    *)
(* the hands of a cancel, whoever dies wherever                            *)
(* (command_queue.py:397, :212, :823).                                     *)
NothingLost ==
  \A c \in Commands :
    pc[c] \in {"sent", "joined"} =>
      \/ Awaited(c) \in inbox \union processing \union aside
      \/ result[Awaited(c)] # "none"

(* What has been answered is not done again after a restart: whatever the  *)
(* recovery finds claimed or pending, the daemon claims no command that    *)
(* has a result, but for those whose superseding is still under way, those *)
(* that had a second file when it died between the two steps of a deferral *)
(* and opens that a shutdown answered while a cancel held their file       *)
(* (command_queue.py:223, :252, :652).                                     *)
AnsweredIsNotRedone ==
  [][\A c \in Commands :
       Claims(c) => result[c] \in {"none", "superseded"} \/ c \in strays]_vars

(* Once a close is queued no older open or restart starts, unless it came  *)
(* back to the inbox: what was pending has been superseded, what was       *)
(* claimed is past its start (command_queue.py:900).                       *)
QueuedCloseComesLast ==
  [][\A c, d \in Commands :
       Claims(c) /\ c \notin again /\ kind[c] \in Opening /\ kind[d] \in Closing
         /\ c \in older[d] => pc[d] \notin {"sent", "joined"}]_vars

(* Every client hears: its own command gets a result, or the one it joined *)
(* (wait_for_result).                                                      *)
Heard(c) == result[Awaited(c)] # "none"

EveryCommandAnswered ==
  \A c \in Commands : pc[c] \in {"sent", "joined"} ~> Heard(c)
=============================================================================
