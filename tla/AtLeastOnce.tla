---------------------------- MODULE AtLeastOnce -----------------------------
(***************************************************************************)
(* What an outbox promises for each message sent through it: it is         *)
(* confirmed only after it was delivered, or is given up, and neither is   *)
(* taken back.  A delivery may come again, and may come late.              *)
(***************************************************************************)
CONSTANT Messages

VARIABLES sent, delivered, confirmed, lost

vars == <<sent, delivered, confirmed, lost>>

Init == sent = {} /\ delivered = {} /\ confirmed = {} /\ lost = {}

Open == sent \ (confirmed \union lost)

Send(m) ==
  /\ m \notin sent /\ sent' = sent \union {m}
  /\ UNCHANGED <<delivered, confirmed, lost>>

Deliver(m) ==
  /\ m \in sent /\ delivered' = delivered \union {m}
  /\ UNCHANGED <<sent, confirmed, lost>>

Confirm(m) ==
  /\ m \in Open \intersect delivered
  /\ confirmed' = confirmed \union {m}
  /\ UNCHANGED <<sent, delivered, lost>>

(* One scan may give up several.                                           *)
GiveUp(S) ==
  /\ lost' = lost \union S
  /\ UNCHANGED <<sent, delivered, confirmed>>

Next ==
  \/ \E m \in Messages : Send(m) \/ Deliver(m) \/ Confirm(m)
  \/ \E S \in SUBSET Open : GiveUp(S)

Spec == Init /\ [][Next]_vars
=============================================================================
