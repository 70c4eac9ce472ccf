-------------------------- MODULE MCTurnScheduler --------------------------
(***************************************************************************)
(* Turns for model checking TurnScheduler.                                 *)
(***************************************************************************)
EXTENDS TurnScheduler

(* A turn's name says what it is and which session it belongs to.          *)
KindByName ==
  [t \in Turns |-> CASE t \in {"user1", "again1", "user2"} -> "user"
                     [] t = "plugin1"              -> "proactive"
                     [] t \in {"room2", "room3"}   -> "session"
                     [] OTHER                      -> "agent"]

SessionByName ==
  [t \in Turns |-> CASE t \in {"user2", "room2"} -> "s2" [] t = "room3" -> "s3" [] OTHER -> "s1"]

OneAgent == [s \in Sessions |-> "a"]
=============================================================================
