--------------------------- MODULE MCCommandQueue ---------------------------
(***************************************************************************)
(* Commands for model checking CommandQueue: one that opens or restarts    *)
(* and one of any kind.                                                    *)
(***************************************************************************)
EXTENDS CommandQueue

ByName ==
  [c \in Commands |-> IF c = "up" THEN {"open", "restart"} ELSE Kinds]
=============================================================================
