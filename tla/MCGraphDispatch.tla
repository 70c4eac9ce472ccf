-------------------------- MODULE MCGraphDispatch --------------------------
(***************************************************************************)
(* Workers, owners and rows for model checking GraphDispatch: one node     *)
(* attempt, its action and the action a repair adds for it.                *)
(***************************************************************************)
EXTENDS GraphDispatch

(* Threads of the pump, which runtime_factory.py:553 gives one owner, and  *)
(* a worker that has an owner of its own.                                  *)
PoolAndOther == [w \in Workers |-> IF w = "other" THEN "other" ELSE "graph-worker"]

OneNode   == [a \in Actions |-> "n"]
OneRepair == [n \in Nodes |-> "repair"]
=============================================================================
