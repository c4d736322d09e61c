-------------------------- MODULE MCManagerAutonomy --------------------------
(***************************************************************************)
(* Bounds for TLC: the operator may do more where one process runs it all. *)
(***************************************************************************)
EXTENDS ManagerAutonomy

MCMaxActs == [d \in Deployments |-> IF d = "one" THEN 2 ELSE 1]
=============================================================================
