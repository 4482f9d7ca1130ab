------------------------------ MODULE MCGateway ------------------------------
(***************************************************************************)
(* Gateway with two connections.  They are interchangeable, so it is enough *)
(* to look at the runs in which c1 is accepted first: a constraint instead  *)
(* of a symmetry set, which TLC could not combine with liveness.            *)
(***************************************************************************)
EXTENDS Gateway

CONSTANTS c1, c2

AcceptedInOrder == link[c1] = "none" => link[c2] = "none"
===============================================================================
