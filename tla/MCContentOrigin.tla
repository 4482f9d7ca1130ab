--------------------------- MODULE MCContentOrigin ---------------------------
(***************************************************************************)
(* ContentOrigin with two connections and two depots of one app, the second *)
(* of which may be missing until it is preloaded.                           *)
(***************************************************************************)
EXTENDS ContentOrigin

MCDepots  == {[app |-> 1, id |-> 1], [app |-> 1, id |-> 2]}
MCPreload == <<[app |-> 1, id |-> 1], [app |-> 1, id |-> 2]>>
===============================================================================
