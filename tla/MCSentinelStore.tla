--------------------------- MODULE MCSentinelStore ---------------------------
(***************************************************************************)
(* SentinelStore with up to three machines: two on one account, one on     *)
(* another.                                                                *)
(***************************************************************************)
EXTENDS SentinelStore, TLC

CONSTANTS m1, m2, m3, alice, bob

\* m1 and m2 belong to the same user.
MCAccountOf == [m \in Machines |-> IF m = m3 THEN bob ELSE alice]
===============================================================================
