--------------------------- MODULE MCModernFactory ---------------------------
(***************************************************************************)
(* ModernFactory on a small instance: sessions are the connections and the *)
(* one session that may have been started at boot.                         *)
(***************************************************************************)
EXTENDS ModernFactory, TLC

\* Connections are interchangeable.  (Accounts are not: one is configured.)
\* Used only where no liveness property is checked.
Symmetry == Permutations(Conns)
===============================================================================
