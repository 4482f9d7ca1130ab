------------------------------- MODULE MCSetup -------------------------------
(***************************************************************************)
(* Setup with a binary of two tables, each with Valve's Public key.  The   *)
(* gateway had two addresses: one that fits wherever Valve's stood, one    *)
(* that is too long for the LAN fallback.                                  *)
(***************************************************************************)
EXTENDS Setup

CONSTANTS valve, lan, short, long, public, beta

MCPristine == <<valve, lan, public, beta, valve, public>>
MCChars == [a \in {valve, lan, short, long} |->
              CASE a = valve -> 13 [] a = lan -> 11 [] a = short -> 10 [] a = long -> 13]
MCBudgets == {[client |-> 5, hosts |-> 0, certs |-> 0],
              [client |-> 0, hosts |-> 5, certs |-> 0],
              [client |-> 1, hosts |-> 1, certs |-> 3]}
===============================================================================
