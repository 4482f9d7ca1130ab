----------------------------- MODULE MCTlsProxy -----------------------------
(***************************************************************************)
(* TlsProxy with a request of a head and two more pieces, and a response   *)
(* of four.                                                                *)
(***************************************************************************)
EXTENDS TlsProxy

MCPieces == [client |-> 3, upstream |-> 4]
===============================================================================
