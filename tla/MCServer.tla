------------------------------ MODULE MCServer ------------------------------
(* An instance of Server for TLC: two threads. *)
EXTENDS Server, TLC

CONSTANTS t1, t2, a1, a2, p1, p2, c1, c2

MCArg == t1 :> a1 @@ t2 :> a2
MCPar == t1 :> p1 @@ t2 :> p2
MCCon == t1 :> c1 @@ t2 :> c2
=============================================================================
