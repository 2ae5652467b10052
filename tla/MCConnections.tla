---------------------------- MODULE MCConnections ----------------------------
(* Instances of Connections for TLC: what the clients ask to be called. *)
EXTENDS Connections

CONSTANTS a, b, c  \* connections

MCRequests == [k \in Conns |-> IF k = c THEN 2 ELSE 0]
MCTwoWantTheSame == [k \in Conns |-> IF k = c THEN 0 ELSE 2]
===============================================================================
