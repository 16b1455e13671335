------------------------------ MODULE MCUnits ------------------------------
(***************************************************************************)
(* An ALU, a pipelined multiplier and a divider.                           *)
(***************************************************************************)
EXTENDS Units

MCLatency == [u \in Units |-> CASE u = "alu" -> 1 [] u = "mul" -> 3 [] OTHER -> 2]
MCPipelined == [u \in Units |-> u # "div"]
=============================================================================
