------------------------------- MODULE MCAgent -------------------------------
(* DefenseAgent on three threats against one pool: the instances differ in     *)
(* which of them are known and gated.                                          *)
EXTENDS DefenseAgent

OnePool == [e \in Events |-> "pool"]
=============================================================================
