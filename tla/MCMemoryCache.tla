---------------------------- MODULE MCMemoryCache ----------------------------
(* Instances of MemoryCache for TLC. *)
EXTENDS MemoryCache, TLC

CONSTANTS r1, r2, r3, p1, p2

MCRequests  == {r1, r2, r3}
MCProcOne   == [r \in MCRequests |-> p1]
MCProcTwo   == r1 :> p1 @@ r2 :> p2 @@ r3 :> p1
MCSize      == r1 :> 2 @@ r2 :> 2 @@ r3 :> 1
MCTensors   == r1 :> 2 @@ r2 :> 1 @@ r3 :> 1
MCMixed     == r1 :> "timed" @@ r2 :> "unlimited" @@ r3 :> "zero"
MCUnlimited == [r \in MCRequests |-> "unlimited"]
==============================================================================
