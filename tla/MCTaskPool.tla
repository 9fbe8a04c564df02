------------------------------ MODULE MCTaskPool ------------------------------
(* Instances of TaskPool for TLC. *)
EXTENDS TaskPool, TLC

CONSTANTS i1, f1, b1

MCRequests == {i1, f1, b1}
MCKind == i1 :> "inference" @@ f1 :> "forward" @@ b1 :> "backward"
MCSpan == i1 :> 2 @@ f1 :> 1 @@ b1 :> 2
MCQuirks == i1 :> {"none", "long", "size"}
            @@ f1 :> {"none", "uids", "adapter", "compression"} @@ b1 :> {"none"}
===============================================================================
