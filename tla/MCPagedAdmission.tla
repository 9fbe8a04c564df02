--------------------------- MODULE MCPagedAdmission ---------------------------
(* Instances of PagedAdmission for TLC. *)
EXTENDS PagedAdmission, TLC

CONSTANTS s1, s2, s3

MCSessions == {s1, s2, s3}
MCMixed    == s1 :> "zero" @@ s2 :> "timed" @@ s3 :> "unlimited"
===============================================================================
