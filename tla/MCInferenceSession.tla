-------------------------- MODULE MCInferenceSession --------------------------
(* Instances of InferenceSession for TLC. *)
EXTENDS InferenceSession, TLC

CONSTANTS s1, s2

MCServers == {s1, s2}
MCReplicas == s1 :> {0, 1} @@ s2 :> {0, 1}
===============================================================================
