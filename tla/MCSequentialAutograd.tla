-------------------------- MODULE MCSequentialAutograd --------------------------
(* Two blocks; one server holds both, another one of them, perhaps the other after it moved. *)
EXTENDS SequentialAutograd

CONSTANTS a, b

MCPlaces == [p \in Servers |-> IF p = a THEN {<<1, 2>>} ELSE {<<1, 1>>, <<2, 2>>}]
================================================================================
