-------------------------------- MODULE KVStore --------------------------------
(***************************************************************************)
(* What an attention cache promises to an inference session, whatever way  *)
(* it stores keys and values: a slot is a batch of rows of tokens.  A step *)
(* first permutes the rows (beam search), then drops what lies past the    *)
(* prefix it starts from, then appends the new tokens.  A slot may also be *)
(* lost, when the server runs out of memory.                               *)
(***************************************************************************)
EXTENDS Integers, Sequences, FiniteSets

CONSTANTS
  Slots,       \* cache slots, one served block of one session each
  Batch,       \* number of rows of a slot
  Tokens,      \* keys and values of one position
  MaxLength    \* bound on the length of a row

VARIABLES
  phase,   \* "new", "open", "lost" or "freed"
  kv       \* the rows of each open slot

vars == <<phase, kv>>

Rows == 1 .. Batch
Hypos == [Rows -> Rows]

\* After a step: cache_tensor[hypo_ids] up to the prefix, then new tokens.
SteppedFrom(old, rows, hypo, prefix) ==
  \A i \in Rows :
    /\ rows[i] \in UNION {[1 .. n -> Tokens] : n \in (prefix + 1) .. MaxLength}
    /\ Len(rows[i]) = Len(rows[1])
    /\ SubSeq(rows[i], 1, prefix) = SubSeq(old[hypo[i]], 1, prefix)

Register(s) ==
  /\ phase[s] = "new"
  /\ phase' = [phase EXCEPT ![s] = "open"]
  /\ kv' = [kv EXCEPT ![s] = [i \in Rows |-> << >>]]

\* All rows of a slot have the same length.
Step(s) ==
  /\ phase[s] = "open"
  /\ UNCHANGED phase
  /\ \E hypo \in Hypos, prefix \in 0 .. Len(kv[s][1]) :
       SteppedFrom(kv[s], kv'[s], hypo, prefix)
  /\ kv' = [kv EXCEPT ![s] = kv'[s]]

Lose(s) ==
  /\ phase[s] = "open"
  /\ phase' = [phase EXCEPT ![s] = "lost"]
  /\ kv' = [kv EXCEPT ![s] = << >>]

Free(s) ==
  /\ phase[s] \in {"open", "lost"}
  /\ phase' = [phase EXCEPT ![s] = "freed"]
  /\ kv' = [kv EXCEPT ![s] = << >>]

Init ==
  /\ phase = [s \in Slots |-> "new"]
  /\ kv = [s \in Slots |-> << >>]

Next == \E s \in Slots : Register(s) \/ Step(s) \/ Lose(s) \/ Free(s)

Spec == Init /\ [][Next]_vars
================================================================================
