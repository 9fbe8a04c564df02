-------------------------------- MODULE TaskPool --------------------------------
(***************************************************************************)
(* How requests reach the device: handlers check a request (rpc_forward    *)
(* and its siblings in server/handler.py), run it as a chain of tasks      *)
(* (server/block_functions.py), submit each to the prioritized pool of its *)
(* function and block (server/task_pool.py), and the runtime, one thread,  *)
(* takes the first task of the ready pool of least priority.               *)
(* request_timeout may end a request wherever its coroutine awaits, while  *)
(* its task goes on: submit_task disables the cancellation of futures.     *)
(*                                                                         *)
(* Hidden states are abstracted to the blocks they have passed, gradients  *)
(* to the blocks they have passed with the input each was computed from.   *)
(* Timestamps, which order tasks and pools of equal priority, are left     *)
(* out: such tasks and pools come in any order (the timestamp a pool       *)
(* publishes may be that of a task long done, so that no order is certain).*)
(***************************************************************************)
EXTENDS Integers, Sequences, FiniteSets

CONSTANTS
  Requests,   \* calls of rpc_inference (one step), rpc_forward and rpc_backward
  Kind,       \* "inference", "forward" or "backward"
  NumBlocks,  \* blocks the server holds
  Span,       \* each request asks for blocks 1 .. Span[r]
  Streamed,   \* requests that come, and are answered, in several messages
  Quirks,     \* what may be particular about each request
  None        \* nothing

ASSUME TaskPoolAssumption ==
  /\ IsFiniteSet(Requests)
  /\ Kind \in [Requests -> {"inference", "forward", "backward"}]
  /\ NumBlocks \in Nat \ {0}
  /\ Span \in [Requests -> 1 .. NumBlocks]
  /\ Streamed \subseteq {r \in Requests : Kind[r] # "inference"}
  /\ Quirks \in [Requests -> SUBSET {"none", "uids", "adapter", "long", "size", "compression"}]

VARIABLES
  quirk,       \* what is particular about each request: blocks or an adapter that the
               \* server does not have, more tokens than one task of all blocks may
               \* have, or than max_batch_size, or its output_compression
  pc,          \* where the handler of each request is
  inputs,      \* hidden states before each block the request has reached
  grads,       \* gradients computed so far, last block first
  task,        \* the task each request waits for
  submitted,   \* submitted_tasks of each pool
  ordered,     \* _ordered_tasks of each pool
  tokens,      \* messages in batch_receiver of each pool
  priority,    \* the priority each pool publishes
  dispatched,  \* _dispatched_tasks of each pool
  runtime,     \* what the runtime does: [at, pool, task]
  outputs      \* outcomes the runtime's sender threads have yet to send

handlerVars == <<inputs, grads, task>>
poolVars == <<submitted, ordered, tokens, priority, dispatched>>
vars == <<quirk, pc, handlerVars, poolVars, runtime, outputs>>

Blocks == 1 .. NumBlocks
Pools == {<<"inference", 0>>} \cup ({"forward", "backward"} \X Blocks)
Infinity == 3

--------------------------------------------------------------------------------
(* Helpers *)

\* DummyTaskPrioritizer.prioritize
Prioritize(function) == IF function = "inference" THEN 1 ELSE 2

Key(t) == Prioritize(t.pool[1])

\* The next task of a request: iterate_rpc_inference runs all blocks in one task of the
\* pool that merge_inference_pools_inplace has given to every backend, or, when the step
\* has too many tokens for that, one block after another, each in a task of the same
\* pool; run_rpc_forward one block after another; run_rpc_backward all blocks but the
\* last forward, then every block backward from the last on.
Merged(r) == Kind[r] = "inference" /\ quirk[r] # "long"

LastForward(r) == IF Kind[r] = "backward" THEN Span[r] - 1 ELSE Span[r]

NextPool(r) ==
  IF Kind[r] = "inference" THEN <<"inference", 0>>
  ELSE IF Len(inputs[r]) <= LastForward(r) THEN <<"forward", Len(inputs[r])>>
  ELSE <<"backward", Span[r] - Len(grads[r])>>

\* inference_infos: the blocks that an inference task runs.
InferenceInfos(r) ==
  IF Kind[r] # "inference" THEN << >>
  ELSE IF Merged(r) THEN [b \in 1 .. Span[r] |-> b] ELSE <<Len(inputs[r])>>

\* Mutant of TaskInput: gradients are computed from the latest hidden states.
TaskInputLatest(r, pool) == inputs[r][Len(inputs[r])]

\* Forward tasks get the latest hidden states, backward tasks those their block had.
TaskInput(r, pool) ==
  inputs[r][IF pool[1] = "backward" THEN pool[2] ELSE Len(inputs[r])]

\* process_func of a pool; that of inference is _MergedInferenceStep.
Output(t) ==
  CASE t.pool[1] = "inference" -> t.input \o t.infos
    [] t.pool[1] = "forward"   -> Append(t.input, t.pool[2])
    [] t.pool[1] = "backward"  -> [block |-> t.pool[2], input |-> t.input]

Finished(r) ==
  CASE Kind[r] = "backward" -> Len(grads[r]) = Span[r]
    [] Merged(r) -> Len(inputs[r]) = 2
    [] Kind[r] # "backward" /\ ~Merged(r) -> Len(inputs[r]) = Span[r] + 1

Goto(r, from, to) == pc[r] = from /\ pc' = [pc EXCEPT ![r] = to]

--------------------------------------------------------------------------------
(* Handlers: rpc_forward, rpc_backward and their streaming variants.  A step of
   rpc_inference is past its checks, which HandlerSessions has, when it gets here. *)

\* _gather_inputs: all messages have come.
GatherInputs(r) ==
  /\ Goto(r, "gathering", "parsing")
  /\ UNCHANGED <<handlerVars, poolVars, runtime, outputs>>

\* _check_uids and _get_active_adapter
CheckUids(r) == quirk[r] # "uids"
GetActiveAdapter(r) == quirk[r] # "adapter"

ParseRequest(r) ==
  /\ Goto(r, "parsing", IF CheckUids(r) /\ GetActiveAdapter(r) THEN "ready" ELSE "failed")
  /\ UNCHANGED <<handlerVars, poolVars, runtime, outputs>>

RpcForward(r) == Kind[r] = "forward" /\ ParseRequest(r)
RpcBackward(r) == Kind[r] = "backward" /\ ParseRequest(r)

--------------------------------------------------------------------------------
(* submit_task and the chains of block_functions *)

\* The request is answered, or its next task is made and put into the queue; a
\* task that is too large fails at once.
Submit(r) ==
  LET pool == NextPool(r)
      new  == [req |-> r, pool |-> pool, infos |-> InferenceInfos(r), input |-> TaskInput(r, pool)]
  IN  /\ pc[r] = "ready"
      /\ ~Finished(r)
      /\ task' = [task EXCEPT ![r] = new]
      /\ IF quirk[r] = "size"
         THEN /\ pc' = [pc EXCEPT ![r] = "failed"]
              /\ UNCHANGED submitted
         ELSE /\ pc' = [pc EXCEPT ![r] = "put"]
              /\ submitted' = [submitted EXCEPT ![pool] = Append(@, new)]
      /\ UNCHANGED <<inputs, grads, ordered, tokens, priority, dispatched, runtime, outputs>>

\* _serialize_outputs and _serialize_grads check the compression that the client asks for.
SerializeOutputs(r) == quirk[r] # "compression"
SerializeGrads(r) == quirk[r] # "compression"

\* The result becomes a message, or the first of several.
Answer(r) ==
  /\ Finished(r)
  /\ \/ /\ Kind[r] = "inference"
        /\ Goto(r, "ready", "done")
     \/ /\ Kind[r] # "inference"
        /\ Goto(r, "ready", IF ~(IF Kind[r] = "forward" THEN SerializeOutputs(r) ELSE SerializeGrads(r))
                            THEN "failed" ELSE IF r \in Streamed THEN "answering" ELSE "done")
  /\ UNCHANGED <<handlerVars, poolVars, runtime, outputs>>

SendParts(r) ==
  /\ Goto(r, "answering", "done")
  /\ UNCHANGED <<handlerVars, poolVars, runtime, outputs>>

\* timeout(self.request_timeout), at an await.  The pools are not told.
RequestTimeout(r) ==
  /\ Kind[r] # "inference"
  /\ pc[r] \in {"gathering", "waiting", "answering"}
  /\ pc' = [pc EXCEPT ![r] = "failed"]
  /\ UNCHANGED <<handlerVars, poolVars, runtime, outputs>>

\* batch_sender.send(None)
SendToken(r) ==
  /\ Goto(r, "put", "sent")
  /\ tokens' = [tokens EXCEPT ![task[r].pool] = @ + 1]
  /\ UNCHANGED <<handlerVars, submitted, ordered, priority, dispatched, runtime, outputs>>

\* The published priority is lowered if need be: a test and an assignment, with
\* no lock.
ComparePriority(r) ==
  /\ Goto(r, "sent", IF Key(task[r]) < priority[task[r].pool] THEN "publishing" ELSE "waiting")
  /\ UNCHANGED <<handlerVars, poolVars, runtime, outputs>>

PublishPriority(r) ==
  /\ Goto(r, "publishing", "waiting")
  /\ priority' = [priority EXCEPT ![task[r].pool] = Key(task[r])]
  /\ UNCHANGED <<handlerVars, submitted, ordered, tokens, dispatched, runtime, outputs>>

--------------------------------------------------------------------------------
(* The pool's thread and the runtime *)

\* run: the task at the head of the queue is put into the priority queue.
Order(pool) ==
  /\ submitted[pool] # << >>
  /\ submitted' = [submitted EXCEPT ![pool] = Tail(@)]
  /\ ordered' = [ordered EXCEPT ![pool] = @ \cup {Head(submitted[pool])}]
  /\ UNCHANGED <<pc, handlerVars, tokens, priority, dispatched, runtime, outputs>>

\* External (hivemind Runtime): the ready pool of least priority is chosen.
ChoosePool(pool) ==
  /\ runtime.at = "idle"
  /\ tokens[pool] > 0
  /\ \A q \in Pools : tokens[q] > 0 => priority[pool] <= priority[q]
  /\ runtime' = [at |-> "loading", pool |-> pool, task |-> None]
  /\ UNCHANGED <<pc, handlerVars, poolVars, outputs>>

\* Mutant of LoadBatch: the token is not received.
LoadBatchKeepsToken ==
  /\ runtime.at = "loading"
  /\ \E t \in ordered[runtime.pool] :
       /\ ordered' = [ordered EXCEPT ![runtime.pool] = @ \ {t}]
       /\ dispatched' = [dispatched EXCEPT ![runtime.pool] = @ \cup {t}]
       /\ runtime' = [at |-> "publishing", pool |-> runtime.pool, task |-> t]
  /\ UNCHANGED <<pc, handlerVars, submitted, tokens, priority, outputs>>

\* load_batch_to_runtime: blocks until there is a task, takes the first, then
\* publishes the priority of the one that is first now, if there is one.
LoadBatch ==
  LET pool == runtime.pool
  IN  /\ runtime.at = "loading"
      /\ \E t \in ordered[pool] :
           /\ \A u \in ordered[pool] : Key(t) <= Key(u)
           /\ ordered' = [ordered EXCEPT ![pool] = @ \ {t}]
           /\ dispatched' = [dispatched EXCEPT ![pool] = @ \cup {t}]
           /\ tokens' = [tokens EXCEPT ![pool] = @ - 1]
           /\ runtime' = [at |-> "publishing", pool |-> pool, task |-> t]
      /\ UNCHANGED <<pc, handlerVars, submitted, priority, outputs>>

PublishRemaining ==
  LET pool == runtime.pool
  IN  /\ runtime.at = "publishing"
      /\ \/ ordered[pool] = {} /\ UNCHANGED priority
         \/ \E t \in ordered[pool] :
              /\ \A u \in ordered[pool] : Key(t) <= Key(u)
              /\ priority' = [priority EXCEPT ![pool] = Key(t)]
      /\ runtime' = [runtime EXCEPT !.at = "processing"]
      /\ UNCHANGED <<pc, handlerVars, submitted, ordered, tokens, dispatched, outputs>>

\* External (hivemind Runtime): process_func returns or raises; a sender thread
\* gets the outcome.
ProcessBatch ==
  /\ runtime.at = "processing"
  /\ \E ok \in BOOLEAN : outputs' = outputs \cup {[pool |-> runtime.pool, task |-> runtime.task, ok |-> ok]}
  /\ runtime' = [at |-> "idle", pool |-> None, task |-> None]
  /\ UNCHANGED <<pc, handlerVars, poolVars>>

\* Mutant of SendOutputs: an exception is logged and not passed on.
SendOutputsOnly(o) ==
  /\ o.ok /\ pc[o.task.req] = "waiting"
  /\ outputs' = outputs \ {o}
  /\ dispatched' = [dispatched EXCEPT ![o.pool] = @ \ {o.task}]
  /\ pc' = [pc EXCEPT ![o.task.req] = "ready"]
  /\ inputs' = [inputs EXCEPT ![o.task.req] = Append(@, Output(o.task))]
  /\ task' = [task EXCEPT ![o.task.req] = None]
  /\ UNCHANGED <<grads, submitted, ordered, tokens, priority, runtime>>

\* send_outputs_from_runtime and send_exception_from_runtime: the future is set
\* and its handler goes on.  No handler waits before it has left submit_task; one
\* that has timed out does not hear of it.
SendOutputs(o) ==
  LET t == o.task
      r == o.task.req
  IN  /\ o \in outputs
      /\ pc[r] \in {"waiting", "failed"}
      /\ outputs' = outputs \ {o}
      /\ t \in dispatched[o.pool]
      /\ dispatched' = [dispatched EXCEPT ![o.pool] = @ \ {t}]
      /\ IF pc[r] = "failed" THEN UNCHANGED <<pc, handlerVars>>
         ELSE /\ pc' = [pc EXCEPT ![r] = IF o.ok THEN "ready" ELSE "failed"]
              /\ inputs' = [inputs EXCEPT ![r] =
                              IF o.ok /\ o.pool[1] # "backward" THEN Append(@, Output(t)) ELSE @]
              /\ grads' = [grads EXCEPT ![r] =
                              IF o.ok /\ o.pool[1] = "backward" THEN Append(@, Output(t)) ELSE @]
              /\ task' = [task EXCEPT ![r] = None]
      /\ UNCHANGED <<submitted, ordered, tokens, priority, runtime>>

--------------------------------------------------------------------------------
Init ==
  /\ quirk \in [Requests -> UNION {Quirks[r] : r \in Requests}]
  /\ \A r \in Requests : quirk[r] \in Quirks[r]
  /\ pc = [r \in Requests |-> IF Kind[r] = "inference" THEN "ready"
                            ELSE IF r \in Streamed THEN "gathering" ELSE "parsing"]
  /\ inputs = [r \in Requests |-> << << >> >>]
  /\ grads = [r \in Requests |-> << >>]
  /\ task = [r \in Requests |-> None]
  /\ submitted = [p \in Pools |-> << >>]
  /\ ordered = [p \in Pools |-> {}]
  /\ tokens = [p \in Pools |-> 0]
  /\ priority = [p \in Pools |-> Infinity]
  /\ dispatched = [p \in Pools |-> {}]
  /\ runtime = [at |-> "idle", pool |-> None, task |-> None]
  /\ outputs = {}

Handler(r) ==
  \/ GatherInputs(r) \/ RpcForward(r) \/ RpcBackward(r) \/ Submit(r) \/ SendToken(r)
  \/ ComparePriority(r) \/ PublishPriority(r) \/ Answer(r) \/ SendParts(r)

Runtime ==
  \/ \E pool \in Pools : ChoosePool(pool)
  \/ LoadBatch \/ PublishRemaining \/ ProcessBatch

Progress ==
  \/ \E r \in Requests : Handler(r)
  \/ \E pool \in Pools : Order(pool)
  \/ Runtime
  \/ \E o \in outputs : SendOutputs(o)

Next == (Progress \/ \E r \in Requests : RequestTimeout(r)) /\ UNCHANGED quirk

Spec == Init /\ [][Next]_vars

\* Some thread or coroutine that can go on does.  A request takes finitely many
\* steps, so that no more is needed; no timeout is counted on.
FairSpec == Spec /\ WF_vars(Progress /\ UNCHANGED quirk)

--------------------------------------------------------------------------------
(* Properties *)

\* A pool holds tasks of its own; an outcome is that of a dispatched task.
TypeOK ==
  /\ pc \in [Requests -> {"gathering", "parsing", "answering", "ready", "put", "sent", "publishing", "waiting",
                          "done", "failed"}]
  /\ tokens \in [Pools -> Nat]
  /\ priority \in [Pools -> {1, 2, Infinity}]
  /\ \A p \in Pools :
       /\ \A t \in ordered[p] \cup dispatched[p] : t.pool = p
       /\ \A i \in 1 .. Len(submitted[p]) : submitted[p][i].pool = p
  /\ runtime.at \in {"idle", "loading", "publishing", "processing"}
  /\ \A o \in outputs : o.task \in dispatched[o.pool]

\* A token in the pipe of a pool stands for a task that is there or on its way:
\* the runtime, which blocks in load_batch_to_runtime for the pool it has chosen,
\* is never stuck there.
TokensBacked ==
  \A p \in Pools : tokens[p] <= Len(submitted[p]) + Cardinality(ordered[p])

\* However the tasks of concurrent requests interleave, a request gets the result
\* of its own chain: every block once, in order, and each gradient computed from
\* the input its block had in the forward chain.
RightResult ==
  \A r \in Requests : pc[r] = "done" =>
    IF Kind[r] = "backward"
    THEN grads[r] = [i \in 1 .. Span[r] |-> [block |-> Span[r] + 1 - i,
                                              input |-> [b \in 1 .. (Span[r] - i) |-> b]]]
    ELSE inputs[r][Len(inputs[r])] = [b \in 1 .. Span[r] |-> b]

\* Every request is answered, be it with an exception: no future is forgotten.
EveryRequestAnswered == <>(\A r \in Requests : pc[r] \in {"done", "failed"})
=================================================================================
