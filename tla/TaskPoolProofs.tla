---------------------------- MODULE TaskPoolProofs ----------------------------
(***************************************************************************)
(* Proofs about TaskPool for every set of requests, every number of blocks *)
(* and any quirks of them.                                                 *)
(***************************************************************************)
EXTENDS TaskPool, FiniteSetTheorems, SequenceTheorems, TLAPS

USE TaskPoolAssumption

--------------------------------------------------------------------------------
(* The inductive invariant *)

PcStates == {"gathering", "parsing", "answering", "ready", "put", "sent", "publishing", "waiting",
             "done", "failed"}

\* The handler has a task under way.
Busy == {"put", "sent", "publishing", "waiting"}

Tasks == [req : Requests, pool : Pools, infos : Seq(Nat), input : Seq(Nat)]
Outcomes == [pool : Pools, task : Tasks, ok : BOOLEAN]
Gradients == [block : Nat, input : Seq(Nat)]

Types ==
  /\ pc \in [Requests -> PcStates]
  /\ inputs \in [Requests -> Seq(Seq(Nat))]
  /\ grads \in [Requests -> Seq(Gradients)]
  /\ task \in [Requests -> Tasks \cup {None}]
  /\ submitted \in [Pools -> Seq(Tasks)]
  /\ ordered \in [Pools -> SUBSET Tasks]
  /\ dispatched \in [Pools -> SUBSET Tasks]
  /\ tokens \in [Pools -> Nat]
  /\ priority \in [Pools -> {1, 2, Infinity}]
  /\ runtime \in [at : {"idle", "loading", "publishing", "processing"},
                  pool : Pools \cup {None}, task : Tasks \cup {None}]
  /\ outputs \subseteq Outcomes

\* A task in a pool is the one its request waits for, or waited for when it failed.
OwnTask(p, t) ==
  t.pool = p /\ task[t.req] = t /\ pc[t.req] \in Busy \cup {"failed"}

OwnTasks(p) ==
  /\ \A i \in 1 .. Len(submitted[p]) : OwnTask(p, submitted[p][i])
  /\ \A t \in ordered[p] \cup dispatched[p] : OwnTask(p, t)

\* It is in one place.
OnePlace(p) ==
  /\ \A i, j \in 1 .. Len(submitted[p]) : submitted[p][i] = submitted[p][j] => i = j
  /\ \A i \in 1 .. Len(submitted[p]) : submitted[p][i] \notin ordered[p] \cup dispatched[p]
  /\ ordered[p] \cap dispatched[p] = {}

\* Tasks of a pool that are put, their tokens not yet sent.
Put(p) == {r \in Requests : pc[r] = "put" /\ task[r].pool = p}

\* Every task that waits in a pool has its token there, or is about to.
Balanced(p) ==
  /\ IsFiniteSet(ordered[p])
  /\ tokens[p] + Cardinality(Put(p)) = Len(submitted[p]) + Cardinality(ordered[p])

\* A pool publishes the priority of its tasks, if any.
PriorityOK(p) == priority[p] \in {Prioritize(p[1]), Infinity}

PoolInv == \A p \in Pools : OwnTasks(p) /\ OnePlace(p) /\ Balanced(p) /\ PriorityOK(p)

\* The runtime works at a dispatched task whose outcome is not known, for which it
\* has received a token.
RuntimeInv ==
  /\ runtime.at # "idle" => runtime.pool \in Pools
  /\ runtime.at = "loading" => tokens[runtime.pool] > 0
  /\ runtime.at \in {"publishing", "processing"} =>
       /\ runtime.task \in dispatched[runtime.pool]
       /\ \A o \in outputs : o.task # runtime.task

OutputsInv ==
  \A o \in outputs :
    /\ o.task \in dispatched[o.pool]
    /\ \A u \in outputs : u.task = o.task => u = o

Passed(n) == [b \in 1 .. n |-> b]
Gradient(r, i) == [block |-> Span[r] + 1 - i, input |-> Passed(Span[r] - i)]

\* The task that Submit makes.
TaskOf(r) ==
  [req |-> r, pool |-> NextPool(r), infos |-> InferenceInfos(r),
   input |-> TaskInput(r, NextPool(r))]

\* What a request has come to, and the task it waits for.
ChainOK(r) ==
  /\ Merged(r) =>
       /\ Len(inputs[r]) \in {1, 2}
       /\ inputs[r][1] = Passed(0)
       /\ Len(inputs[r]) = 2 => inputs[r][2] = Passed(Span[r])
  /\ ~Merged(r) =>
       /\ Len(inputs[r]) \in 1 .. LastForward(r) + 1
       /\ \A i \in 1 .. Len(inputs[r]) : inputs[r][i] = Passed(i - 1)
  /\ Len(grads[r]) \in 0 .. Span[r]
  /\ \A i \in 1 .. Len(grads[r]) : grads[r][i] = Gradient(r, i)
  /\ Len(grads[r]) > 0 => Kind[r] = "backward" /\ Len(inputs[r]) = Span[r]
  /\ pc[r] \in {"answering", "done"} => Finished(r)
  /\ pc[r] \in Busy => ~Finished(r) /\ task[r] = TaskOf(r)

ChainInv == \A r \in Requests : ChainOK(r)

Inv == Types /\ PoolInv /\ RuntimeInv /\ OutputsInv /\ ChainInv

--------------------------------------------------------------------------------
(* Pools and chains *)

\* What the constants say of a request.
LEMMA KindFacts ==
  ASSUME NEW r \in Requests
  PROVE  /\ Kind[r] \in {"inference", "forward", "backward"}
         /\ NumBlocks \in Nat /\ Span[r] \in Nat /\ Span[r] >= 1 /\ Span[r] <= NumBlocks
         /\ LastForward(r) \in Nat
         /\ Kind[r] = "backward" => LastForward(r) = Span[r] - 1
         /\ Kind[r] # "backward" => LastForward(r) = Span[r]
BY DEF LastForward

\* The pools of each block, and the one of inference that all blocks share.
LEMMA PoolFacts ==
  /\ <<"inference", 0>> \in Pools
  /\ \A b \in 1 .. NumBlocks : <<"forward", b>> \in Pools /\ <<"backward", b>> \in Pools
  /\ \A p \in Pools : /\ p[1] \in {"inference", "forward", "backward"}
                      /\ p[1] = "inference" => p = <<"inference", 0>>
                      /\ Prioritize(p[1]) \in {1, 2}
                      /\ Prioritize(p[1]) = 1 <=> p = <<"inference", 0>>
BY DEF Pools, Blocks, Prioritize

\* One more block is passed.
LEMMA PassedFacts ==
  ASSUME NEW n \in Nat
  PROVE  /\ Passed(n) \in Seq(Nat) /\ Append(Passed(n), n + 1) = Passed(n + 1)
         /\ <<n + 1>> \in Seq(Nat) /\ Passed(n) \o <<n + 1>> = Passed(n + 1)
         /\ Passed(0) \o Passed(n) = Passed(n)
<1>1. Passed(n) \in Seq(Nat) /\ Len(Passed(n)) = n
  BY DEF Passed
<1>2. <<n + 1>> \in Seq(Nat) /\ Passed(n) \o <<n + 1>> = Append(Passed(n), n + 1)
  BY <1>1
<1>3. Passed(0) = << >>
  BY DEF Passed
<1>4. Append(Passed(n), n + 1) = Passed(n + 1)
  BY <1>1 DEF Passed
<1>5. Passed(0) \o Passed(n) = Passed(n)
  BY <1>1, <1>3, ConcatEmptySeq
<1>6. QED  BY <1>1, <1>2, <1>4, <1>5

\* The next task of a request that has passed its blocks one after another so far: a
\* forward task or an inference task of one block.
ForwardTaskOK(r) ==
  /\ Len(inputs[r]) \in 1 .. Span[r]
  /\ TaskInput(r, NextPool(r)) = Passed(Len(inputs[r]) - 1)
  /\ Kind[r] = "inference" =>
       NextPool(r) = <<"inference", 0>> /\ InferenceInfos(r) = <<Len(inputs[r])>>
  /\ Kind[r] # "inference" => NextPool(r) = <<"forward", Len(inputs[r])>>

\* When a request is finished, and which task comes next when it is not.
LEMMA NextTaskFacts ==
  ASSUME Types, NEW r \in Requests, ChainOK(r), ~Finished(r)
  PROVE  /\ NextPool(r) \in Pools
         /\ TaskInput(r, NextPool(r)) \in Seq(Nat)
         /\ InferenceInfos(r) \in Seq(Nat)
         /\ Merged(r) =>
              /\ NextPool(r) = <<"inference", 0>> /\ Len(inputs[r]) = 1
              /\ TaskInput(r, NextPool(r)) = Passed(0) /\ InferenceInfos(r) = Passed(Span[r])
         /\ ~Merged(r) /\ Len(inputs[r]) <= LastForward(r) => ForwardTaskOK(r)
         /\ ~Merged(r) /\ Len(inputs[r]) > LastForward(r) =>
              /\ Kind[r] = "backward" /\ Len(inputs[r]) = Span[r] /\ Len(grads[r]) < Span[r]
              /\ NextPool(r) = <<"backward", Span[r] - Len(grads[r])>>
              /\ TaskInput(r, NextPool(r)) = Passed(Span[r] - Len(grads[r]) - 1)
<1>1. /\ inputs[r] \in Seq(Seq(Nat)) /\ Len(inputs[r]) \in Nat
      /\ grads[r] \in Seq(Gradients) /\ Len(grads[r]) \in Nat
      /\ \A i \in 1 .. Len(inputs[r]) : inputs[r][i] \in Seq(Nat)
  BY LenProperties, ElementOfSeq DEF Types
<1>2. CASE Merged(r)
  <2>1. /\ Kind[r] = "inference" /\ Len(inputs[r]) = 1 /\ NextPool(r) = <<"inference", 0>>
        /\ inputs[r][1] = Passed(0)
    BY <1>2 DEF ChainOK, Finished, NextPool, Merged
  <2>2. TaskInput(r, NextPool(r)) = Passed(0)
    BY <2>1 DEF TaskInput
  <2>3. InferenceInfos(r) = Passed(Span[r])
    BY <1>2, <2>1 DEF InferenceInfos, Passed
  <2>4. QED  BY <1>1, <1>2, <2>1, <2>2, <2>3, KindFacts, PassedFacts, PoolFacts
<1>3. CASE ~Merged(r) /\ Len(inputs[r]) <= LastForward(r)
  <2>1. /\ Kind[r] = "inference" =>
             NextPool(r) = <<"inference", 0>> /\ InferenceInfos(r) = <<Len(inputs[r])>>
        /\ Kind[r] # "inference" =>
             NextPool(r) = <<"forward", Len(inputs[r])>> /\ InferenceInfos(r) = << >>
    BY <1>3 DEF NextPool, InferenceInfos
  <2>2. /\ Len(inputs[r]) \in 1 .. NumBlocks /\ Len(inputs[r]) \in 1 .. Len(inputs[r])
        /\ Len(inputs[r]) \in 1 .. Span[r]
    BY <1>1, <1>3, KindFacts DEF ChainOK
  <2>3. TaskInput(r, NextPool(r)) = inputs[r][Len(inputs[r])]
    BY <2>1 DEF TaskInput
  <2>4. inputs[r][Len(inputs[r])] = Passed(Len(inputs[r]) - 1)
    BY <1>3, <2>2 DEF ChainOK
  <2>5. ~(Len(inputs[r]) > LastForward(r))
    BY <1>1, <1>3, KindFacts
  <2>6. ForwardTaskOK(r)
    BY <2>1, <2>2, <2>3, <2>4 DEF ForwardTaskOK
  <2>7. InferenceInfos(r) \in Seq(Nat) /\ NextPool(r) \in Pools
    <3>1. <<Len(inputs[r])>> \in Seq(Nat)
      BY <1>1
    <3>2. QED  BY <2>1, <2>2, <3>1, PoolFacts, EmptySeq
  <2>8. TaskInput(r, NextPool(r)) \in Seq(Nat)
    BY <1>1, <2>2, <2>3
  <2>9. QED  BY <1>3, <2>5, <2>6, <2>7, <2>8
<1>4. CASE ~Merged(r) /\ Len(inputs[r]) > LastForward(r)
  <2>1. Len(inputs[r]) = LastForward(r) + 1
    BY <1>1, <1>4, KindFacts DEF ChainOK
  <2>2. Kind[r] = "backward" /\ Len(inputs[r]) = Span[r]
    <3>1. Kind[r] = "backward"
      BY <1>4, <2>1, KindFacts DEF Finished
    <3>2. QED  BY <2>1, <3>1, KindFacts
  <2>3. Len(grads[r]) < Span[r]
    BY <1>1, <2>2, KindFacts DEF ChainOK, Finished, Merged
  <2>4. NextPool(r) = <<"backward", Span[r] - Len(grads[r])>> /\ InferenceInfos(r) = << >>
    BY <1>1, <1>4, <2>2, KindFacts DEF NextPool, InferenceInfos
  <2>5. Span[r] - Len(grads[r]) \in 1 .. Len(inputs[r]) /\ Span[r] - Len(grads[r]) \in 1 .. NumBlocks
    BY <1>1, <2>2, <2>3, KindFacts
  <2>6. TaskInput(r, NextPool(r)) = inputs[r][Span[r] - Len(grads[r])]
    BY <2>4 DEF TaskInput
  <2>7. inputs[r][Span[r] - Len(grads[r])] = Passed(Span[r] - Len(grads[r]) - 1)
    BY <1>4, <2>5 DEF ChainOK
  <2>8. ~(Len(inputs[r]) <= LastForward(r))
    BY <1>1, <1>4, KindFacts
  <2>9. QED  BY <1>1, <1>4, <2>2, <2>3, <2>4, <2>5, <2>6, <2>7, <2>8, PoolFacts, EmptySeq
<1>5. QED  BY <1>1, <1>2, <1>3, <1>4, KindFacts

\* At the start requests wait in their handlers and the pools are empty.
LEMMA InitInv == Init => Inv
<1> SUFFICES ASSUME Init PROVE Inv
  OBVIOUS
<1>1. << >> \in Seq(Nat) /\ << << >> >> \in Seq(Seq(Nat)) /\ << >> \in Seq(Gradients)
      /\ << >> \in Seq(Tasks)
  BY EmptySeq
<1>2. Types
  <2>1. /\ inputs \in [Requests -> Seq(Seq(Nat))] /\ grads \in [Requests -> Seq(Gradients)]
        /\ submitted \in [Pools -> Seq(Tasks)]
    BY <1>1 DEF Init
  <2>2. pc \in [Requests -> PcStates] /\ task \in [Requests -> Tasks \cup {None}]
    BY DEF Init, PcStates
  <2>3. QED  BY <2>1, <2>2 DEF Init, Types
<1>3. PoolInv
  <2> SUFFICES ASSUME NEW p \in Pools
               PROVE  OwnTasks(p) /\ OnePlace(p) /\ Balanced(p) /\ PriorityOK(p)
    BY DEF PoolInv
  <2>1. submitted[p] = << >> /\ ordered[p] = {} /\ dispatched[p] = {} /\ tokens[p] = 0
        /\ priority[p] = Infinity
    BY DEF Init
  <2>2. Put(p) = {}
    BY DEF Init, Put
  <2>3. Balanced(p)
    BY <2>1, <2>2, FS_EmptySet DEF Balanced
  <2>4. QED  BY <2>1, <2>3 DEF OwnTasks, OnePlace, PriorityOK
<1>4. RuntimeInv /\ OutputsInv
  BY DEF Init, RuntimeInv, OutputsInv
<1>5. ChainInv
  <2> SUFFICES ASSUME NEW r \in Requests PROVE ChainOK(r)
    BY DEF ChainInv
  <2>1. inputs[r] = << << >> >> /\ grads[r] = << >> /\ pc[r] \in {"ready", "gathering", "parsing"}
    BY DEF Init
  <2>2. Len(inputs[r]) = 1 /\ inputs[r][1] = << >> /\ Len(grads[r]) = 0
    BY <2>1
  <2>3. Passed(0) = << >>
    BY DEF Passed
  <2>4. QED  BY <2>1, <2>2, <2>3, KindFacts DEF ChainOK, Busy
<1>6. QED  BY <1>2, <1>3, <1>4, <1>5 DEF Inv

--------------------------------------------------------------------------------
(* Handlers *)

\* A chain depends on the state of its own request only.
LEMMA ChainKeeps ==
  ASSUME UNCHANGED quirk, NEW r \in Requests, ChainOK(r),
         inputs'[r] = inputs[r], grads'[r] = grads[r], task'[r] = task[r],
         pc'[r] = pc[r] \/ (pc'[r] \notin Busy \cup {"answering", "done"})
                        \/ (pc'[r] \in {"answering", "done"} /\ Finished(r))
                        \/ (pc[r] \in Busy /\ pc'[r] \in Busy)
  PROVE  ChainOK(r)'
<1>1. (Finished(r) <=> Finished(r)') /\ (Merged(r) <=> Merged(r)')
      /\ NextPool(r)' = NextPool(r)
  BY DEF Finished, NextPool, Merged
<1>2. TaskInput(r, NextPool(r))' = TaskInput(r, NextPool(r))
  BY <1>1 DEF TaskInput
<1>3. TaskOf(r)' = TaskOf(r)
  BY <1>1, <1>2 DEF TaskOf, InferenceInfos, Merged
<1>4. QED  BY <1>1, <1>3 DEF ChainOK, Busy, LastForward

\* The handler goes on, and nothing else changes but, perhaps, the priority of a pool.
LEMMA HandlerKeepsInv ==
  ASSUME UNCHANGED quirk, Inv, NEW r \in Requests, NEW step \in PcStates, pc' = [pc EXCEPT ![r] = step],
         UNCHANGED <<inputs, grads, task, submitted, ordered, tokens, dispatched, runtime, outputs>>,
         pc[r] # "put", step # "put", pc[r] \in Busy => step \in Busy \cup {"failed"},
         step \in Busy => pc[r] \in Busy, step \in {"answering", "done"} => Finished(r),
         pc[r] = "failed" => step = "failed",
         priority' \in [Pools -> {1, 2, Infinity}], \A p \in Pools : PriorityOK(p)'
  PROVE  Inv'
<1>1. /\ Types /\ PoolInv /\ RuntimeInv /\ OutputsInv /\ ChainInv
      /\ pc' \in [Requests -> PcStates] /\ \A q \in Requests : pc'[q] = IF q = r THEN step ELSE pc[q]
  BY DEF Inv, Types
<1>2. Types'
  BY <1>1 DEF Types
<1>3. PoolInv'
  <2> SUFFICES ASSUME NEW p \in Pools
               PROVE  OwnTasks(p)' /\ OnePlace(p)' /\ Balanced(p)'
    BY DEF PoolInv
  <2>1. OwnTasks(p) /\ OnePlace(p) /\ Balanced(p)
    BY <1>1 DEF PoolInv
  <2>2. ASSUME NEW t \in Tasks, OwnTask(p, t) PROVE OwnTask(p, t)'
    <3>1. t.req \in Requests
      BY DEF Tasks
    <3>2. QED  BY <1>1, <2>2, <3>1 DEF OwnTask
  <2>3. /\ \A i \in 1 .. Len(submitted[p]) : submitted[p][i] \in Tasks
        /\ \A t \in ordered[p] \cup dispatched[p] : t \in Tasks
    BY <1>1, ElementOfSeq DEF Types
  <2>4. OwnTasks(p)'
    BY <2>1, <2>2, <2>3 DEF OwnTasks
  <2>5. Put(p)' = Put(p)
    BY <1>1 DEF Put
  <2>6. QED  BY <2>1, <2>4, <2>5 DEF OnePlace, Balanced
<1>4. RuntimeInv' /\ OutputsInv'
  BY <1>1 DEF RuntimeInv, OutputsInv
<1>5. ChainInv'
  <2> SUFFICES ASSUME NEW q \in Requests PROVE ChainOK(q)'
    BY DEF ChainInv
  <2>1. ChainOK(q)
    BY <1>1 DEF ChainInv
  <2>2. CASE q # r
    BY <1>1, <2>1, <2>2, ChainKeeps
  <2>3. CASE q = r
    <3>1. pc'[r] = step
      BY <1>1
    <3>2. QED  BY <2>1, <2>3, <3>1, ChainKeeps DEF Busy
  <2>4. QED  BY <2>2, <2>3
<1>6. QED  BY <1>2, <1>3, <1>4, <1>5 DEF Inv

\* rpc_forward, rpc_backward and their answers; a timeout.
LEMMA MessagesKeepInv ==
  ASSUME UNCHANGED quirk, Inv, NEW r \in Requests,
         \/ GatherInputs(r) \/ RpcForward(r) \/ RpcBackward(r)
         \/ Answer(r) \/ SendParts(r) \/ RequestTimeout(r)
  PROVE  Inv'
<1>1. pc \in [Requests -> PcStates] /\ ChainOK(r) /\ \A p \in Pools : PriorityOK(p)
  BY DEF Inv, Types, ChainInv, PoolInv
<1>2. UNCHANGED <<handlerVars, poolVars, runtime, outputs>>
  BY DEF GatherInputs, RpcForward, RpcBackward, ParseRequest, Answer, SendParts, RequestTimeout
<1>3. PICK step \in PcStates :
        /\ pc' = [pc EXCEPT ![r] = step]
        /\ pc[r] \in PcStates \ {"put", "failed"}
        /\ step \notin Busy
        /\ pc[r] \in Busy => step = "failed"
        /\ step \in {"answering", "done"} => Finished(r)
  <2>1. CASE GatherInputs(r) \/ RpcForward(r) \/ RpcBackward(r)
    BY <1>1, <2>1 DEF GatherInputs, RpcForward, RpcBackward, ParseRequest, Goto, PcStates, Busy
  <2>2. CASE Answer(r)
    BY <1>1, <2>2 DEF Answer, Goto, PcStates, Busy
  <2>3. CASE SendParts(r)
    BY <1>1, <2>3 DEF SendParts, Goto, PcStates, Busy, ChainOK
  <2>4. CASE RequestTimeout(r)
    BY <1>1, <2>4 DEF RequestTimeout, PcStates, Busy
  <2>5. QED  BY <2>1, <2>2, <2>3, <2>4
<1>4. priority' \in [Pools -> {1, 2, Infinity}] /\ \A p \in Pools : PriorityOK(p)'
  BY <1>1, <1>2 DEF poolVars, PriorityOK, Inv, Types
<1>5. step # "put"
  BY <1>3 DEF Busy
<1>6. QED  BY <1>2, <1>3, <1>4, <1>5, HandlerKeepsInv DEF handlerVars, poolVars

\* The task of a request that waits is in its own pool, with the priority of the pool.
LEMMA BusyFacts ==
  ASSUME Inv, NEW r \in Requests, pc[r] \in Busy
  PROVE  /\ task[r] \in Tasks /\ task[r].req = r /\ task[r].pool = NextPool(r)
         /\ task[r].input = TaskInput(r, NextPool(r)) /\ task[r].infos = InferenceInfos(r)
         /\ NextPool(r) \in Pools /\ ~Finished(r)
<1>1. Types /\ ChainOK(r)
  BY DEF Inv, ChainInv
<1>2. ~Finished(r) /\ task[r] = TaskOf(r)
  BY <1>1 DEF ChainOK
<1>3. NextPool(r) \in Pools /\ TaskInput(r, NextPool(r)) \in Seq(Nat) /\ InferenceInfos(r) \in Seq(Nat)
  BY <1>1, <1>2, NextTaskFacts
<1>4. QED  BY <1>2, <1>3 DEF Tasks, TaskOf

\* The published priority of a pool is that of its tasks.
LEMMA PriorityKeepsInv ==
  ASSUME UNCHANGED quirk, Inv, NEW r \in Requests, ComparePriority(r) \/ PublishPriority(r)
  PROVE  Inv'
<1>1. pc \in [Requests -> PcStates] /\ priority \in [Pools -> {1, 2, Infinity}]
  BY DEF Inv, Types
<1>2. PICK step \in {"publishing", "waiting"} :
        pc' = [pc EXCEPT ![r] = step] /\ pc[r] \in {"sent", "publishing"}
  BY DEF ComparePriority, PublishPriority, Goto
<1>3. UNCHANGED <<inputs, grads, task, submitted, ordered, tokens, dispatched, runtime, outputs>>
  BY DEF ComparePriority, PublishPriority, handlerVars, poolVars
<1>4. task[r] \in Tasks /\ task[r].pool \in Pools
  BY <1>2, BusyFacts DEF Busy
<1>5. priority' = priority \/ priority' = [priority EXCEPT ![task[r].pool] = Prioritize(task[r].pool[1])]
  BY DEF ComparePriority, PublishPriority, poolVars, Key
<1>6. Prioritize(task[r].pool[1]) \in {1, 2}
  BY <1>4, PoolFacts
<1>7. priority' \in [Pools -> {1, 2, Infinity}] /\ \A p \in Pools : PriorityOK(p)'
  <2>1. \A p \in Pools : PriorityOK(p)
    BY DEF Inv, PoolInv
  <2>2. QED  BY <1>1, <1>4, <1>5, <1>6, <2>1 DEF PriorityOK
<1>8. QED  BY <1>2, <1>3, <1>7, HandlerKeepsInv DEF Busy, PcStates

\* What a queue of tasks holds after one is put into it.
LEMMA PutFacts ==
  ASSUME NEW q \in Seq(Tasks), NEW t \in Tasks
  PROVE  /\ Append(q, t) \in Seq(Tasks) /\ Len(q) \in Nat
         /\ Len(Append(q, t)) = Len(q) + 1
         /\ \A i \in 1 .. Len(q) : Append(q, t)[i] = q[i] /\ q[i] \in Tasks
         /\ Append(q, t)[Len(q) + 1] = t
  BY AppendProperties, LenProperties, ElementOfSeq

\* And after one is taken.
LEMMA TakeFacts ==
  ASSUME NEW q \in Seq(Tasks), q # << >>
  PROVE  /\ Head(q) \in Tasks /\ Head(q) = q[1] /\ Len(q) \in Nat /\ Len(q) >= 1
         /\ Tail(q) \in Seq(Tasks)
         /\ Len(Tail(q)) = Len(q) - 1
         /\ \A i \in 1 .. Len(q) - 1 : Tail(q)[i] = q[i + 1]
  BY HeadTailProperties, EmptySeq, LenProperties, ElementOfSeq

\* A set of finitely many requests; one more is put.
LEMMA PutSetFacts ==
  ASSUME NEW S \in SUBSET Requests
  PROVE  /\ IsFiniteSet(S) /\ Cardinality(S) \in Nat
         /\ \A r \in Requests \ S : Cardinality(S \cup {r}) = Cardinality(S) + 1
         /\ \A r \in S : Cardinality(S \ {r}) = Cardinality(S) - 1
<1>1. IsFiniteSet(S)
  BY FS_Subset
<1>2. QED  BY <1>1, FS_CardinalityType, FS_AddElement, FS_RemoveElement

\* A task that is too large fails before it is put into a pool.
LEMMA TooLargeKeepsInv ==
  ASSUME UNCHANGED quirk, Inv, NEW r \in Requests, Submit(r), quirk[r] = "size"
  PROVE  Inv'
<1> DEFINE new == TaskOf(r)
<1>1. /\ Types /\ PoolInv /\ RuntimeInv /\ OutputsInv /\ ChainInv
      /\ pc[r] = "ready" /\ ~Finished(r)
      /\ task' = [task EXCEPT ![r] = new] /\ pc' = [pc EXCEPT ![r] = "failed"]
      /\ UNCHANGED <<submitted, inputs, grads, ordered, tokens, priority, dispatched, runtime, outputs>>
  BY DEF Inv, Submit, TaskOf
<1>2. new \in Tasks
  BY <1>1, NextTaskFacts DEF ChainInv, Tasks, TaskOf
<1> HIDE DEF new
<1>3. Types'
  BY <1>1, <1>2 DEF Types, PcStates
<1>4. \A q \in Requests : q # r => pc'[q] = pc[q] /\ task'[q] = task[q]
  BY <1>1 DEF Types
<1>5. pc'[r] = "failed"
  BY <1>1 DEF Types
<1>6. PoolInv'
  <2> SUFFICES ASSUME NEW p \in Pools
               PROVE  OwnTasks(p)' /\ OnePlace(p)' /\ Balanced(p)' /\ PriorityOK(p)'
    BY DEF PoolInv
  <2>1. OwnTasks(p) /\ OnePlace(p) /\ Balanced(p) /\ PriorityOK(p)
    BY <1>1 DEF PoolInv
  <2>2. ASSUME NEW t \in Tasks, OwnTask(p, t) PROVE OwnTask(p, t)'
    <3>1. t.req \in Requests /\ t.req # r
      BY <1>1, <2>2 DEF Tasks, OwnTask, Busy
    <3>2. QED  BY <1>4, <2>2, <3>1 DEF OwnTask
  <2>3. /\ \A i \in 1 .. Len(submitted[p]) : submitted[p][i] \in Tasks
        /\ \A t \in ordered[p] \cup dispatched[p] : t \in Tasks
    BY <1>1, ElementOfSeq DEF Types
  <2>4. OwnTasks(p)'
    BY <1>1, <2>1, <2>2, <2>3 DEF OwnTasks
  <2>5. Put(p)' = Put(p)
    BY <1>1, <1>4, <1>5 DEF Put
  <2>6. QED  BY <1>1, <2>1, <2>4, <2>5 DEF OnePlace, Balanced, PriorityOK
<1>7. RuntimeInv' /\ OutputsInv'
  BY <1>1 DEF RuntimeInv, OutputsInv
<1>8. ChainInv'
  <2> SUFFICES ASSUME NEW q \in Requests PROVE ChainOK(q)'
    BY DEF ChainInv
  <2>1. ChainOK(q)
    BY <1>1 DEF ChainInv
  <2>2. CASE q # r
    BY <1>1, <1>4, <2>1, <2>2, ChainKeeps
  <2>3. CASE q = r
    BY <1>1, <1>5, <2>1, <2>3 DEF ChainOK, Busy, Finished, LastForward, Merged
  <2>4. QED  BY <2>2, <2>3
<1>9. QED  BY <1>3, <1>6, <1>7, <1>8 DEF Inv

\* The next task of a request is put into its pool.
LEMMA SubmitKeepsInv ==
  ASSUME UNCHANGED quirk, Inv, NEW r \in Requests, Submit(r)
  PROVE  Inv'
<1>1. CASE quirk[r] = "size"
  BY <1>1, TooLargeKeepsInv
<1>2. CASE quirk[r] # "size"
  <2>1. PICK pool, new : /\ pool = NextPool(r)
                         /\ new = TaskOf(r)
    OBVIOUS
  <2>2. /\ Types /\ PoolInv /\ RuntimeInv /\ OutputsInv /\ ChainInv
        /\ pc[r] = "ready" /\ ~Finished(r)
        /\ task' = [task EXCEPT ![r] = new] /\ pc' = [pc EXCEPT ![r] = "put"]
        /\ submitted' = [submitted EXCEPT ![pool] = Append(@, new)]
        /\ UNCHANGED <<inputs, grads, ordered, tokens, priority, dispatched, runtime, outputs>>
    BY <1>2, <2>1 DEF Inv, Submit, TaskOf
  <2>3. pool \in Pools /\ new \in Tasks /\ new.req = r /\ new.pool = pool
    BY <2>1, <2>2, NextTaskFacts DEF ChainInv, Tasks, TaskOf
  <2>4. /\ \A q \in Requests : q # r => pc'[q] = pc[q] /\ task'[q] = task[q]
        /\ pc'[r] = "put" /\ task'[r] = new
        /\ \A p \in Pools : submitted'[p] = IF p = pool THEN Append(submitted[p], new) ELSE submitted[p]
        /\ \A p \in Pools : submitted[p] \in Seq(Tasks)
    BY <2>2, <2>3 DEF Types
  <2>5. Types'
    <3>1. Append(submitted[pool], new) \in Seq(Tasks)
      BY <2>3, <2>4, PutFacts
    <3>2. QED  BY <2>2, <2>3, <3>1 DEF Types, PcStates
  <2>6. PoolInv'
    <3> SUFFICES ASSUME NEW p \in Pools
                 PROVE  OwnTasks(p)' /\ OnePlace(p)' /\ Balanced(p)' /\ PriorityOK(p)'
      BY DEF PoolInv
    <3>1. OwnTasks(p) /\ OnePlace(p) /\ Balanced(p) /\ PriorityOK(p)
      BY <2>2 DEF PoolInv
    <3>2. ASSUME NEW t \in Tasks, OwnTask(p, t) PROVE OwnTask(p, t)' /\ t # new
      <4>1. t.req \in Requests /\ t.req # r
        BY <2>2, <3>2 DEF Tasks, OwnTask, Busy
      <4>2. QED  BY <2>3, <2>4, <3>2, <4>1 DEF OwnTask
    <3>3. /\ \A i \in 1 .. Len(submitted[p]) : submitted[p][i] \in Tasks
          /\ \A t \in ordered[p] \cup dispatched[p] : t \in Tasks
          /\ Len(submitted[p]) \in Nat
      BY <2>2, <2>4, ElementOfSeq, LenProperties DEF Types
    <3>4. PriorityOK(p)'
      BY <2>2, <3>1 DEF PriorityOK
    <3>5. CASE p # pool
      <4>1. submitted'[p] = submitted[p]
        BY <2>4, <3>5
      <4>2. OwnTasks(p)'
        BY <2>2, <3>1, <3>2, <3>3, <4>1 DEF OwnTasks
      <4>3. Put(p)' = Put(p)
        BY <2>2, <2>3, <2>4, <3>5 DEF Put
      <4>4. QED  BY <2>2, <3>1, <3>4, <4>1, <4>2, <4>3 DEF OnePlace, Balanced
    <3>6. CASE p = pool
      <4>1. /\ Len(submitted'[p]) = Len(submitted[p]) + 1
            /\ \A i \in 1 .. Len(submitted[p]) : submitted'[p][i] = submitted[p][i]
            /\ submitted'[p][Len(submitted[p]) + 1] = new
        <5>1. submitted'[p] = Append(submitted[p], new) /\ submitted[p] \in Seq(Tasks)
          BY <2>4, <3>6
        <5>2. QED  BY <2>3, <5>1, PutFacts
      <4>2. \A i \in 1 .. Len(submitted'[p]) :
              i \in 1 .. Len(submitted[p]) \/ i = Len(submitted[p]) + 1
        BY <3>3, <4>1
      <4>3. OwnTask(p, new)'
        BY <2>3, <2>4, <3>6 DEF OwnTask, Busy
      <4>4. OwnTasks(p)'
        BY <2>2, <3>1, <3>2, <3>3, <4>1, <4>2, <4>3 DEF OwnTasks
      <4>5. /\ \A i \in 1 .. Len(submitted[p]) : submitted[p][i] # new
            /\ new \notin ordered[p] \cup dispatched[p]
        BY <2>3, <3>1, <3>2, <3>3 DEF OwnTasks
      <4>6. OnePlace(p)'
        BY <2>2, <3>1, <4>1, <4>2, <4>5, SMTT(30) DEF OnePlace
      <4>7. Put(p)' = Put(p) \cup {r} /\ r \notin Put(p)
        BY <2>2, <2>3, <2>4, <3>6 DEF Put
      <4>8. Cardinality(Put(p)') = Cardinality(Put(p)) + 1 /\ Cardinality(Put(p)) \in Nat
        BY <4>7, PutSetFacts DEF Put
      <4>9. Balanced(p)'
        <5>1. IsFiniteSet(ordered[p]) /\ Cardinality(ordered[p]) \in Nat /\ tokens[p] \in Nat
          BY <2>2, <3>1, FS_CardinalityType DEF Balanced, Types
        <5>2. tokens[p] + Cardinality(Put(p)) = Len(submitted[p]) + Cardinality(ordered[p])
          BY <3>1 DEF Balanced
        <5>3. PICK a, b, c, d \in Nat :
                a = tokens[p] /\ b = Cardinality(Put(p)) /\ c = Len(submitted[p]) /\ d = Cardinality(ordered[p])
          BY <3>3, <4>8, <5>1
        <5>4. tokens[p] + Cardinality(Put(p)') = Len(submitted'[p]) + Cardinality(ordered[p])
          <6>1. a + b = c + d
            BY <5>2, <5>3
          <6>2. a + (b + 1) = (c + 1) + d
            BY <6>1
          <6>3. QED  BY <4>1, <4>8, <5>3, <6>2
        <5>5. QED  BY <2>2, <5>1, <5>4 DEF Balanced
      <4>10. QED  BY <3>4, <4>4, <4>6, <4>9
    <3>7. QED  BY <3>5, <3>6
  <2>7. RuntimeInv' /\ OutputsInv'
    BY <2>2 DEF RuntimeInv, OutputsInv
  <2>8. ChainInv'
    <3> SUFFICES ASSUME NEW q \in Requests PROVE ChainOK(q)'
      BY DEF ChainInv
    <3>1. ChainOK(q)
      BY <2>2 DEF ChainInv
    <3>2. CASE q # r
      BY <2>2, <2>4, <3>1, <3>2, ChainKeeps
    <3>3. CASE q = r
      <4>1. /\ NextPool(r)' = NextPool(r) /\ (Finished(r)' <=> Finished(r))
            /\ (Merged(r)' <=> Merged(r)) /\ InferenceInfos(r)' = InferenceInfos(r)
        BY <2>2 DEF NextPool, Finished, Merged, InferenceInfos
      <4>2. TaskOf(r)' = new
        BY <2>1, <2>2, <4>1 DEF TaskInput, TaskOf
      <4>3. QED  BY <2>2, <2>4, <3>1, <3>3, <4>1, <4>2 DEF ChainOK, LastForward
    <3>4. QED  BY <3>2, <3>3
  <2>9. QED  BY <2>5, <2>6, <2>7, <2>8 DEF Inv
<1>3. QED  BY <1>1, <1>2

\* Its token is sent.
LEMMA SendTokenKeepsInv ==
  ASSUME UNCHANGED quirk, Inv, NEW r \in Requests, SendToken(r)
  PROVE  Inv'
<1>1. PICK pool : pool = task[r].pool
  OBVIOUS
<1>2. /\ Types /\ PoolInv /\ RuntimeInv /\ OutputsInv /\ ChainInv
      /\ pc[r] = "put" /\ pc' = [pc EXCEPT ![r] = "sent"]
      /\ tokens' = [tokens EXCEPT ![pool] = @ + 1]
      /\ UNCHANGED <<inputs, grads, task, submitted, ordered, priority, dispatched, runtime, outputs>>
  BY <1>1 DEF Inv, SendToken, Goto, handlerVars
<1>3. pool \in Pools
  BY <1>1, <1>2, BusyFacts DEF Busy
<1>4. /\ \A q \in Requests : q # r => pc'[q] = pc[q]
      /\ pc'[r] = "sent" /\ tokens \in [Pools -> Nat]
      /\ \A p \in Pools : tokens'[p] = IF p = pool THEN tokens[p] + 1 ELSE tokens[p]
  BY <1>2, <1>3 DEF Types
<1>5. Types'
  BY <1>2, <1>3, <1>4 DEF Types, PcStates
<1>6. PoolInv'
  <2> SUFFICES ASSUME NEW p \in Pools
               PROVE  OwnTasks(p)' /\ OnePlace(p)' /\ Balanced(p)' /\ PriorityOK(p)'
    BY DEF PoolInv
  <2>1. OwnTasks(p) /\ OnePlace(p) /\ Balanced(p) /\ PriorityOK(p)
    BY <1>2 DEF PoolInv
  <2>2. ASSUME NEW t \in Tasks, OwnTask(p, t) PROVE OwnTask(p, t)'
    <3>1. t.req \in Requests
      BY DEF Tasks
    <3>2. QED  BY <1>2, <1>4, <2>2, <3>1 DEF OwnTask, Busy
  <2>3. /\ \A i \in 1 .. Len(submitted[p]) : submitted[p][i] \in Tasks
        /\ \A t \in ordered[p] \cup dispatched[p] : t \in Tasks
        /\ Len(submitted[p]) \in Nat
    BY <1>2, ElementOfSeq, LenProperties DEF Types
  <2>4. OwnTasks(p)'
    BY <1>2, <2>1, <2>2, <2>3 DEF OwnTasks
  <2>5. Balanced(p)'
    <3>1. CASE p # pool
      <4>1. Put(p)' = Put(p) /\ tokens'[p] = tokens[p]
        BY <1>1, <1>2, <1>4, <3>1 DEF Put
      <4>2. QED  BY <1>2, <2>1, <4>1 DEF Balanced
    <3>2. CASE p = pool
      <4>1. Put(p)' = Put(p) \ {r} /\ r \in Put(p)
        BY <1>1, <1>2, <1>4, <3>2 DEF Put
      <4>2. Cardinality(Put(p)') = Cardinality(Put(p)) - 1 /\ Cardinality(Put(p)) \in Nat
        BY <4>1, PutSetFacts DEF Put
      <4>3. tokens'[p] = tokens[p] + 1 /\ tokens[p] \in Nat
        BY <1>4, <3>2
      <4>4. tokens'[p] + Cardinality(Put(p)') = tokens[p] + Cardinality(Put(p))
        BY <4>2, <4>3
      <4>5. QED  BY <1>2, <2>1, <4>4 DEF Balanced
    <3>3. QED  BY <3>1, <3>2
  <2>6. QED  BY <1>2, <2>1, <2>4, <2>5 DEF OnePlace, PriorityOK
<1>7. RuntimeInv' /\ OutputsInv'
  <2>1. runtime.at = "loading" => tokens'[runtime.pool] > 0
    BY <1>2, <1>4 DEF RuntimeInv
  <2>2. QED  BY <1>2, <2>1 DEF RuntimeInv, OutputsInv
<1>8. ChainInv'
  <2> SUFFICES ASSUME NEW q \in Requests PROVE ChainOK(q)'
    BY DEF ChainInv
  <2>1. ChainOK(q)
    BY <1>2 DEF ChainInv
  <2>2. pc'[q] = pc[q] \/ (pc[q] \in Busy /\ pc'[q] \in Busy)
    BY <1>2, <1>4 DEF Busy
  <2>3. QED  BY <1>2, <2>1, <2>2, ChainKeeps
<1>9. QED  BY <1>5, <1>6, <1>7, <1>8 DEF Inv

--------------------------------------------------------------------------------
(* Pools and the runtime *)

\* They leave the handlers alone.
LEMMA HandlersSame ==
  ASSUME UNCHANGED quirk, Inv, UNCHANGED <<pc, handlerVars>>
  PROVE  /\ UNCHANGED <<pc, inputs, grads, task>>
         /\ ChainInv' /\ \A p : Put(p)' = Put(p)
         /\ \A p, t : OwnTask(p, t) => OwnTask(p, t)'
<1>1. UNCHANGED <<pc, inputs, grads, task>>
  BY DEF handlerVars
<1>2. ASSUME NEW r \in Requests PROVE ChainOK(r)'
  BY <1>1, ChainKeeps DEF Inv, ChainInv
<1>3. QED  BY <1>1, <1>2 DEF ChainInv, Put, OwnTask

\* The parts of the invariant.
LEMMA InvParts ==
  ASSUME Inv
  PROVE  /\ Types /\ RuntimeInv /\ OutputsInv /\ ChainInv
         /\ \A p \in Pools :
              /\ OwnTasks(p) /\ OnePlace(p) /\ Balanced(p) /\ PriorityOK(p)
              /\ submitted[p] \in Seq(Tasks) /\ Len(submitted[p]) \in Nat
              /\ \A i \in 1 .. Len(submitted[p]) : submitted[p][i] \in Tasks
              /\ ordered[p] \subseteq Tasks /\ dispatched[p] \subseteq Tasks
              /\ tokens[p] \in Nat
              /\ IsFiniteSet(ordered[p]) /\ Cardinality(ordered[p]) \in Nat
              /\ Cardinality(Put(p)) \in Nat
<1>1. /\ Types /\ RuntimeInv /\ OutputsInv /\ ChainInv
      /\ \A p \in Pools : OwnTasks(p) /\ OnePlace(p) /\ Balanced(p) /\ PriorityOK(p)
  BY DEF Inv, PoolInv
<1>2. ASSUME NEW p \in Pools
      PROVE  /\ submitted[p] \in Seq(Tasks) /\ Len(submitted[p]) \in Nat
             /\ \A i \in 1 .. Len(submitted[p]) : submitted[p][i] \in Tasks
             /\ ordered[p] \subseteq Tasks /\ dispatched[p] \subseteq Tasks
             /\ tokens[p] \in Nat
  BY <1>1, LenProperties, ElementOfSeq DEF Types
<1>3. ASSUME NEW p \in Pools
      PROVE  /\ IsFiniteSet(ordered[p]) /\ Cardinality(ordered[p]) \in Nat
             /\ Cardinality(Put(p)) \in Nat
  <2>1. IsFiniteSet(ordered[p])
    BY <1>1 DEF Balanced
  <2>2. QED  BY <2>1, FS_CardinalityType, PutSetFacts DEF Put
<1>4. QED  BY <1>1, <1>2, <1>3

\* A task is moved from the queue of its pool to those that the runtime can take.
LEMMA OrderKeepsInv ==
  ASSUME UNCHANGED quirk, Inv, NEW pool \in Pools, Order(pool)
  PROVE  Inv'
<1>1. PICK h : h = Head(submitted[pool])
  OBVIOUS
<1>2. /\ submitted[pool] # << >>
      /\ submitted' = [submitted EXCEPT ![pool] = Tail(@)]
      /\ ordered' = [ordered EXCEPT ![pool] = @ \cup {h}]
      /\ UNCHANGED <<pc, handlerVars, tokens, priority, dispatched, runtime, outputs>>
  BY <1>1 DEF Order
<1>3. /\ UNCHANGED <<pc, inputs, grads, task>>
      /\ ChainInv' /\ \A p : Put(p)' = Put(p)
      /\ \A p, t : OwnTask(p, t) => OwnTask(p, t)'
  BY <1>2, HandlersSame
<1>4. submitted[pool] \in Seq(Tasks) /\ Types
  BY InvParts
<1>5. /\ h \in Tasks /\ h = submitted[pool][1]
      /\ Len(submitted[pool]) \in Nat /\ Len(submitted[pool]) >= 1
      /\ Tail(submitted[pool]) \in Seq(Tasks)
      /\ Len(Tail(submitted[pool])) = Len(submitted[pool]) - 1
      /\ \A i \in 1 .. Len(submitted[pool]) - 1 : Tail(submitted[pool])[i] = submitted[pool][i + 1]
  BY <1>1, <1>2, <1>4, TakeFacts
<1>6. /\ \A p \in Pools : submitted'[p] = IF p = pool THEN Tail(submitted[p]) ELSE submitted[p]
      /\ \A p \in Pools : ordered'[p] = IF p = pool THEN ordered[p] \cup {h} ELSE ordered[p]
  BY <1>2, <1>4 DEF Types
<1>7. Types'
  BY <1>2, <1>3, <1>4, <1>5 DEF Types
<1>8. PoolInv'
  <2> SUFFICES ASSUME NEW p \in Pools
               PROVE  OwnTasks(p)' /\ OnePlace(p)' /\ Balanced(p)' /\ PriorityOK(p)'
    BY DEF PoolInv
  <2>1. /\ OwnTasks(p) /\ OnePlace(p) /\ Balanced(p) /\ PriorityOK(p)
        /\ tokens[p] \in Nat /\ Cardinality(Put(p)) \in Nat
        /\ IsFiniteSet(ordered[p]) /\ Cardinality(ordered[p]) \in Nat
    BY InvParts
  <2>2. PriorityOK(p)'
    BY <1>2, <2>1 DEF PriorityOK
  <2>3. CASE p # pool
    <3>1. submitted'[p] = submitted[p] /\ ordered'[p] = ordered[p]
      BY <1>6, <2>3
    <3>2. OwnTasks(p)'
      BY <1>2, <1>3, <2>1, <3>1 DEF OwnTasks
    <3>3. OnePlace(p)'
      BY <1>2, <2>1, <3>1 DEF OnePlace
    <3>4. Balanced(p)'
      BY <1>2, <1>3, <2>1, <3>1 DEF Balanced
    <3>5. QED  BY <2>2, <3>2, <3>3, <3>4
  <2>4. CASE p = pool
    <3>1. /\ ordered'[p] = ordered[p] \cup {h}
          /\ Len(submitted'[p]) = Len(submitted[p]) - 1
          /\ \A i \in 1 .. Len(submitted'[p]) :
               submitted'[p][i] = submitted[p][i + 1] /\ i + 1 \in 1 .. Len(submitted[p])
      <4>1. ordered'[p] = ordered[p] \cup {h} /\ submitted'[p] = Tail(submitted[p])
        BY <1>6, <2>4
      <4>2. Len(submitted'[p]) = Len(submitted[p]) - 1 /\ Len(submitted[p]) \in Nat
        BY <1>5, <2>4, <4>1
      <4>3. ASSUME NEW i \in 1 .. Len(submitted'[p])
            PROVE  submitted'[p][i] = submitted[p][i + 1] /\ i + 1 \in 1 .. Len(submitted[p])
        <5>1. i \in 1 .. Len(submitted[p]) - 1 /\ i + 1 \in 1 .. Len(submitted[p])
          BY <4>2
        <5>2. QED  BY <1>5, <2>4, <4>1, <5>1
      <4>4. QED  BY <4>1, <4>2, <4>3
    <3>2. 1 \in 1 .. Len(submitted[p]) /\ h = submitted[p][1]
      BY <1>5, <2>4
    <3>3. h \notin ordered[p] \cup dispatched[p] /\ OwnTask(p, h)
      BY <2>1, <3>2 DEF OnePlace, OwnTasks
    <3>4. OwnTasks(p)'
      BY <1>2, <1>3, <2>1, <3>1, <3>3 DEF OwnTasks
    <3>5. \A i \in 1 .. Len(submitted'[p]) : submitted'[p][i] # h
      <4> SUFFICES ASSUME NEW i \in 1 .. Len(submitted'[p]), submitted[p][i + 1] = h
                   PROVE  FALSE
        BY <3>1
      <4>1. i + 1 = 1
        BY <2>1, <3>1, <3>2 DEF OnePlace
      <4>2. QED  BY <4>1
    <3>6. OnePlace(p)'
      <4>1. \A i, j \in 1 .. Len(submitted'[p]) : submitted'[p][i] = submitted'[p][j] => i = j
        <5> SUFFICES ASSUME NEW i \in 1 .. Len(submitted'[p]), NEW j \in 1 .. Len(submitted'[p]),
                            submitted'[p][i] = submitted'[p][j]
                     PROVE  i = j
          OBVIOUS
        <5>1. i + 1 = j + 1
          BY <2>1, <3>1 DEF OnePlace
        <5>2. QED  BY <5>1
      <4>2. QED  BY <1>2, <2>1, <3>1, <3>3, <3>5, <4>1, ZenonT(30) DEF OnePlace
    <3>7. Balanced(p)'
      <4>1. IsFiniteSet(ordered'[p]) /\ Cardinality(ordered'[p]) = Cardinality(ordered[p]) + 1
        <5>1. ordered'[p] = ordered[p] \cup {h} /\ h \notin ordered[p]
          BY <3>1, <3>3
        <5>2. IsFiniteSet(ordered[p])
          BY <2>1 DEF Balanced
        <5>3. /\ IsFiniteSet(ordered[p] \cup {h})
              /\ Cardinality(ordered[p] \cup {h}) = Cardinality(ordered[p]) + 1
          BY ONLY <5>1, <5>2, FS_AddElement
        <5>4. QED  BY ONLY <5>1, <5>3
      <4>2. PICK a, b, c, d \in Nat :
              /\ a = tokens[p] /\ b = Cardinality(Put(p))
              /\ c = Len(submitted[p]) /\ d = Cardinality(ordered[p])
        BY <1>5, <2>1, <2>4
      <4>3. a + b = c + d
        BY <2>1, <4>2 DEF Balanced
      <4>4. a + b = (c - 1) + (d + 1)
        BY <4>3
      <4>5. QED  BY <1>2, <1>3, <3>1, <4>1, <4>2, <4>4 DEF Balanced
    <3>8. QED  BY <2>2, <3>4, <3>6, <3>7
  <2>5. QED  BY <2>3, <2>4
<1>9. RuntimeInv' /\ OutputsInv'
  BY <1>2, InvParts DEF RuntimeInv, OutputsInv
<1>10. QED  BY <1>3, <1>7, <1>8, <1>9 DEF Inv

\* The runtime only chooses a pool whose token it can receive.
LEMMA ChoosePoolKeepsInv ==
  ASSUME UNCHANGED quirk, Inv, NEW pool \in Pools, ChoosePool(pool)
  PROVE  Inv'
<1>1. /\ tokens[pool] > 0 /\ runtime' = [at |-> "loading", pool |-> pool, task |-> None]
      /\ UNCHANGED <<pc, handlerVars, submitted, ordered, tokens, priority, dispatched, outputs>>
  BY DEF ChoosePool, poolVars
<1>2. /\ UNCHANGED <<pc, inputs, grads, task>>
      /\ ChainInv' /\ \A p : Put(p)' = Put(p)
      /\ \A p, t : OwnTask(p, t) => OwnTask(p, t)'
  BY <1>1, HandlersSame
<1>3. Types'
  BY <1>1, <1>2, InvParts DEF Types
<1>4. PoolInv'
  BY <1>1, <1>2, InvParts DEF PoolInv, OwnTasks, OnePlace, Balanced, PriorityOK
<1>5. RuntimeInv' /\ OutputsInv'
  BY <1>1, InvParts DEF RuntimeInv, OutputsInv
<1>6. QED  BY <1>2, <1>3, <1>4, <1>5 DEF Inv

\* The priority it publishes is that of the tasks that remain.
LEMMA PublishRemainingKeepsInv ==
  ASSUME UNCHANGED quirk, Inv, PublishRemaining
  PROVE  Inv'
<1>1. /\ runtime.at = "publishing" /\ runtime' = [runtime EXCEPT !.at = "processing"]
      /\ UNCHANGED <<pc, handlerVars, submitted, ordered, tokens, dispatched, outputs>>
      /\ \/ UNCHANGED priority
         \/ \E t \in ordered[runtime.pool] : priority' = [priority EXCEPT ![runtime.pool] = Key(t)]
  BY DEF PublishRemaining
<1>2. /\ UNCHANGED <<pc, inputs, grads, task>>
      /\ ChainInv' /\ \A p : Put(p)' = Put(p)
      /\ \A p, t : OwnTask(p, t) => OwnTask(p, t)'
  BY <1>1, HandlersSame
<1>3. runtime.pool \in Pools
  BY <1>1, InvParts DEF RuntimeInv
<1>4. priority' \in [Pools -> {1, 2, Infinity}] /\ \A p \in Pools : PriorityOK(p)'
  <2>1. priority \in [Pools -> {1, 2, Infinity}] /\ \A p \in Pools : PriorityOK(p)
    BY InvParts DEF Types
  <2>2. CASE UNCHANGED priority
    BY <2>1, <2>2 DEF PriorityOK
  <2>3. ASSUME NEW t \in ordered[runtime.pool],
               priority' = [priority EXCEPT ![runtime.pool] = Key(t)]
        PROVE  priority' \in [Pools -> {1, 2, Infinity}] /\ \A p \in Pools : PriorityOK(p)'
    <3>1. t.pool = runtime.pool
      BY <1>3, InvParts DEF OwnTasks, OwnTask
    <3>2. Key(t) = Prioritize(runtime.pool[1]) /\ Key(t) \in {1, 2}
      BY <1>3, <3>1, PoolFacts DEF Key
    <3>3. QED  BY <1>3, <2>1, <2>3, <3>2 DEF PriorityOK
  <2>4. QED  BY <1>1, <2>2, <2>3
<1>5. Types'
  BY <1>1, <1>2, <1>4, InvParts DEF Types
<1>6. PoolInv'
  BY <1>1, <1>2, <1>4, InvParts DEF PoolInv, OwnTasks, OnePlace, Balanced
<1>7. runtime'.at = "processing" /\ runtime'.pool = runtime.pool /\ runtime'.task = runtime.task
  BY <1>1, InvParts DEF Types
<1>8. RuntimeInv' /\ OutputsInv'
  BY <1>1, <1>7, InvParts DEF RuntimeInv, OutputsInv
<1>9. QED  BY <1>2, <1>5, <1>6, <1>8 DEF Inv

\* The outcome of a task is known once.
LEMMA ProcessBatchKeepsInv ==
  ASSUME UNCHANGED quirk, Inv, ProcessBatch
  PROVE  Inv'
<1>1. /\ runtime.at = "processing"
      /\ runtime' = [at |-> "idle", pool |-> None, task |-> None]
      /\ UNCHANGED <<pc, handlerVars, submitted, ordered, tokens, priority, dispatched>>
  BY DEF ProcessBatch, poolVars
<1>2. PICK o : /\ \E ok \in BOOLEAN : o = [pool |-> runtime.pool, task |-> runtime.task, ok |-> ok]
               /\ outputs' = outputs \cup {o}
  BY DEF ProcessBatch
<1>3. /\ UNCHANGED <<pc, inputs, grads, task>>
      /\ ChainInv' /\ \A p : Put(p)' = Put(p)
      /\ \A p, t : OwnTask(p, t) => OwnTask(p, t)'
  BY <1>1, HandlersSame
<1>4. /\ runtime.pool \in Pools /\ runtime.task \in dispatched[runtime.pool]
      /\ \A u \in outputs : u.task # runtime.task
      /\ OutputsInv
  BY <1>1, InvParts DEF RuntimeInv
<1>5. o \in Outcomes /\ o.pool = runtime.pool /\ o.task = runtime.task
  BY <1>2, <1>4, InvParts DEF Outcomes
<1>6. Types'
  BY <1>1, <1>2, <1>3, <1>5, InvParts DEF Types
<1>7. PoolInv'
  BY <1>1, <1>3, InvParts DEF PoolInv, OwnTasks, OnePlace, Balanced, PriorityOK
<1>8. RuntimeInv'
  BY <1>1 DEF RuntimeInv
<1>9. OutputsInv'
  BY <1>1, <1>2, <1>4, <1>5 DEF OutputsInv
<1>10. QED  BY <1>3, <1>6, <1>7, <1>8, <1>9 DEF Inv

\* It takes a task, with a token, and works at it.
LEMMA LoadBatchKeepsInv ==
  ASSUME UNCHANGED quirk, Inv, LoadBatch
  PROVE  Inv'
<1>1. PICK pool, t : /\ pool = runtime.pool /\ t \in ordered[pool]
                     /\ ordered' = [ordered EXCEPT ![pool] = @ \ {t}]
                     /\ dispatched' = [dispatched EXCEPT ![pool] = @ \cup {t}]
                     /\ tokens' = [tokens EXCEPT ![pool] = @ - 1]
                     /\ runtime' = [at |-> "publishing", pool |-> pool, task |-> t]
  BY DEF LoadBatch
<1>2. runtime.at = "loading" /\ UNCHANGED <<pc, handlerVars, submitted, priority, outputs>>
  BY DEF LoadBatch
<1>3. /\ UNCHANGED <<pc, inputs, grads, task>>
      /\ ChainInv' /\ \A p : Put(p)' = Put(p)
      /\ \A p, u : OwnTask(p, u) => OwnTask(p, u)'
  BY <1>2, HandlersSame
<1>4. pool \in Pools /\ tokens[pool] > 0 /\ tokens[pool] \in Nat /\ t \in Tasks
  BY <1>1, <1>2, InvParts DEF RuntimeInv
<1>5. /\ \A p \in Pools : ordered'[p] = IF p = pool THEN ordered[p] \ {t} ELSE ordered[p]
      /\ \A p \in Pools : dispatched'[p] = IF p = pool THEN dispatched[p] \cup {t} ELSE dispatched[p]
      /\ \A p \in Pools : tokens'[p] = IF p = pool THEN tokens[p] - 1 ELSE tokens[p]
  BY <1>1, <1>4, InvParts DEF Types
<1>6. OwnTask(pool, t) /\ t \notin dispatched[pool]
  BY <1>1, <1>4, InvParts DEF OwnTasks, OnePlace
<1>7. Types'
  <2>1. tokens[pool] - 1 \in Nat
    BY <1>4
  <2>2. QED  BY <1>1, <1>2, <1>3, <1>4, <2>1, InvParts DEF Types
<1>8. PoolInv'
  <2> SUFFICES ASSUME NEW p \in Pools
               PROVE  OwnTasks(p)' /\ OnePlace(p)' /\ Balanced(p)' /\ PriorityOK(p)'
    BY DEF PoolInv
  <2>1. /\ OwnTasks(p) /\ OnePlace(p) /\ Balanced(p) /\ PriorityOK(p)
        /\ tokens[p] \in Nat /\ Cardinality(Put(p)) \in Nat /\ Len(submitted[p]) \in Nat
        /\ IsFiniteSet(ordered[p]) /\ Cardinality(ordered[p]) \in Nat
    BY InvParts
  <2>2. PriorityOK(p)' /\ submitted'[p] = submitted[p]
    BY <1>2, <2>1 DEF PriorityOK
  <2>3. CASE p # pool
    <3>1. ordered'[p] = ordered[p] /\ dispatched'[p] = dispatched[p] /\ tokens'[p] = tokens[p]
      BY <1>5, <2>3
    <3>2. OwnTasks(p)'
      BY <1>3, <2>1, <2>2, <3>1 DEF OwnTasks
    <3>3. OnePlace(p)'
      BY <2>1, <2>2, <3>1 DEF OnePlace
    <3>4. Balanced(p)'
      BY <1>3, <2>1, <2>2, <3>1 DEF Balanced
    <3>5. QED  BY <2>2, <3>2, <3>3, <3>4
  <2>4. CASE p = pool
    <3>1. /\ ordered'[p] = ordered[p] \ {t} /\ dispatched'[p] = dispatched[p] \cup {t}
          /\ tokens'[p] = tokens[p] - 1 /\ t \in ordered[p]
      BY <1>1, <1>5, <2>4
    <3>2. OwnTasks(p)'
      BY <1>3, <1>6, <2>1, <2>2, <2>4, <3>1 DEF OwnTasks
    <3>3. OnePlace(p)'
      BY <2>1, <2>2, <3>1 DEF OnePlace
    <3>4. Balanced(p)'
      <4>1. IsFiniteSet(ordered'[p]) /\ Cardinality(ordered'[p]) = Cardinality(ordered[p]) - 1
        <5>1. /\ IsFiniteSet(ordered[p] \ {t})
              /\ Cardinality(ordered[p] \ {t}) = Cardinality(ordered[p]) - 1
          BY <2>1, <3>1, FS_RemoveElement
        <5>2. QED  BY <3>1, <5>1
      <4>2. PICK a, b, c, d \in Nat :
              /\ a = tokens[p] /\ b = Cardinality(Put(p))
              /\ c = Len(submitted[p]) /\ d = Cardinality(ordered[p])
        BY <2>1
      <4>3. a + b = c + d
        BY <2>1, <4>2 DEF Balanced
      <4>4. (a - 1) + b = c + (d - 1)
        BY <4>3
      <4>5. QED  BY <1>3, <2>2, <3>1, <4>1, <4>2, <4>4 DEF Balanced
    <3>5. QED  BY <2>2, <3>2, <3>3, <3>4
  <2>5. QED  BY <2>3, <2>4
<1>9. ASSUME NEW o \in outputs PROVE o.task # t /\ o.task \in dispatched'[o.pool]
  <2>1. o.pool \in Pools /\ o.task \in dispatched[o.pool]
    BY InvParts DEF OutputsInv, Types, Outcomes
  <2>2. OwnTask(o.pool, o.task)
    BY <2>1, InvParts DEF OwnTasks
  <2>3. o.task = t => o.pool = pool
    BY <1>6, <2>2 DEF OwnTask
  <2>4. QED  BY <1>5, <1>6, <2>1, <2>3
<1>10. RuntimeInv'
  <2>1. t \in dispatched'[pool]
    BY <1>4, <1>5
  <2>2. QED  BY <1>1, <1>2, <1>4, <1>9, <2>1 DEF RuntimeInv
<1>11. OutputsInv'
  BY <1>2, <1>9, InvParts DEF OutputsInv
<1>12. QED  BY <1>3, <1>7, <1>8, <1>10, <1>11 DEF Inv

\* What a request has come to when the outcome of its task is known.
LEMMA OutcomeFacts ==
  ASSUME Inv, NEW o \in outputs
  PROVE  /\ o.pool \in Pools /\ o.task \in Tasks /\ o.task.req \in Requests
         /\ o.task \in dispatched[o.pool] /\ OwnTask(o.pool, o.task)
         /\ runtime.at \in {"publishing", "processing"} => runtime.task # o.task
<1>1. o.pool \in Pools /\ o.task \in dispatched[o.pool] /\ o.task \in Tasks /\ o.task.req \in Requests
  BY InvParts DEF OutputsInv, Types, Outcomes, Tasks
<1>2. OwnTask(o.pool, o.task)
  BY <1>1, InvParts DEF OwnTasks
<1>3. runtime.at \in {"publishing", "processing"} => runtime.task # o.task
  BY InvParts DEF RuntimeInv
<1>4. QED  BY <1>1, <1>2, <1>3

\* Nothing is left of a task whose outcome is known: it is in no place any more.
LEMMA SentIsGone ==
  ASSUME Inv, NEW o \in outputs, NEW p \in Pools, NEW u \in Tasks,
         \/ \E i \in 1 .. Len(submitted[p]) : u = submitted[p][i]
         \/ u \in ordered[p]
         \/ u \in dispatched[p] /\ u # o.task
  PROVE  u.req # o.task.req /\ OwnTask(p, u) /\ u # o.task
<1>1. OwnTask(p, u)
  BY InvParts DEF OwnTasks
<1>2. /\ o.pool \in Pools /\ o.task \in dispatched[o.pool] /\ OwnTask(o.pool, o.task)
  BY OutcomeFacts
<1>3. u.req = o.task.req => u = o.task /\ p = o.pool
  BY <1>1, <1>2 DEF OwnTask
<1>4. u # o.task
  <2> SUFFICES ASSUME u = o.task PROVE FALSE
    OBVIOUS
  <2>1. p = o.pool
    BY <1>3
  <2>2. QED  BY <1>2, <2>1, InvParts DEF OnePlace
<1>5. QED  BY <1>1, <1>3, <1>4

\* A task of all blocks gives the result of the step, one of a block the hidden states
\* after it, a backward task the gradient of its block.
LEMMA OutputFacts ==
  ASSUME Inv, NEW r \in Requests, pc[r] \in Busy, NEW t, t = task[r]
  PROVE  /\ t.pool[1] # "backward" /\ Merged(r) =>
              Len(inputs[r]) = 1 /\ Output(t) = Passed(Span[r])
         /\ t.pool[1] # "backward" /\ ~Merged(r) =>
              Len(inputs[r]) <= LastForward(r) /\ Output(t) = Passed(Len(inputs[r]))
         /\ t.pool[1] = "backward" =>
              /\ Kind[r] = "backward" /\ Len(inputs[r]) = Span[r] /\ Len(grads[r]) < Span[r]
              /\ Output(t) = Gradient(r, Len(grads[r]) + 1)
<1>1. /\ t.pool = NextPool(r) /\ t.input = TaskInput(r, NextPool(r)) /\ ~Finished(r)
      /\ t.infos = InferenceInfos(r) /\ ChainOK(r) /\ Types
  BY BusyFacts, InvParts DEF ChainInv
<1>2. /\ Len(inputs[r]) \in Nat /\ Len(grads[r]) \in Nat
  BY <1>1, LenProperties DEF Types
<1>3. CASE Merged(r)
  <2>1. /\ t.pool = <<"inference", 0>> /\ Len(inputs[r]) = 1
        /\ t.input = Passed(0) /\ t.infos = Passed(Span[r])
    BY <1>1, <1>3, NextTaskFacts
  <2>2. Output(t) = Passed(0) \o Passed(Span[r])
    BY <2>1 DEF Output
  <2>3. Output(t) = Passed(Span[r])
    BY <2>2, PassedFacts, KindFacts
  <2>4. QED  BY <1>3, <2>1, <2>3
<1>4. CASE ~Merged(r) /\ Len(inputs[r]) <= LastForward(r)
  <2>1. PICK n \in Nat : n + 1 = Len(inputs[r]) /\ n = Len(inputs[r]) - 1
    <3>1. Len(inputs[r]) >= 1
      BY <1>1, <1>4, KindFacts DEF ChainOK
    <3>2. Len(inputs[r]) - 1 \in Nat
      BY <1>2, <3>1
    <3>3. Len(inputs[r]) - 1 + 1 = Len(inputs[r])
      BY <1>2
    <3>4. QED  BY <3>2, <3>3
  <2>2. ForwardTaskOK(r)
    BY <1>1, <1>4, NextTaskFacts
  <2>3. t.input = Passed(n)
    BY <1>1, <2>1, <2>2 DEF ForwardTaskOK
  <2>4. CASE Kind[r] = "inference"
    <3>1. t.pool = <<"inference", 0>> /\ t.infos = <<n + 1>>
      BY <1>1, <2>1, <2>2, <2>4 DEF ForwardTaskOK
    <3>2. Output(t) = Passed(n) \o <<n + 1>>
      BY <2>3, <3>1 DEF Output
    <3>3. Output(t) = Passed(n + 1)
      BY <3>2, PassedFacts
    <3>4. QED  BY <1>4, <2>1, <3>1, <3>3
  <2>5. CASE Kind[r] # "inference"
    <3>1. t.pool = <<"forward", n + 1>>
      BY <1>1, <2>1, <2>2, <2>5 DEF ForwardTaskOK
    <3>2. Output(t) = Append(Passed(n), n + 1)
      BY <2>3, <3>1 DEF Output
    <3>3. Output(t) = Passed(n + 1)
      BY <3>2, PassedFacts
    <3>4. QED  BY <1>4, <2>1, <3>1, <3>3
  <2>6. QED  BY <2>4, <2>5
<1>5. CASE ~Merged(r) /\ Len(inputs[r]) > LastForward(r)
  <2>1. /\ Kind[r] = "backward" /\ Len(inputs[r]) = Span[r] /\ Len(grads[r]) < Span[r]
        /\ t.pool = <<"backward", Span[r] - Len(grads[r])>>
        /\ t.input = Passed(Span[r] - Len(grads[r]) - 1)
    BY <1>1, <1>5, NextTaskFacts
  <2>2. Output(t) = [block |-> Span[r] - Len(grads[r]), input |-> Passed(Span[r] - Len(grads[r]) - 1)]
    BY <2>1 DEF Output
  <2>3. /\ Span[r] - Len(grads[r]) = Span[r] + 1 - (Len(grads[r]) + 1)
        /\ Span[r] - Len(grads[r]) - 1 = Span[r] - (Len(grads[r]) + 1)
    BY <1>2, KindFacts
  <2>4. Output(t) = Gradient(r, Len(grads[r]) + 1)
    BY <2>2, <2>3 DEF Gradient
  <2>5. QED  BY <2>1, <2>4
<1>6. QED  BY <1>2, <1>3, <1>4, <1>5, KindFacts

\* The pools after an outcome is sent to its request.
LEMMA SentKeepsPools ==
  ASSUME Inv, NEW o \in outputs, NEW r, r = o.task.req, outputs' = outputs \ {o},
         dispatched' = [dispatched EXCEPT ![o.pool] = @ \ {o.task}],
         UNCHANGED <<submitted, ordered, tokens, priority, runtime>>,
         \A q \in Requests : q # r => pc'[q] = pc[q] /\ task'[q] = task[q],
         pc[r] # "put", pc'[r] # "put"
  PROVE  PoolInv' /\ RuntimeInv' /\ OutputsInv'
<1>1. /\ o.pool \in Pools /\ o.task \in dispatched[o.pool] /\ r \in Requests
      /\ runtime.at \in {"publishing", "processing"} => runtime.task # o.task
  BY OutcomeFacts
<1>2. \A p \in Pools : /\ dispatched'[p] \subseteq dispatched[p] /\ o.task \notin dispatched'[p]
                       /\ \A u \in dispatched[p] : u # o.task => u \in dispatched'[p]
  <2> SUFFICES ASSUME NEW p \in Pools
               PROVE  /\ dispatched'[p] \subseteq dispatched[p] /\ o.task \notin dispatched'[p]
                      /\ \A u \in dispatched[p] : u # o.task => u \in dispatched'[p]
    OBVIOUS
  <2>1. dispatched'[p] = IF p = o.pool THEN dispatched[p] \ {o.task} ELSE dispatched[p]
    BY <1>1, InvParts DEF Types
  <2>2. o.task \in dispatched[p] => p = o.pool
    <3>1. o.task.pool = o.pool
      BY OutcomeFacts DEF OwnTask
    <3>2. o.task \in dispatched[p] => OwnTask(p, o.task)
      BY InvParts DEF OwnTasks
    <3>3. QED  BY <3>1, <3>2 DEF OwnTask
  <2>3. QED  BY <2>1, <2>2
<1>3. PoolInv'
  <2> SUFFICES ASSUME NEW p \in Pools
               PROVE  OwnTasks(p)' /\ OnePlace(p)' /\ Balanced(p)' /\ PriorityOK(p)'
    BY DEF PoolInv
  <2>1. /\ OwnTasks(p) /\ OnePlace(p) /\ Balanced(p) /\ PriorityOK(p)
    BY InvParts
  <2>2. ASSUME NEW u \in Tasks, u.req # r, OwnTask(p, u) PROVE OwnTask(p, u)'
    <3>1. u.req \in Requests
      BY DEF Tasks
    <3>2. QED  BY <2>2, <3>1 DEF OwnTask
  <2>3. \A i \in 1 .. Len(submitted[p]) : OwnTask(p, submitted[p][i])'
    <3> SUFFICES ASSUME NEW i \in 1 .. Len(submitted[p]) PROVE OwnTask(p, submitted[p][i])'
      OBVIOUS
    <3>1. submitted[p][i] \in Tasks
      BY InvParts
    <3>2. submitted[p][i].req # r /\ OwnTask(p, submitted[p][i])
      BY <3>1, SentIsGone
    <3>3. PICK u : u = submitted[p][i]
      OBVIOUS
    <3>4. OwnTask(p, u)'
      BY <2>2, <3>1, <3>2, <3>3
    <3>5. QED  BY <3>3, <3>4
  <2>4. \A u \in ordered[p] \cup dispatched'[p] : OwnTask(p, u)'
    <3> SUFFICES ASSUME NEW u \in ordered[p] \cup dispatched'[p] PROVE OwnTask(p, u)'
      OBVIOUS
    <3>1. u \in Tasks /\ (u \in ordered[p] \/ (u \in dispatched[p] /\ u # o.task))
      BY <1>2, InvParts
    <3>2. QED  BY <2>2, <3>1, SentIsGone
  <2>5. OwnTasks(p)'
    BY <2>3, <2>4 DEF OwnTasks
  <2>6. OnePlace(p)'
    BY <1>2, <2>1 DEF OnePlace
  <2>7. Put(p)' = Put(p)
    BY <1>1 DEF Put
  <2>8. QED  BY <2>1, <2>5, <2>6, <2>7 DEF Balanced, PriorityOK
<1>4. RuntimeInv'
  <2>1. RuntimeInv
    BY InvParts
  <2>2. runtime.at \in {"publishing", "processing"} => runtime.task \in dispatched'[runtime.pool]
    BY <1>1, <1>2, <2>1 DEF RuntimeInv
  <2>3. QED  BY <2>1, <2>2 DEF RuntimeInv
<1>5. OutputsInv'
  <2>1. OutputsInv
    BY InvParts
  <2>2. ASSUME NEW u \in outputs, u # o PROVE u.task \in dispatched'[u.pool]
    <3>1. u.pool \in Pools /\ u.task \in dispatched[u.pool] /\ u.task # o.task
      BY <2>1, <2>2, OutcomeFacts DEF OutputsInv
    <3>2. QED  BY <1>2, <3>1
  <2>3. QED  BY <2>1, <2>2 DEF OutputsInv
<1>6. QED  BY <1>3, <1>4, <1>5

\* What a request has passed is extended by one.
LEMMA ExtendFacts ==
  ASSUME NEW S, NEW q \in Seq(S), NEW e \in S
  PROVE  /\ Append(q, e) \in Seq(S) /\ Len(q) \in Nat
         /\ Len(Append(q, e)) = Len(q) + 1
         /\ \A i \in 1 .. Len(q) : Append(q, e)[i] = q[i]
         /\ Append(q, e)[Len(q) + 1] = e
  BY AppendProperties, LenProperties

\* A request whose task succeeded has passed one block more; one whose task failed is
\* at its end.
LEMMA SentKeepsChain ==
  ASSUME UNCHANGED quirk, Inv, NEW r \in Requests, pc[r] = "waiting", NEW t, t = task[r], NEW ok \in BOOLEAN,
         pc' = [pc EXCEPT ![r] = IF ok THEN "ready" ELSE "failed"],
         inputs' = [inputs EXCEPT ![r] = IF ok /\ t.pool[1] # "backward" THEN Append(@, Output(t)) ELSE @],
         grads' = [grads EXCEPT ![r] = IF ok /\ t.pool[1] = "backward" THEN Append(@, Output(t)) ELSE @],
         task' = [task EXCEPT ![r] = None]
  PROVE  /\ inputs' \in [Requests -> Seq(Seq(Nat))] /\ grads' \in [Requests -> Seq(Gradients)]
         /\ ChainOK(r)'
<1>1. Types /\ ChainOK(r)
  BY InvParts DEF ChainInv
<1>2. /\ inputs[r] \in Seq(Seq(Nat)) /\ Len(inputs[r]) \in Nat
      /\ grads[r] \in Seq(Gradients) /\ Len(grads[r]) \in Nat
  BY <1>1, LenProperties DEF Types
<1>3. pc'[r] \notin Busy \cup {"answering", "done"}
  BY <1>1 DEF Types, Busy
<1>4. CASE ~ok
  <2>1. inputs' = inputs /\ grads' = grads
    BY <1>1, <1>4 DEF Types
  <2>2. QED  BY <1>1, <1>3, <2>1 DEF ChainOK, LastForward, Types, Merged
<1>5. CASE ok /\ t.pool[1] = "backward"
  <2>1. /\ Kind[r] = "backward" /\ Len(inputs[r]) = Span[r] /\ Len(grads[r]) < Span[r]
        /\ Output(t) = Gradient(r, Len(grads[r]) + 1)
    BY <1>5, OutputFacts DEF Busy
  <2>2. PICK m, n \in Nat : m = Len(grads[r]) + 1 /\ n = Span[r] - m /\ m <= Span[r] /\ m >= 1
    <3>1. PICK g \in Nat, l \in Nat : g = Len(grads[r]) /\ l = Span[r] /\ g < l
      BY <1>2, <2>1, KindFacts
    <3>2. g + 1 \in Nat /\ l - (g + 1) \in Nat /\ g + 1 <= l /\ g + 1 >= 1
      BY <3>1
    <3>3. QED  BY <3>1, <3>2
  <2>3. Output(t) \in Gradients
    <3>1. Span[r] + 1 - m \in Nat
      BY <2>2, KindFacts
    <3>2. Passed(n) \in Seq(Nat)
      BY PassedFacts
    <3>3. Output(t) = [block |-> Span[r] + 1 - m, input |-> Passed(n)]
      BY <2>1, <2>2 DEF Gradient
    <3>4. QED  BY <3>1, <3>2, <3>3 DEF Gradients
  <2>4. inputs' = inputs /\ grads' = [grads EXCEPT ![r] = Append(@, Output(t))]
    BY <1>1, <1>5 DEF Types
  <2>5. /\ grads'[r] = Append(grads[r], Output(t)) /\ grads'[r] \in Seq(Gradients)
        /\ Len(grads'[r]) = Len(grads[r]) + 1
        /\ \A i \in 1 .. Len(grads[r]) : grads'[r][i] = grads[r][i]
        /\ grads'[r][Len(grads[r]) + 1] = Output(t)
    <3>1. grads'[r] = Append(grads[r], Output(t))
      BY <1>1, <2>4 DEF Types
    <3>2. QED  BY <1>2, <2>3, <3>1, ExtendFacts
  <2>6. grads' \in [Requests -> Seq(Gradients)]
    BY <1>1, <2>4, <2>5 DEF Types
  <2>7. ASSUME NEW i \in 1 .. Len(grads'[r]) PROVE grads'[r][i] = Gradient(r, i)
    <3>1. i \in 1 .. Len(grads[r]) \/ i = Len(grads[r]) + 1
      BY <1>2, <2>5
    <3>2. QED  BY <1>1, <2>1, <2>5, <3>1 DEF ChainOK
  <2>8. Len(grads'[r]) \in 0 .. Span[r]
    BY <2>2, <2>5, KindFacts
  <2>9. ChainOK(r)'
    BY <1>1, <1>3, <2>1, <2>4, <2>7, <2>8 DEF ChainOK, LastForward, Merged
  <2>10. QED  BY <1>1, <2>4, <2>6, <2>9 DEF Types
<1>6. CASE ok /\ t.pool[1] # "backward"
  <2>1. /\ Merged(r) => Len(inputs[r]) = 1 /\ Output(t) = Passed(Span[r])
        /\ ~Merged(r) => Len(inputs[r]) <= LastForward(r) /\ Output(t) = Passed(Len(inputs[r]))
    BY <1>6, OutputFacts DEF Busy
  <2>2. Output(t) \in Seq(Nat)
    BY <1>2, <2>1, KindFacts, PassedFacts
  <2>3. grads' = grads /\ inputs' = [inputs EXCEPT ![r] = Append(@, Output(t))]
    BY <1>1, <1>6 DEF Types
  <2>4. /\ inputs'[r] \in Seq(Seq(Nat))
        /\ Len(inputs'[r]) = Len(inputs[r]) + 1
        /\ \A i \in 1 .. Len(inputs[r]) : inputs'[r][i] = inputs[r][i]
        /\ inputs'[r][Len(inputs[r]) + 1] = Output(t)
    <3>1. inputs'[r] = Append(inputs[r], Output(t))
      BY <1>1, <2>3 DEF Types
    <3>2. QED  BY <1>2, <2>2, <3>1, ExtendFacts
  <2>5. inputs' \in [Requests -> Seq(Seq(Nat))]
    BY <1>1, <2>3, <2>4 DEF Types
  <2>6. Len(grads[r]) = 0
    <3>1. Kind[r] = "backward" => ~Merged(r) /\ Len(inputs[r]) # Span[r]
      BY <1>2, <2>1, KindFacts DEF Merged
    <3>2. QED  BY <1>1, <1>2, <3>1 DEF ChainOK
  <2>7. ASSUME Merged(r)
        PROVE  /\ Len(inputs'[r]) \in {1, 2} /\ inputs'[r][1] = Passed(0)
               /\ Len(inputs'[r]) = 2 => inputs'[r][2] = Passed(Span[r])
    BY <1>1, <2>1, <2>4, <2>7 DEF ChainOK
  <2>8. ASSUME ~Merged(r)
        PROVE  /\ Len(inputs'[r]) \in 1 .. LastForward(r) + 1
               /\ \A i \in 1 .. Len(inputs'[r]) : inputs'[r][i] = Passed(i - 1)
    <3>1. Len(inputs[r]) <= LastForward(r) /\ Output(t) = Passed(Len(inputs[r]))
      BY <2>1, <2>8
    <3>2. Len(inputs'[r]) \in 1 .. LastForward(r) + 1
      BY <1>2, <2>4, <3>1, KindFacts
    <3>3. ASSUME NEW i \in 1 .. Len(inputs'[r]) PROVE inputs'[r][i] = Passed(i - 1)
      <4>1. i \in 1 .. Len(inputs[r]) \/ (i = Len(inputs[r]) + 1 /\ i - 1 = Len(inputs[r]))
        BY <1>2, <2>4
      <4>2. QED  BY <1>1, <2>4, <2>8, <3>1, <4>1 DEF ChainOK
    <3>4. QED  BY <3>2, <3>3
  <2>9. ChainOK(r)'
    BY <1>1, <1>3, <2>3, <2>6, <2>7, <2>8, KindFacts DEF ChainOK, LastForward, Merged
  <2>10. QED  BY <1>1, <2>3, <2>5, <2>9 DEF Types
<1>7. QED  BY <1>4, <1>5, <1>6

\* A request learns the outcome of its own task, if it still waits.
LEMMA SendOutputsKeepsInv ==
  ASSUME UNCHANGED quirk, Inv, NEW o \in outputs, SendOutputs(o)
  PROVE  Inv'
<1>1. PICK t, r : t = o.task /\ r = o.task.req
  OBVIOUS
<1>2. /\ outputs' = outputs \ {o} /\ dispatched' = [dispatched EXCEPT ![o.pool] = @ \ {o.task}]
      /\ UNCHANGED <<submitted, ordered, tokens, priority, runtime>>
      /\ pc[r] \in {"waiting", "failed"}
  BY <1>1 DEF SendOutputs
<1>3. /\ o.pool \in Pools /\ t \in Tasks /\ r \in Requests
      /\ t.pool = o.pool /\ task[r] = t /\ Types /\ ChainInv
      /\ o.ok \in BOOLEAN
  BY <1>1, OutcomeFacts, InvParts DEF OwnTask, Types, Outcomes
<1>4. dispatched' \in [Pools -> SUBSET Tasks]
  BY <1>2, <1>3 DEF Types
<1>5. CASE pc[r] = "failed"
  <2>1. UNCHANGED <<pc, handlerVars>>
    BY <1>1, <1>5 DEF SendOutputs
  <2>2. UNCHANGED <<pc, inputs, grads, task>> /\ ChainInv'
    BY <2>1, HandlersSame
  <2>3. Types'
    BY <1>2, <1>3, <1>4, <2>2 DEF Types
  <2>4. PoolInv' /\ RuntimeInv' /\ OutputsInv'
    BY <1>1, <1>2, <1>5, <2>2, SentKeepsPools
  <2>5. QED  BY <2>2, <2>3, <2>4 DEF Inv
<1>6. CASE pc[r] = "waiting"
  <2>1. /\ pc' = [pc EXCEPT ![r] = IF o.ok THEN "ready" ELSE "failed"]
        /\ inputs' = [inputs EXCEPT ![r] = IF o.ok /\ t.pool[1] # "backward" THEN Append(@, Output(t)) ELSE @]
        /\ grads' = [grads EXCEPT ![r] = IF o.ok /\ t.pool[1] = "backward" THEN Append(@, Output(t)) ELSE @]
        /\ task' = [task EXCEPT ![r] = None]
    BY <1>1, <1>3, <1>6 DEF SendOutputs
  <2>2. /\ inputs' \in [Requests -> Seq(Seq(Nat))] /\ grads' \in [Requests -> Seq(Gradients)]
        /\ ChainOK(r)'
    BY <1>3, <1>6, <2>1, SentKeepsChain
  <2>3. /\ pc' \in [Requests -> PcStates] /\ task' \in [Requests -> Tasks \cup {None}]
        /\ pc'[r] # "put"
        /\ \A q \in Requests : q # r => /\ pc'[q] = pc[q] /\ task'[q] = task[q]
                                        /\ inputs'[q] = inputs[q] /\ grads'[q] = grads[q]
    <3>1. PICK step \in {"ready", "failed"} : pc' = [pc EXCEPT ![r] = step]
      BY <2>1
    <3>2. QED  BY <1>3, <2>1, <3>1 DEF Types, PcStates
  <2>4. Types'
    BY <1>2, <1>3, <1>4, <2>2, <2>3 DEF Types
  <2>5. PoolInv' /\ RuntimeInv' /\ OutputsInv'
    <3>1. r = o.task.req /\ pc[r] # "put"
      BY <1>1, <1>6
    <3>2. \A q \in Requests : q # r => pc'[q] = pc[q] /\ task'[q] = task[q]
      BY <2>3
    <3>3. QED  BY <1>2, <2>3, <3>1, <3>2, SentKeepsPools
  <2>6. ASSUME NEW q \in Requests, q # r PROVE ChainOK(q)'
    BY <1>3, <2>3, <2>6, ChainKeeps DEF ChainInv
  <2>7. QED  BY <2>2, <2>4, <2>5, <2>6 DEF Inv, ChainInv
<1>7. QED  BY <1>2, <1>5, <1>6

--------------------------------------------------------------------------------
(* Theorems *)

\* Every action keeps the invariant.
LEMMA NextKeepsInv == Inv /\ [Next]_vars => Inv'
<1> SUFFICES ASSUME Inv, [Next]_vars PROVE Inv'
  OBVIOUS
<1>0. UNCHANGED quirk
  BY DEF Next, vars
<1>1. ASSUME NEW r \in Requests, Handler(r) \/ RequestTimeout(r) PROVE Inv'
  BY <1>0, <1>1, MessagesKeepInv, SubmitKeepsInv, SendTokenKeepsInv, PriorityKeepsInv DEF Handler
<1>2. ASSUME NEW pool \in Pools, Order(pool) PROVE Inv'
  BY <1>0, <1>2, OrderKeepsInv
<1>3. CASE Runtime
  BY <1>0, <1>3, ChoosePoolKeepsInv, LoadBatchKeepsInv, PublishRemainingKeepsInv, ProcessBatchKeepsInv
     DEF Runtime
<1>4. ASSUME NEW o \in outputs, SendOutputs(o) PROVE Inv'
  BY <1>0, <1>4, SendOutputsKeepsInv
<1>5. CASE UNCHANGED vars
  <2>1. UNCHANGED <<pc, handlerVars, submitted, ordered, tokens, priority, dispatched, runtime, outputs>>
    BY <1>5 DEF vars, poolVars
  <2>2. /\ UNCHANGED <<pc, inputs, grads, task>>
        /\ ChainInv' /\ \A p : Put(p)' = Put(p)
        /\ \A p, t : OwnTask(p, t) => OwnTask(p, t)'
    BY <1>0, <2>1, HandlersSame
  <2>3. Types'
    BY <2>1, <2>2, InvParts DEF Types
  <2>4. PoolInv'
    BY <2>1, <2>2, InvParts DEF PoolInv, OwnTasks, OnePlace, Balanced, PriorityOK
  <2>5. RuntimeInv' /\ OutputsInv'
    BY <2>1, InvParts DEF RuntimeInv, OutputsInv
  <2>6. QED  BY <2>2, <2>3, <2>4, <2>5 DEF Inv
<1>6. QED  BY <1>1, <1>2, <1>3, <1>4, <1>5 DEF Next, Progress

\* The inductive invariant holds in every state.
THEOREM InvariantHolds == Spec => []Inv
BY InitInv, NextKeepsInv, PTL DEF Spec

\* Pools hold tasks of their own, and outcomes are those of dispatched tasks.
THEOREM TypeCorrect == Spec => []TypeOK
<1>1. Inv => TypeOK
  <2> SUFFICES ASSUME Inv PROVE TypeOK
    OBVIOUS
  <2>1. \A p \in Pools :
          /\ \A t \in ordered[p] \cup dispatched[p] : t.pool = p
          /\ \A i \in 1 .. Len(submitted[p]) : submitted[p][i].pool = p
    BY InvParts DEF OwnTasks, OwnTask
  <2>2. \A o \in outputs : o.task \in dispatched[o.pool]
    BY InvParts DEF OutputsInv
  <2>3. QED  BY <2>1, <2>2, InvParts DEF TypeOK, Types, PcStates
<1>2. QED  BY <1>1, InvariantHolds, PTL

\* Each token stands for a task that waits: what load_batch_to_runtime
\* takes from a pool it was woken for is there.
THEOREM RuntimeNeverStarves == Spec => []TokensBacked
<1>1. Inv => TokensBacked
  <2> SUFFICES ASSUME Inv, NEW p \in Pools
               PROVE  tokens[p] <= Len(submitted[p]) + Cardinality(ordered[p])
    BY DEF TokensBacked
  <2>1. PICK a, b, c, d \in Nat :
          /\ a = tokens[p] /\ b = Cardinality(Put(p))
          /\ c = Len(submitted[p]) /\ d = Cardinality(ordered[p])
    BY InvParts
  <2>2. a + b = c + d
    BY <2>1, InvParts DEF Balanced
  <2>3. a <= c + d
    BY <2>2
  <2>4. QED  BY <2>1, <2>3
<1>2. QED  BY <1>1, InvariantHolds, PTL

\* Every request that is answered gets the result of its own chain of tasks.
THEOREM ResultsAreRight == Spec => []RightResult
<1>1. Inv => RightResult
  <2> SUFFICES ASSUME Inv, NEW r \in Requests, pc[r] = "done"
               PROVE  IF Kind[r] = "backward"
                      THEN grads[r] = [i \in 1 .. Span[r] |->
                                         [block |-> Span[r] + 1 - i, input |-> [b \in 1 .. (Span[r] - i) |-> b]]]
                      ELSE inputs[r][Len(inputs[r])] = [b \in 1 .. Span[r] |-> b]
    BY DEF RightResult
  <2>1. ChainOK(r) /\ Finished(r) /\ Types
    BY InvParts DEF ChainInv, ChainOK
  <2>2. CASE Kind[r] = "backward"
    <3>1. grads[r] \in Seq(Gradients) /\ Len(grads[r]) = Span[r]
      BY <2>1, <2>2 DEF Types, Finished, Merged
    <3>2. DOMAIN grads[r] = 1 .. Span[r] /\ grads[r] = [i \in DOMAIN grads[r] |-> grads[r][i]]
      BY <3>1, LenProperties
    <3>3. \A i \in 1 .. Span[r] :
            grads[r][i] = [block |-> Span[r] + 1 - i, input |-> [b \in 1 .. (Span[r] - i) |-> b]]
      BY <2>1, <3>1 DEF ChainOK, Gradient, Passed
    <3>4. QED  BY <2>2, <3>2, <3>3
  <2>3. CASE Merged(r)
    BY <2>1, <2>3 DEF ChainOK, Finished, Passed, Merged
  <2>4. CASE Kind[r] # "backward" /\ ~Merged(r)
    <3>1. Len(inputs[r]) = Span[r] + 1
      BY <2>1, <2>4 DEF Finished
    <3>2. inputs[r][Span[r] + 1] = Passed(Span[r] + 1 - 1)
      BY <2>1, <2>4, <3>1, KindFacts DEF ChainOK
    <3>3. Span[r] + 1 - 1 = Span[r]
      BY KindFacts
    <3>4. QED  BY <2>4, <3>1, <3>2, <3>3 DEF Passed
  <2>5. QED  BY <2>2, <2>3, <2>4, KindFacts
<1>2. QED  BY <1>1, InvariantHolds, PTL

=================================================================================
