--------------------------- MODULE MemoryCacheProofs ---------------------------
(***************************************************************************)
(* Proofs about MemoryCache for every set of requests and processes, every *)
(* assignment of sizes and timeouts, and every budget and pipe capacity.   *)
(***************************************************************************)
EXTENDS MemoryCache, FiniteSetTheorems, SequenceTheorems, TLAPS

USE ConstantsAssumption

--------------------------------------------------------------------------------
(* Type correctness *)

\* The initial state is well typed.
LEMMA InitTypeOK == Init => TypeOK
<1> SUFFICES ASSUME Init  PROVE TypeOK
  OBVIOUS
<1>1. /\ pc \in [Requests -> PcStates]
      /\ th \in [Requests -> ThStates]
      /\ result \in [Requests -> {"none", "ok", "keyerror"}]
  BY DEF Init, PcStates, ThStates
<1>2. handles \in [Requests -> SUBSET Nat]
  BY DEF Init
<1>3. pipe \in Seq(Messages)
  BY DEF Init
<1>4. current_size \in Int /\ enqueued_size \in Int /\ handle_counter \in Nat
  BY DEF Init
<1>5. lock \in Requests \cup {Nobody} /\ running \in Requests \cup {Nobody}
  BY DEF Init
<1>6. freed_event \in BOOLEAN /\ tensors \in SUBSET Nat /\ submitted \in SUBSET Requests
  BY Zenon DEF Init
<1>7. QED  BY <1>1, <1>2, <1>3, <1>4, <1>5, <1>6 DEF TypeOK

\* The steps of a handler's event loop keep every variable in its type.
LEMMA HandlerTypeOK ==
  ASSUME TypeOK, NEW r \in Requests, Handler(r)
  PROVE  TypeOK'
<1>0. pipe \in Seq(Messages)
  BY DEF TypeOK
<1> USE DEF TypeOK, PcStates, ThStates, cacheVars, runtimeVars
<1>1. CASE Enqueue(r)
  <2>1. pc' \in [Requests -> PcStates] /\ th' \in [Requests -> ThStates]
    BY <1>1 DEF Enqueue
  <2>2. enqueued_size' \in Int
    BY <1>1 DEF Enqueue
  <2>3. QED  BY <1>1, <2>1, <2>2 DEF Enqueue
<1>2. CASE CheckImmediate(r)  BY <1>2 DEF CheckImmediate
<1>3. CASE CheckLocked(r)
  <2>1. /\ pc' \in [Requests -> PcStates]
        /\ th' \in [Requests -> ThStates]
        /\ lock' \in Requests \cup {Nobody}
    BY <1>3, ZenonT(30) DEF CheckLocked
  <2>2. QED  BY <1>3, <2>1 DEF CheckLocked
<1>4. CASE FinishWaiting(r)  BY <1>4 DEF FinishWaiting, Goto
<1>5. CASE CancelLocking(r)  BY <1>5 DEF CancelLocking, Goto
<1>6. CASE CancelWaiting(r)  BY <1>6 DEF CancelWaiting, Goto
<1>7. CASE Fail(r)  BY <1>7 DEF Fail, Goto
<1>8. CASE Dequeue(r)  BY <1>8 DEF Dequeue, Goto
<1>9. CASE Commit(r)
  <2> DEFINE hs == handle_counter .. (handle_counter + NumTensors[r] - 1)
  <2>1. hs \in SUBSET Nat
    OBVIOUS
  <2>2. Message(hs, TRUE) \in Messages
    BY <2>1 DEF Message, Messages
  <2> HIDE DEF TypeOK, hs
  <2>3. pipe' \in Seq(Messages)
    <3>1. pipe' = Append(pipe, Message(hs, TRUE))
      BY <1>9 DEF Commit, hs
    <3>2. QED  BY <1>0, <2>2, <3>1, AppendProperties
  <2>4. handles' \in [Requests -> SUBSET Nat]
    BY <1>9, <2>1 DEF Commit, TypeOK, hs
  <2>5. /\ pc' \in [Requests -> PcStates]
        /\ current_size' \in Int /\ handle_counter' \in Nat
    BY <1>9, SMTT(30) DEF Commit, Goto, TypeOK
  <2>6. QED  BY <1>9, <2>3, <2>4, <2>5 DEF Commit, TypeOK
<1>10. CASE Free(r)
  <2>1. Message(handles[r], FALSE) \in Messages
    BY DEF Message, Messages
  <2> HIDE DEF TypeOK
  <2>2. pipe' \in Seq(Messages)
    BY <1>0, <1>10, <2>1, AppendProperties DEF Free
  <2>3. pc' \in [Requests -> PcStates] /\ current_size' \in Int
    BY <1>10 DEF Free, Goto, TypeOK
  <2>4. QED  BY <1>10, <2>2, <2>3 DEF Free, TypeOK
<1>11. CASE SignalFreed(r)  BY <1>11 DEF SignalFreed, Goto
<1>12. CASE SubmitStep(r)  BY <1>12 DEF SubmitStep
<1>13. QED
  BY <1>1, <1>2, <1>3, <1>4, <1>5, <1>6, <1>7, <1>8, <1>9, <1>10, <1>11, <1>12 DEF Handler

\* The steps of an executor thread keep every variable in its type.
LEMMA ThreadTypeOK ==
  ASSUME TypeOK, NEW r \in Requests, Thread(r)
  PROVE  TypeOK'
<1> USE DEF TypeOK, PcStates, ThStates, cacheVars, runtimeVars, ThreadGoto
<1>1. CASE AcquireLock(r)  BY <1>1 DEF AcquireLock
<1>2. CASE TestAvailable(r)  BY <1>2 DEF TestAvailable
<1>3. CASE ParkOnEvent(r)  BY <1>3 DEF ParkOnEvent
<1>4. CASE WakeFromEvent(r)  BY <1>4 DEF WakeFromEvent
<1>5. CASE WaitTimesOut(r)  BY <1>5 DEF WaitTimesOut
<1>6. CASE ClearEvent(r)  BY <1>6 DEF ClearEvent
<1>7. QED  BY <1>1, <1>2, <1>3, <1>4, <1>5, <1>6 DEF Thread

\* The steps of the runtime keep every variable in its type.
LEMMA RuntimeTypeOK ==
  ASSUME TypeOK, Runtime
  PROVE  TypeOK'
<1> USE DEF TypeOK, cacheVars, runtimeVars
<1>1. CASE DrainPipe
  <2>1. Head(pipe) \in Messages /\ Tail(pipe) \in Seq(Messages)
    BY <1>1 DEF DrainPipe
  <2>2. tensors' \in SUBSET Nat
    BY <1>1, <2>1 DEF DrainPipe, Messages
  <2>3. QED  BY <1>1, <2>1, <2>2 DEF DrainPipe
<1>2. ASSUME NEW r \in Requests, StartStep(r)  PROVE TypeOK'
  BY <1>2 DEF StartStep
<1>3. ASSUME NEW r \in Requests, UseCache(r)  PROVE TypeOK'
  BY <1>3 DEF UseCache
<1>4. QED  BY <1>1, <1>2, <1>3 DEF Runtime

\* Type correctness is inductive.
LEMMA NextTypeOK == TypeOK /\ [Next]_vars => TypeOK'
<1> SUFFICES ASSUME TypeOK, [Next]_vars  PROVE TypeOK'
  OBVIOUS
<1>1. CASE UNCHANGED vars
  BY <1>1 DEF TypeOK, vars, cacheVars, runtimeVars
<1>2. CASE Next
  BY <1>2, HandlerTypeOK, ThreadTypeOK, RuntimeTypeOK DEF Next
<1>3. QED  BY <1>1, <1>2

\* The shared state of the cache stays well typed in every reachable state.
THEOREM TypeCorrect == Spec => []TypeOK
<1>1. QED  BY InitTypeOK, NextTypeOK, PTL DEF Spec
--------------------------------------------------------------------------------
(* Bytes of sets of requests *)

\* The bytes of a set of requests are finite in number.
LEMMA BytesFinite ==
  ASSUME NEW R \in SUBSET Requests
  PROVE  /\ IsFiniteSet(BytesOf(R))
         /\ Cardinality(BytesOf(R)) \in Nat
<1>1. IsFiniteSet(1 .. LargestSize)
  BY FS_Interval
<1>2. IsFiniteSet(Requests \X (1 .. LargestSize))
  BY <1>1, FS_Product
<1>3. BytesOf(R) \subseteq Requests \X (1 .. LargestSize)
  BY DEF BytesOf
<1>4. IsFiniteSet(BytesOf(R))
  BY <1>2, <1>3, FS_Subset
<1>5. QED  BY <1>4, FS_CardinalityType

\* A further request adds its size to the number of bytes.
LEMMA BytesAdd ==
  ASSUME NEW R \in SUBSET Requests, NEW r \in Requests, r \notin R
  PROVE  Cardinality(BytesOf(R \cup {r})) = Cardinality(BytesOf(R)) + Size[r]
<1> DEFINE Own == {r} \X (1 .. Size[r])
<1>1. BytesOf(R \cup {r}) = BytesOf(R) \cup Own
  BY DEF BytesOf
<1>2. BytesOf(R) \cap Own = {}
  BY DEF BytesOf
<1>3. IsFiniteSet(Own) /\ Cardinality(Own) = Size[r]
  <2>1. IsFiniteSet({r}) /\ Cardinality({r}) = 1
    BY FS_Singleton
  <2>2. Size[r] \in Nat
    OBVIOUS
  <2>3. IsFiniteSet(1 .. Size[r]) /\ Cardinality(1 .. Size[r]) = Size[r]
    BY <2>2, FS_Interval
  <2>4. IsFiniteSet(Own) /\ Cardinality(Own) = Cardinality({r}) * Cardinality(1 .. Size[r])
    BY <2>1, <2>3, FS_Product
  <2> HIDE DEF Own
  <2>5. QED  BY <2>1, <2>2, <2>3, <2>4
<1> HIDE DEF Own
<1>4. IsFiniteSet(BytesOf(R)) /\ Cardinality(BytesOf(R)) \in Nat
  BY BytesFinite
<1>5. Cardinality(BytesOf(R) \cup Own)
        = Cardinality(BytesOf(R)) + Cardinality(Own) - Cardinality(BytesOf(R) \cap Own)
  BY <1>3, <1>4, FS_Union
<1>6. Cardinality(BytesOf(R) \cap Own) = 0
  BY <1>2, FS_EmptySet
<1>7. Size[r] \in Nat
  OBVIOUS
<1>8. Cardinality(BytesOf(R) \cup Own) = Cardinality(BytesOf(R)) + Size[r]
  BY <1>3, <1>4, <1>5, <1>6, <1>7
<1>9. QED  BY <1>1, <1>8

\* Removing a request takes its size away.
LEMMA BytesRemove ==
  ASSUME NEW R \in SUBSET Requests, NEW r \in R
  PROVE  Cardinality(BytesOf(R \ {r})) = Cardinality(BytesOf(R)) - Size[r]
<1>1. (R \ {r}) \cup {r} = R
  OBVIOUS
<1>2. Cardinality(BytesOf(R)) = Cardinality(BytesOf(R \ {r})) + Size[r]
  BY <1>1, BytesAdd
<1>3. Size[r] \in Nat /\ Cardinality(BytesOf(R \ {r})) \in Nat
  BY BytesFinite
<1>4. QED  BY <1>2, <1>3

\* Requests of distinct processes, none of them of process p, have at most
\* LargestSize bytes for every process but p.
LEMMA BytesOfDistinctProcs ==
  ASSUME NEW A \in SUBSET Requests, NEW p \in Procs,
         \A r \in A : Proc[r] # p,
         \A r, q \in A : r # q => Proc[r] # Proc[q]
  PROVE  Cardinality(BytesOf(A)) <= (Cardinality(Procs) - 1) * LargestSize
<1> DEFINE Others == Procs \ {p}
           Room   == Others \X (1 .. LargestSize)
           f      == [b \in BytesOf(A) |-> <<Proc[b[1]], b[2]>>]
<1>1. IsFiniteSet(Others) /\ Cardinality(Others) = Cardinality(Procs) - 1
  BY FS_RemoveElement
<1>2. IsFiniteSet(1 .. LargestSize) /\ Cardinality(1 .. LargestSize) = LargestSize
  BY FS_Interval
<1>3. IsFiniteSet(Room) /\ Cardinality(Room) = (Cardinality(Procs) - 1) * LargestSize
  BY <1>1, <1>2, FS_Product, ZenonT(30)
<1>4. ASSUME NEW b \in BytesOf(A)
      PROVE  /\ b[1] \in A /\ b[2] \in 1 .. LargestSize
             /\ b = <<b[1], b[2]>>
  BY DEF BytesOf
<1>5. f \in [BytesOf(A) -> Room]
  BY <1>4
<1>6. ASSUME NEW b \in BytesOf(A), NEW c \in BytesOf(A), f[b] = f[c]
      PROVE  b = c
  <2>1. Proc[b[1]] = Proc[c[1]] /\ b[2] = c[2]
    BY <1>6
  <2>2. b[1] = c[1]
    BY <1>4, <2>1
  <2>3. QED  BY <1>4, <2>1, <2>2
<1>7. f \in Injection(BytesOf(A), Room)
  <2> HIDE DEF f, Room
  <2>1. QED  BY <1>5, <1>6 DEF Injection, IsInjective
<1> HIDE DEF f, Room
<1>8. Cardinality(BytesOf(A)) <= Cardinality(Room)
  BY <1>3, <1>7, FS_Injection
<1>9. QED  BY <1>3, <1>8

--------------------------------------------------------------------------------
(* The shared counters and the budget *)

\* Whoever waits for memory, or got the lock from its thread, has the lock.
LockInv ==
  \A r \in Requests :
    /\ th[r] = "acquired" \/ pc[r] = "waiting" => lock = r
    /\ pc[r] = "waiting" => th[r] \notin {"none", "acquiring", "acquired"}

\* At most one request of each process is between its check and its commit.
OnePerProcess ==
  \A r, q \in In(Uncounted \cup {"waiting"}) : r # q => Proc[r] # Proc[q]

\* Requests that passed a check of the budget and are not yet counted.
Promised ==
  {r \in Requests : \/ pc[r] \in Uncounted
                    \/ pc[r] = "waiting" /\ th[r] = "available"}

Bound == MaxSize + (Cardinality(Procs) - 1) * LargestSize

PromiseInv == current_size + Cardinality(BytesOf(Promised)) <= Bound

AccountInv ==
  /\ TypeOK
  /\ ExactAccounting
  /\ LockInv
  /\ OnePerProcess
  /\ PromiseInv

\* A move of one coroutine between two states that both are, or both are not,
\* in a set of states leaves the requests in that set as they were.
LEMMA KeepIn ==
  ASSUME TypeOK, NEW r \in Requests, NEW to, pc' = [pc EXCEPT ![r] = to],
         NEW S, pc[r] \in S <=> to \in S
  PROVE  In(S)' = In(S)
BY DEF In, TypeOK

\* A move into a set of states adds the request.
LEMMA EnterIn ==
  ASSUME TypeOK, NEW r \in Requests, NEW to, pc' = [pc EXCEPT ![r] = to],
         NEW S, pc[r] \notin S, to \in S
  PROVE  r \notin In(S) /\ In(S)' = In(S) \cup {r}
BY DEF In, TypeOK

\* A move out of a set of states removes the request.
LEMMA LeaveIn ==
  ASSUME TypeOK, NEW r \in Requests, NEW to, pc' = [pc EXCEPT ![r] = to],
         NEW S, pc[r] \in S, to \notin S
  PROVE  r \in In(S) /\ In(S)' = In(S) \ {r}
BY DEF In, TypeOK

\* A coroutine that moves without changing a counter stays on its side of both.
LEMMA AccountingKept ==
  ASSUME TypeOK, ExactAccounting, NEW r \in Requests, NEW to,
         pc' = [pc EXCEPT ![r] = to], UNCHANGED <<current_size, enqueued_size>>,
         pc[r] = "held" <=> to = "held", pc[r] \in Queued <=> to \in Queued
  PROVE  ExactAccounting'
<1>1. In({"held"})' = In({"held"})
  BY KeepIn
<1>2. In(Queued)' = In(Queued)
  BY KeepIn
<1>3. QED  BY <1>1, <1>2 DEF ExactAccounting, BytesOf

\* Handlers keep both counters exact.
LEMMA HandlerAccounting ==
  ASSUME TypeOK, ExactAccounting, NEW r \in Requests, Handler(r)
  PROVE  ExactAccounting'
<1> USE DEF Goto
<1>0. Size[r] \in Nat /\ Queued \in SUBSET PcStates
  BY DEF Queued, PcStates
<1>1. CASE Enqueue(r)
  <2>1. PICK to \in {"checking", "locking"} : pc' = [pc EXCEPT ![r] = to]
    BY <1>1 DEF Enqueue
  <2>2. In({"held"})' = In({"held"})
    BY <1>1, <2>1, KeepIn DEF Enqueue
  <2>3. r \notin In(Queued) /\ In(Queued)' = In(Queued) \cup {r}
    BY <1>1, <2>1, EnterIn DEF Enqueue, Queued
  <2>4. Cardinality(BytesOf(In(Queued)')) = Cardinality(BytesOf(In(Queued))) + Size[r]
    BY <2>3, BytesAdd DEF In
  <2>5. QED  BY <1>1, <2>2, <2>4 DEF Enqueue, ExactAccounting, BytesOf
<1>2. CASE CheckImmediate(r)
  <2>1. PICK to \in {"failing", "locking"} : pc' = [pc EXCEPT ![r] = to]
    BY <1>2 DEF CheckImmediate
  <2>2. QED  BY <1>2, <2>1, AccountingKept DEF CheckImmediate, cacheVars, Queued
<1>3. CASE CheckLocked(r)
  <2>1. PICK to \in {"admitted", "failing", "waiting"} : pc' = [pc EXCEPT ![r] = to]
    BY <1>3 DEF CheckLocked
  <2>2. QED  BY <1>3, <2>1, AccountingKept DEF CheckLocked, cacheVars, Queued
<1>4. CASE FinishWaiting(r)
  <2>1. PICK to \in {"admitted", "failing"} : pc' = [pc EXCEPT ![r] = to]
    BY <1>4 DEF FinishWaiting
  <2>2. QED  BY <1>4, <2>1, AccountingKept DEF FinishWaiting, cacheVars, Queued
<1>5. CASE CancelLocking(r)
  BY <1>5, AccountingKept DEF CancelLocking, cacheVars, Queued
<1>6. CASE CancelWaiting(r)
  BY <1>6, AccountingKept DEF CancelWaiting, cacheVars, Queued
<1>7. CASE Fail(r) \/ Dequeue(r)
  <2>1. PICK to \in {"failed", "dequeued"} :
          pc' = [pc EXCEPT ![r] = to] /\ pc[r] \in Queued /\ pc[r] # "held"
    BY <1>7 DEF Fail, Dequeue, Queued
  <2>2. In({"held"})' = In({"held"})
    BY <2>1, KeepIn
  <2>3. r \in In(Queued) /\ In(Queued)' = In(Queued) \ {r}
    BY <2>1, LeaveIn DEF Queued
  <2>4. Cardinality(BytesOf(In(Queued)')) = Cardinality(BytesOf(In(Queued))) - Size[r]
    BY <2>3, BytesRemove DEF In
  <2>5. QED  BY <1>7, <2>2, <2>4 DEF Fail, Dequeue, ExactAccounting, BytesOf
<1>8. CASE Commit(r)
  <2>1. pc' = [pc EXCEPT ![r] = "held"] /\ pc[r] = "dequeued"
    BY <1>8 DEF Commit
  <2>2. In(Queued)' = In(Queued)
    <3>1. pc[r] \notin Queued /\ "held" \notin Queued
      BY <2>1 DEF Queued
    <3>2. QED  BY <2>1, <3>1, KeepIn
  <2>3. r \notin In({"held"}) /\ In({"held"})' = In({"held"}) \cup {r}
    BY <2>1, EnterIn
  <2>4. Cardinality(BytesOf(In({"held"})')) = Cardinality(BytesOf(In({"held"}))) + Size[r]
    BY <2>3, BytesAdd DEF In
  <2>5. QED  BY <1>8, <2>2, <2>4 DEF Commit, ExactAccounting, BytesOf
<1>9. CASE Free(r)
  <2>1. pc' = [pc EXCEPT ![r] = "signalling"] /\ pc[r] = "held"
    BY <1>9 DEF Free
  <2>2. In(Queued)' = In(Queued)
    <3>1. pc[r] \notin Queued /\ "signalling" \notin Queued
      BY <2>1 DEF Queued
    <3>2. QED  BY <2>1, <3>1, KeepIn
  <2>3. r \in In({"held"}) /\ In({"held"})' = In({"held"}) \ {r}
    <3>1. pc[r] \in {"held"} /\ "signalling" \notin {"held"}
      BY <2>1
    <3>2. QED  BY <2>1, <3>1, LeaveIn
  <2>4. Cardinality(BytesOf(In({"held"})')) = Cardinality(BytesOf(In({"held"}))) - Size[r]
    BY <2>3, BytesRemove DEF In
  <2>5. QED  BY <1>9, <2>2, <2>4 DEF Free, ExactAccounting, BytesOf
<1>10. CASE SignalFreed(r)
  BY <1>10, AccountingKept DEF SignalFreed, cacheVars, Queued
<1>11. CASE SubmitStep(r)
  BY <1>11 DEF SubmitStep, cacheVars, ExactAccounting, BytesOf, In
<1>12. QED
  BY <1>1, <1>2, <1>3, <1>4, <1>5, <1>6, <1>7, <1>8, <1>9, <1>10, <1>11 DEF Handler

\* Handlers keep the discipline of the lock.
LEMMA HandlerLock ==
  ASSUME TypeOK, LockInv, NEW r \in Requests, Handler(r)
  PROVE  LockInv'
<1> USE DEF Goto, LockInv, TypeOK
<1>1. CASE Enqueue(r)  BY <1>1 DEF Enqueue
<1>2. CASE CheckImmediate(r)  BY <1>2 DEF CheckImmediate
<1>3. CASE CheckLocked(r)  BY <1>3 DEF CheckLocked
<1>4. CASE FinishWaiting(r)  BY <1>4 DEF FinishWaiting
<1>5. CASE CancelLocking(r)  BY <1>5 DEF CancelLocking
<1>6. CASE CancelWaiting(r)  BY <1>6 DEF CancelWaiting
<1>7. CASE Fail(r)  BY <1>7 DEF Fail
<1>8. CASE Dequeue(r)  BY <1>8 DEF Dequeue
<1>9. CASE Commit(r)  BY <1>9 DEF Commit
<1>10. CASE Free(r)  BY <1>10 DEF Free
<1>11. CASE SignalFreed(r)  BY <1>11 DEF SignalFreed
<1>12. CASE SubmitStep(r)  BY <1>12 DEF SubmitStep
<1>13. QED
  BY <1>1, <1>2, <1>3, <1>4, <1>5, <1>6, <1>7, <1>8, <1>9, <1>10, <1>11, <1>12 DEF Handler

\* Threads keep it too.
LEMMA ThreadLock ==
  ASSUME TypeOK, LockInv, NEW r \in Requests, Thread(r)
  PROVE  LockInv'
<1> USE DEF ThreadGoto, LockInv, TypeOK
<1>1. CASE AcquireLock(r)  BY <1>1 DEF AcquireLock
<1>2. CASE TestAvailable(r)  BY <1>2 DEF TestAvailable
<1>3. CASE ParkOnEvent(r)  BY <1>3 DEF ParkOnEvent
<1>4. CASE WakeFromEvent(r)  BY <1>4 DEF WakeFromEvent
<1>5. CASE WaitTimesOut(r)  BY <1>5 DEF WaitTimesOut
<1>6. CASE ClearEvent(r)  BY <1>6 DEF ClearEvent
<1>7. QED  BY <1>1, <1>2, <1>3, <1>4, <1>5, <1>6 DEF Thread

\* No handler step puts a second request of a process past its check: the loop
\* of the process is free when the check is made, and the lock excludes waiters.
LEMMA HandlerOnePerProcess ==
  ASSUME TypeOK, LockInv, OnePerProcess, NEW r \in Requests, Handler(r)
  PROVE  OnePerProcess'
<1> USE DEF Goto, OnePerProcess, In, Uncounted, TypeOK
<1>1. CASE Enqueue(r)  BY <1>1, ZenonT(30) DEF Enqueue
<1>2. CASE CheckImmediate(r)  BY <1>2, ZenonT(30) DEF CheckImmediate
<1>3. CASE CheckLocked(r)
  <2>1. ASSUME NEW q \in Requests, q # r, pc[q] \in Uncounted \cup {"waiting"}
        PROVE  Proc[q] # Proc[r]
    BY <1>3, <2>1 DEF CheckLocked, LoopFree, RunningStates, LockInv
  <2>2. \A q \in Requests : q # r => pc'[q] = pc[q]
    BY <1>3 DEF CheckLocked
  <2>3. QED  BY <2>1, <2>2
<1>4. CASE FinishWaiting(r)  BY <1>4 DEF FinishWaiting
<1>5. CASE CancelLocking(r)  BY <1>5 DEF CancelLocking
<1>6. CASE CancelWaiting(r)  BY <1>6 DEF CancelWaiting
<1>7. CASE Fail(r)  BY <1>7 DEF Fail
<1>8. CASE Dequeue(r)  BY <1>8 DEF Dequeue
<1>9. CASE Commit(r)  BY <1>9 DEF Commit
<1>10. CASE Free(r)  BY <1>10 DEF Free
<1>11. CASE SignalFreed(r)  BY <1>11 DEF SignalFreed
<1>12. CASE SubmitStep(r)  BY <1>12 DEF SubmitStep
<1>13. QED
  BY <1>1, <1>2, <1>3, <1>4, <1>5, <1>6, <1>7, <1>8, <1>9, <1>10, <1>11, <1>12 DEF Handler

\* A request that fits, of a process with no other request past its check, can
\* be promised its memory within the bound.
LEMMA PromiseOne ==
  ASSUME TypeOK, NEW r \in Requests, Fits(r), NEW P \in SUBSET Requests, r \notin P,
         \A q \in P : Proc[q] # Proc[r],
         \A q, s \in P : q # s => Proc[q] # Proc[s]
  PROVE  current_size + Cardinality(BytesOf(P \cup {r})) <= Bound
<1>1. Cardinality(BytesOf(P \cup {r})) = Cardinality(BytesOf(P)) + Size[r]
  BY BytesAdd
<1>2. Proc[r] \in Procs /\ Size[r] \in Nat
  OBVIOUS
<1>3. Cardinality(BytesOf(P)) <= (Cardinality(Procs) - 1) * LargestSize
  BY <1>2, BytesOfDistinctProcs
<1>4. Cardinality(Procs) \in Nat /\ Cardinality(BytesOf(P)) \in Nat
  BY FS_CardinalityType, BytesFinite
<1>5. (Cardinality(Procs) - 1) * LargestSize \in Int
  BY <1>4
<1>6. current_size + Size[r] <= MaxSize /\ current_size \in Int
  BY DEF Fits, TypeOK
<1>7. QED  BY <1>1, <1>2, <1>3, <1>4, <1>5, <1>6 DEF Bound

\* With the promises unchanged and no more memory in use, the bound stays.
LEMMA PromiseKept ==
  ASSUME TypeOK, TypeOK', PromiseInv, current_size' <= current_size,
         Promised' \subseteq Promised
  PROVE  PromiseInv'
<1>1. Promised \in SUBSET Requests
  BY DEF Promised
<1>2. IsFiniteSet(BytesOf(Promised)) /\ Cardinality(BytesOf(Promised)) \in Nat
  BY <1>1, BytesFinite
<1>3. BytesOf(Promised') \subseteq BytesOf(Promised)
  BY DEF BytesOf
<1>4. /\ Cardinality(BytesOf(Promised')) <= Cardinality(BytesOf(Promised))
      /\ Cardinality(BytesOf(Promised')) \in Nat
  BY <1>2, <1>3, FS_Subset, FS_CardinalityType
<1>5. Cardinality(BytesOf(Promised))' = Cardinality(BytesOf(Promised'))
  BY DEF BytesOf
<1>6. Bound \in Int
  BY FS_CardinalityType DEF Bound
<1>7. current_size \in Int /\ current_size' \in Int
  BY DEF TypeOK
<1>8. current_size + Cardinality(BytesOf(Promised)) <= Bound
  BY DEF PromiseInv
<1>9. current_size' + Cardinality(BytesOf(Promised')) <= Bound
  BY <1>2, <1>4, <1>6, <1>7, <1>8
<1>10. QED  BY <1>5, <1>9 DEF PromiseInv, Bound

\* Handlers keep the promises within the bound.
LEMMA HandlerPromise ==
  ASSUME TypeOK, TypeOK', LockInv, OnePerProcess, PromiseInv,
         NEW r \in Requests, Handler(r)
  PROVE  PromiseInv'
<1>0. current_size \in Int /\ current_size' \in Int /\ Size[r] \in Nat
  BY DEF TypeOK
<1> USE DEF Goto, Uncounted
<1>1. CASE Enqueue(r)
  <2>1. Promised' \subseteq Promised
    BY <1>1, SMTT(30) DEF Enqueue, Promised, TypeOK
  <2>2. QED  BY <1>0, <1>1, <2>1, PromiseKept DEF Enqueue
<1>2. CASE CheckImmediate(r)
  <2>1. Promised' \subseteq Promised
    BY <1>2, SMTT(30) DEF CheckImmediate, Promised, TypeOK
  <2>2. QED  BY <1>0, <1>2, <2>1, PromiseKept DEF CheckImmediate, cacheVars
<1>3. CASE CheckLocked(r)
  <2>1. CASE Fits(r)
    <3> DEFINE P == Promised \ {r}
    <3>1. Promised' \subseteq P \cup {r}
      BY <1>3 DEF CheckLocked, Promised, TypeOK
    <3>2. \A q \in P : Proc[q] # Proc[r]
      BY <1>3 DEF CheckLocked, Promised, LoopFree, RunningStates, LockInv
    <3>3. \A q, s \in P : q # s => Proc[q] # Proc[s]
      BY DEF OnePerProcess, In, Promised
    <3>4. P \in SUBSET Requests /\ r \notin P
      BY DEF Promised
    <3>5. r \in Promised' /\ P \subseteq Promised'
      BY <1>3, <2>1 DEF CheckLocked, Promised, TypeOK
    <3>6. Promised' = P \cup {r}
      BY <3>1, <3>5
    <3> HIDE DEF P
    <3>7. current_size + Cardinality(BytesOf(P \cup {r})) <= Bound
      BY <2>1, <3>2, <3>3, <3>4, PromiseOne
    <3>8. Cardinality(BytesOf(Promised))' = Cardinality(BytesOf(P \cup {r}))
      BY <3>6 DEF BytesOf
    <3>9. QED  BY <1>3, <3>7, <3>8 DEF CheckLocked, cacheVars, PromiseInv, Bound
  <2>2. CASE ~Fits(r)
    <3>1. Promised' \subseteq Promised
      BY <1>3, <2>2 DEF CheckLocked, Promised, TypeOK
    <3>2. QED  BY <1>0, <1>3, <3>1, PromiseKept DEF CheckLocked, cacheVars
  <2>3. QED  BY <2>1, <2>2
<1>4. CASE FinishWaiting(r)
  <2>1. Promised' \subseteq Promised
    BY <1>4 DEF FinishWaiting, Promised, TypeOK
  <2>2. QED  BY <1>0, <1>4, <2>1, PromiseKept DEF FinishWaiting, cacheVars
<1>5. CASE CancelLocking(r)
  <2>1. Promised' \subseteq Promised
    BY <1>5 DEF CancelLocking, Promised, TypeOK
  <2>2. QED  BY <1>0, <1>5, <2>1, PromiseKept DEF CancelLocking, cacheVars
<1>6. CASE CancelWaiting(r)
  <2>1. Promised' \subseteq Promised
    BY <1>6 DEF CancelWaiting, Promised, TypeOK
  <2>2. QED  BY <1>0, <1>6, <2>1, PromiseKept DEF CancelWaiting, cacheVars
<1>7. CASE Fail(r) \/ Dequeue(r)
  <2>1. Promised' \subseteq Promised
    BY <1>7 DEF Fail, Dequeue, Promised, TypeOK
  <2>2. QED  BY <1>0, <1>7, <2>1, PromiseKept DEF Fail, Dequeue
<1>8. CASE Commit(r)
  <2>1. r \in Promised /\ Promised \in SUBSET Requests
    BY <1>8 DEF Commit, Promised
  <2>2. Promised' = Promised \ {r}
    BY <1>8 DEF Commit, Promised, TypeOK
  <2>3. Cardinality(BytesOf(Promised \ {r})) = Cardinality(BytesOf(Promised)) - Size[r]
    BY <2>1, BytesRemove
  <2>4. Cardinality(BytesOf(Promised))' = Cardinality(BytesOf(Promised \ {r}))
    BY <2>2 DEF BytesOf
  <2>5. Cardinality(BytesOf(Promised)) \in Nat
    BY <2>1, BytesFinite
  <2>6. current_size' = current_size + Size[r]
    BY <1>8 DEF Commit
  <2>7. current_size' + (Cardinality(BytesOf(Promised)) - Size[r])
          = current_size + Cardinality(BytesOf(Promised))
    BY <1>0, <2>5, <2>6
  <2>8. QED  BY <2>3, <2>4, <2>7 DEF PromiseInv, Bound
<1>9. CASE Free(r)
  <2>1. Promised' \subseteq Promised
    BY <1>9 DEF Free, Promised, TypeOK
  <2>2. current_size' <= current_size
    BY <1>0, <1>9 DEF Free
  <2>3. QED  BY <2>1, <2>2, PromiseKept
<1>10. CASE SignalFreed(r)
  <2>1. Promised' \subseteq Promised
    BY <1>10 DEF SignalFreed, Promised, TypeOK
  <2>2. QED  BY <1>0, <1>10, <2>1, PromiseKept DEF SignalFreed, cacheVars
<1>11. CASE SubmitStep(r)
  <2>1. Promised' \subseteq Promised
    BY <1>11 DEF SubmitStep, Promised
  <2>2. QED  BY <1>0, <1>11, <2>1, PromiseKept DEF SubmitStep, cacheVars
<1>12. QED
  BY <1>1, <1>2, <1>3, <1>4, <1>5, <1>6, <1>7, <1>8, <1>9, <1>10, <1>11 DEF Handler

\* Threads make a promise only when they find the memory available.
LEMMA ThreadPromise ==
  ASSUME TypeOK, TypeOK', LockInv, OnePerProcess, PromiseInv,
         NEW r \in Requests, Thread(r)
  PROVE  PromiseInv'
<1>0. current_size' = current_size /\ current_size \in Int
  BY DEF Thread, AcquireLock, TestAvailable, ParkOnEvent, WakeFromEvent, WaitTimesOut,
         ClearEvent, cacheVars, TypeOK
<1> USE DEF Uncounted
<1>1. CASE TestAvailable(r) /\ Fits(r) /\ pc[r] = "waiting" /\ Size[r] <= MaxSize
  <2> DEFINE P == Promised \ {r}
  <2>1. Promised' = P \cup {r}
    BY <1>1 DEF TestAvailable, Promised, TypeOK
  <2>2. \A q \in P : Proc[q] # Proc[r]
    BY <1>1 DEF OnePerProcess, In, Promised
  <2>3. \A q, s \in P : q # s => Proc[q] # Proc[s]
    BY DEF OnePerProcess, In, Promised
  <2>4. P \in SUBSET Requests /\ r \notin P
    BY DEF Promised
  <2> HIDE DEF P
  <2>5. current_size + Cardinality(BytesOf(P \cup {r})) <= Bound
    BY <1>1, <2>2, <2>3, <2>4, PromiseOne
  <2>6. Cardinality(BytesOf(Promised))' = Cardinality(BytesOf(P \cup {r}))
    BY <2>1 DEF BytesOf
  <2>7. QED  BY <1>0, <2>5, <2>6 DEF PromiseInv, Bound
<1>2. CASE TestAvailable(r) /\ ~(Fits(r) /\ pc[r] = "waiting" /\ Size[r] <= MaxSize)
  <2>1. Size[r] \in Nat /\ MaxSize \in Nat
    OBVIOUS
  <2>2. Promised' \subseteq Promised
    BY <1>2, <2>1 DEF TestAvailable, Promised, TypeOK
  <2>3. QED  BY <1>0, <2>2, PromiseKept
<1>3. CASE ~TestAvailable(r)
  <2>1. Promised' \subseteq Promised
    BY <1>3 DEF Thread, AcquireLock, ParkOnEvent, WakeFromEvent, WaitTimesOut, ClearEvent,
                ThreadGoto, Promised, TypeOK
  <2>2. QED  BY <1>0, <2>1, PromiseKept
<1>4. QED  BY <1>1, <1>2, <1>3

\* What threads and the runtime do not touch stays exact.
LEMMA OtherAccounting ==
  ASSUME UNCHANGED <<pc, current_size, enqueued_size>>
  PROVE  (ExactAccounting => ExactAccounting') /\ (OnePerProcess => OnePerProcess')
BY DEF ExactAccounting, OnePerProcess, In, BytesOf

\* The runtime leaves the shared counters and the lock alone.
LEMMA RuntimeFrame ==
  ASSUME Runtime
  PROVE  UNCHANGED <<pc, th, lock, current_size, enqueued_size>>
BY DEF Runtime, DrainPipe, StartStep, UseCache, cacheVars

\* The invariant about the counters holds initially.
LEMMA InitAccountInv == Init => AccountInv
<1> SUFFICES ASSUME Init  PROVE AccountInv
  OBVIOUS
<1>1. TypeOK
  BY InitTypeOK
<1>2. In({"held"}) = {} /\ In(Queued) = {} /\ Promised = {} /\ OnePerProcess /\ LockInv
  BY DEF Init, In, Queued, Promised, OnePerProcess, LockInv, Uncounted
<1>3. BytesOf({}) = {} /\ Cardinality({}) = 0
  BY FS_EmptySet DEF BytesOf
<1>4. ExactAccounting
  BY <1>2, <1>3 DEF ExactAccounting, Init
<1>5. PromiseInv
  <2>1. PICK p : p \in Procs
    OBVIOUS
  <2>2. Cardinality(Procs) \in Nat /\ Cardinality(Procs) # 0
    BY <2>1, FS_CardinalityType, FS_EmptySet
  <2>3. (Cardinality(Procs) - 1) \in Nat
    BY <2>2
  <2>4. (Cardinality(Procs) - 1) * LargestSize \in Nat
    BY <2>3
  <2>5. current_size = 0 /\ Cardinality(BytesOf(Promised)) = 0
    <3>1. BytesOf(Promised) = {}
      BY <1>2, <1>3
    <3>2. QED  BY <1>3, <3>1 DEF Init
  <2>6. 0 <= Bound
    BY <2>4 DEF Bound
  <2>7. QED  BY <2>5, <2>6 DEF PromiseInv
<1>6. QED  BY <1>1, <1>2, <1>4, <1>5 DEF AccountInv

\* The invariant about the counters is inductive.
LEMMA NextAccountInv == AccountInv /\ [Next]_vars => AccountInv'
<1> SUFFICES ASSUME AccountInv, [Next]_vars  PROVE AccountInv'
  OBVIOUS
<1>0. TypeOK /\ ExactAccounting /\ LockInv /\ OnePerProcess /\ PromiseInv
  BY DEF AccountInv
<1>1. TypeOK'
  BY <1>0, NextTypeOK
<1>2. ASSUME NEW r \in Requests, Handler(r)  PROVE AccountInv'
  BY <1>0, <1>1, <1>2, HandlerAccounting, HandlerLock, HandlerOnePerProcess, HandlerPromise
     DEF AccountInv
<1>3. ASSUME NEW r \in Requests, Thread(r)  PROVE AccountInv'
  <2>1. UNCHANGED <<pc, current_size, enqueued_size>>
    BY <1>3 DEF Thread, AcquireLock, TestAvailable, ParkOnEvent, WakeFromEvent,
                WaitTimesOut, ClearEvent, cacheVars
  <2>2. QED  BY <1>0, <1>1, <1>3, <2>1, ThreadLock, ThreadPromise, OtherAccounting DEF AccountInv
<1>4. ASSUME UNCHANGED <<pc, th, lock, current_size, enqueued_size>>  PROVE AccountInv'
  <2>1. LockInv' /\ Promised' = Promised
    BY <1>0, <1>4 DEF LockInv, Promised
  <2>2. current_size' <= current_size
    BY <1>0, <1>4 DEF TypeOK
  <2>3. PromiseInv'
    BY <1>0, <1>1, <2>1, <2>2, PromiseKept
  <2>4. QED  BY <1>0, <1>1, <1>4, <2>1, <2>3, OtherAccounting DEF AccountInv
<1>5. CASE UNCHANGED vars
  BY <1>4, <1>5 DEF vars, cacheVars
<1>6. CASE Runtime
  BY <1>4, <1>6, RuntimeFrame
<1>7. QED  BY <1>2, <1>3, <1>5, <1>6 DEF Next

\* AccountInv holds in every reachable state.
LEMMA AccountInvHolds == Spec => []AccountInv
<1>1. QED  BY InitAccountInv, NextAccountInv, PTL DEF Spec

\* However requests are admitted, refused, timed out, cancelled and freed, the
\* shared counters of MemoryCache equal what the requests hold and wait for.
THEOREM AccountingIsExact == Spec => []ExactAccounting
<1>1. AccountInv => ExactAccounting
  BY DEF AccountInv
<1>2. QED  BY <1>1, AccountInvHolds, PTL

\* The race between the check of the budget and current_size += alloc_size costs
\* at most one request for every handler process but one.
THEOREM OvershootIsBounded == Spec => []OvershootBounded
<1>1. AccountInv => OvershootBounded
  <2> SUFFICES ASSUME AccountInv  PROVE OvershootBounded
    OBVIOUS
  <2>1. Promised \in SUBSET Requests
    BY DEF Promised
  <2>2. Cardinality(BytesOf(Promised)) \in Nat
    BY <2>1, BytesFinite
  <2>3. Bound \in Int /\ current_size \in Int
    BY FS_CardinalityType DEF Bound, AccountInv, TypeOK
  <2>4. current_size <= Bound
    BY <2>2, <2>3 DEF AccountInv, PromiseInv
  <2>5. QED  BY <2>4 DEF OvershootBounded, Bound
<1>2. QED  BY <1>1, AccountInvHolds, PTL

\* With a single handler process the promise of allocate_cache holds as stated:
\* memory in use never exceeds max_size_bytes.
THEOREM OneProcessKeepsBudget ==
  ASSUME Cardinality(Procs) = 1
  PROVE  Spec => []BudgetRespected
<1>1. OvershootBounded => BudgetRespected
  BY DEF OvershootBounded, BudgetRespected
<1>2. QED  BY <1>1, OvershootIsBounded, PTL

--------------------------------------------------------------------------------
(* Handles and the pipe *)

\* Handles in use, and in messages, were given out before; no two requests share one.
HandleInv ==
  /\ \A r \in Requests : \A h \in handles[r] : h < handle_counter
  /\ \A i \in 1 .. Len(pipe) : \A h \in pipe[i].handles : h < handle_counter
  /\ \A r, q \in Requests : r # q => handles[r] \cap handles[q] = {}

\* Once the pipe is drained the tensors of a held cache are there.
UsableInv ==
  \A r \in Requests : pc[r] = "held" =>
    /\ \A i \in 1 .. Len(pipe) : ~pipe[i].create => pipe[i].handles \cap handles[r] = {}
    /\ \/ handles[r] \subseteq tensors
       \/ \E i \in 1 .. Len(pipe) : pipe[i].create /\ pipe[i].handles = handles[r]

\* Only a request that got its cache has steps, and only a freed one KeyErrors.
StepInv ==
  \A r \in Requests :
    /\ r \in submitted \/ running = r => pc[r] \in {"held", "signalling", "done"}
    /\ result[r] = "keyerror" => pc[r] \in {"signalling", "done"}

CacheInv == TypeOK /\ HandleInv /\ UsableInv /\ StepInv

\* Before any allocation there are neither handles nor messages.
LEMMA InitCacheInv == Init => CacheInv
<1> SUFFICES ASSUME Init  PROVE CacheInv
  OBVIOUS
<1>1. TypeOK
  BY InitTypeOK
<1>2. Len(pipe) = 0
  BY DEF Init
<1>3. HandleInv
  BY <1>2 DEF HandleInv, Init
<1>4. UsableInv
  BY DEF UsableInv, Init
<1>5. StepInv
  BY DEF StepInv, Init
<1>6. QED  BY <1>1, <1>3, <1>4, <1>5 DEF CacheInv

\* Steps that leave handles, pipe and tensors alone, and neither take nor give up
\* a cache, preserve the invariant.
LEMMA FrameCacheInv ==
  ASSUME CacheInv, TypeOK', NEW r \in Requests,
         handle_counter' = handle_counter, handles' = handles, pipe' = pipe,
         tensors' = tensors, submitted' = submitted, running' = running, result' = result,
         \A q \in Requests : q # r => pc'[q] = pc[q],
         \/ pc'[r] = pc[r]
         \/ (pc[r] \notin {"held", "signalling", "done"} /\ pc'[r] # "held")
         \/ (pc[r] = "signalling" /\ pc'[r] = "done")
  PROVE  CacheInv'
<1>1. HandleInv'
  BY DEF CacheInv, HandleInv
<1>2. UsableInv'
  <2>1. \A q \in Requests : pc'[q] = "held" => pc[q] = "held"
    OBVIOUS
  <2>2. QED  BY <2>1 DEF CacheInv, UsableInv
<1>3. StepInv'
  BY DEF CacheInv, StepInv
<1>4. QED  BY <1>1, <1>2, <1>3 DEF CacheInv

\* A new allocation gets fresh handles, and its creation is last in the pipe.
LEMMA CommitCacheInv ==
  ASSUME CacheInv, TypeOK', NEW r \in Requests, Commit(r)
  PROVE  CacheInv'
<1> DEFINE hs == handle_counter .. (handle_counter + NumTensors[r] - 1)
           m  == Message(hs, TRUE)
<1>0. TypeOK /\ HandleInv /\ UsableInv /\ StepInv
  BY DEF CacheInv
<1>1. /\ pc' = [pc EXCEPT ![r] = "held"] /\ pc[r] = "dequeued"
      /\ handles' = [handles EXCEPT ![r] = hs]
      /\ handle_counter' = handle_counter + NumTensors[r]
      /\ pipe' = Append(pipe, m)
      /\ UNCHANGED <<tensors, submitted, running, result>>
  BY DEF Commit, Goto, runtimeVars
<1>2. handle_counter \in Nat /\ NumTensors[r] \in Nat /\ pipe \in Seq(Messages)
  BY <1>0 DEF TypeOK
<1>3. m \in Messages /\ m.create /\ m.handles = hs
  BY <1>2 DEF Message, Messages
<1>4. /\ Len(pipe') = Len(pipe) + 1 /\ Len(pipe) \in Nat
      /\ \A i \in 1 .. Len(pipe) : pipe'[i] = pipe[i]
      /\ pipe'[Len(pipe) + 1] = m
  <2> HIDE DEF m
  <2>1. pipe' = Append(pipe, m) /\ m \in Messages /\ pipe \in Seq(Messages)
    BY <1>1, <1>2, <1>3
  <2>2. Len(pipe) \in Nat
    BY <2>1, LenProperties
  <2>3. QED  BY ONLY <2>1, <2>2, AppendProperties
<1>5. \A h \in hs : h >= handle_counter /\ h < handle_counter'
  BY <1>1, <1>2
<1>6. \A q \in Requests : q # r => handles'[q] = handles[q] /\ pc'[q] = pc[q]
  BY <1>0, <1>1 DEF TypeOK
<1>7. handles'[r] = hs /\ pc'[r] = "held"
  BY <1>0, <1>1 DEF TypeOK
<1>8. \A n \in Nat : n < handle_counter => n < handle_counter' /\ n \notin hs
  BY <1>1, <1>2
<1> HIDE DEF hs, m
<1>9. HandleInv'
  <2>1. \A q \in Requests : \A h \in handles'[q] : h < handle_counter'
    BY <1>0, <1>5, <1>6, <1>7, <1>8 DEF HandleInv, TypeOK
  <2>2. \A i \in 1 .. Len(pipe') : \A h \in pipe'[i].handles : h < handle_counter'
    <3>1. \A i \in 1 .. Len(pipe) : pipe[i] \in Messages
      BY <1>2
    <3>2. \A i \in 1 .. Len(pipe) : \A h \in pipe[i].handles : h \in Nat /\ h < handle_counter
      BY <1>0, <3>1 DEF HandleInv, Messages
    <3>3. \A i \in 1 .. Len(pipe') : i \in 1 .. Len(pipe) \/ i = Len(pipe) + 1
      BY <1>4
    <3>4. QED  BY <1>3, <1>4, <1>5, <1>8, <3>2, <3>3
  <2>3. \A q \in Requests : \A h \in handles[q] : h \notin hs
    BY <1>0, <1>8 DEF HandleInv, TypeOK
  <2>4. \A p, q \in Requests : p # q => handles'[p] \cap handles'[q] = {}
    BY <1>0, <1>6, <1>7, <2>3 DEF HandleInv
  <2>5. QED  BY <2>1, <2>2, <2>4 DEF HandleInv
<1>10. UsableInv'
  <2> SUFFICES ASSUME NEW q \in Requests, pc'[q] = "held"
               PROVE  /\ \A i \in 1 .. Len(pipe') :
                            ~pipe'[i].create => pipe'[i].handles \cap handles'[q] = {}
                      /\ \/ handles'[q] \subseteq tensors'
                         \/ \E i \in 1 .. Len(pipe') :
                              pipe'[i].create /\ pipe'[i].handles = handles'[q]
    BY DEF UsableInv
  <2>1. \A i \in 1 .. Len(pipe') : i = Len(pipe) + 1 \/ (i \in 1 .. Len(pipe) /\ pipe'[i] = pipe[i])
    BY <1>4
  <2>2. CASE q = r
    <3>1. \A i \in 1 .. Len(pipe) : pipe[i].handles \cap hs = {}
      <4>1. \A i \in 1 .. Len(pipe) : pipe[i] \in Messages
        BY <1>2
      <4>2. QED  BY <1>0, <1>8, <4>1 DEF HandleInv, Messages
    <3>2. Len(pipe) + 1 \in 1 .. Len(pipe')
      BY <1>4
    <3>3. QED  BY <1>3, <1>4, <1>7, <2>1, <2>2, <3>1, <3>2
  <2>3. CASE q # r
    <3>1. pc[q] = "held" /\ handles'[q] = handles[q]
      BY <1>6, <2>3
    <3>2. \A i \in 1 .. Len(pipe) : i \in 1 .. Len(pipe')
      BY <1>4
    <3>3. \A i \in 1 .. Len(pipe') :
            ~pipe'[i].create => pipe'[i].handles \cap handles'[q] = {}
      BY <1>0, <1>3, <1>4, <2>1, <3>1 DEF UsableInv
    <3>4. CASE handles[q] \subseteq tensors
      BY <1>1, <3>1, <3>3, <3>4
    <3>5. CASE \E i \in 1 .. Len(pipe) : pipe[i].create /\ pipe[i].handles = handles[q]
      <4>1. PICK i \in 1 .. Len(pipe) : pipe[i].create /\ pipe[i].handles = handles[q]
        BY <3>5
      <4>2. i \in 1 .. Len(pipe') /\ pipe'[i] = pipe[i]
        BY <1>4, <3>2
      <4>3. QED  BY <3>1, <3>3, <4>1, <4>2
    <3>6. QED  BY <1>0, <3>1, <3>4, <3>5 DEF UsableInv
  <2>4. QED  BY <2>2, <2>3
<1>11. StepInv'
  BY <1>0, <1>1, <1>6, <1>7 DEF StepInv
<1>12. QED  BY <1>9, <1>10, <1>11 DEF CacheInv

\* A freed cache sends its deletion last; it concerns no other held cache.
LEMMA FreeCacheInv ==
  ASSUME CacheInv, TypeOK', NEW r \in Requests, Free(r)
  PROVE  CacheInv'
<1> DEFINE m == Message(handles[r], FALSE)
<1>0. TypeOK /\ HandleInv /\ UsableInv /\ StepInv
  BY DEF CacheInv
<1>1. /\ pc' = [pc EXCEPT ![r] = "signalling"] /\ pc[r] = "held"
      /\ pipe' = Append(pipe, m)
      /\ UNCHANGED <<handle_counter, handles, tensors, submitted, running, result>>
  BY DEF Free, Goto, runtimeVars
<1>2. m \in Messages /\ ~m.create /\ m.handles = handles[r]
  BY <1>0 DEF Message, Messages, TypeOK
<1> HIDE DEF m
<1>3. /\ Len(pipe') = Len(pipe) + 1 /\ Len(pipe) \in Nat
      /\ \A i \in 1 .. Len(pipe) : pipe'[i] = pipe[i]
      /\ pipe'[Len(pipe) + 1] = m
  <2>1. pipe' = Append(pipe, m) /\ m \in Messages /\ pipe \in Seq(Messages)
    BY <1>0, <1>1, <1>2 DEF TypeOK
  <2>2. Len(pipe) \in Nat
    BY <2>1, LenProperties
  <2>3. QED  BY ONLY <2>1, <2>2, AppendProperties
<1>4. \A i \in 1 .. Len(pipe') : i = Len(pipe) + 1 \/ (i \in 1 .. Len(pipe) /\ pipe'[i] = pipe[i])
  BY <1>3
<1>5. \A i \in 1 .. Len(pipe) : i \in 1 .. Len(pipe')
  BY <1>3
<1>6. HandleInv'
  BY <1>0, <1>1, <1>2, <1>3, <1>4 DEF HandleInv
<1>7. \A q \in Requests : pc'[q] = "held" => q # r /\ pc[q] = "held"
  BY <1>0, <1>1 DEF TypeOK
<1>8. UsableInv'
  <2> SUFFICES ASSUME NEW q \in Requests, pc'[q] = "held"
               PROVE  /\ \A i \in 1 .. Len(pipe') :
                            ~pipe'[i].create => pipe'[i].handles \cap handles'[q] = {}
                      /\ \/ handles'[q] \subseteq tensors'
                         \/ \E i \in 1 .. Len(pipe') :
                              pipe'[i].create /\ pipe'[i].handles = handles'[q]
    BY DEF UsableInv
  <2>1. q # r /\ pc[q] = "held" /\ handles'[q] = handles[q] /\ tensors' = tensors
    BY <1>1, <1>7
  <2>2. m.handles \cap handles[q] = {}
    BY <1>0, <1>2, <2>1 DEF HandleInv
  <2>3. \A i \in 1 .. Len(pipe') :
          ~pipe'[i].create => pipe'[i].handles \cap handles'[q] = {}
    BY <1>0, <1>3, <1>4, <2>1, <2>2 DEF UsableInv
  <2>4. CASE handles[q] \subseteq tensors
    BY <2>1, <2>3, <2>4
  <2>5. CASE \E i \in 1 .. Len(pipe) : pipe[i].create /\ pipe[i].handles = handles[q]
    <3>1. PICK i \in 1 .. Len(pipe) : pipe[i].create /\ pipe[i].handles = handles[q]
      BY <2>5
    <3>2. i \in 1 .. Len(pipe') /\ pipe'[i] = pipe[i]
      BY <1>3, <1>5
    <3>3. QED  BY <2>1, <2>3, <3>1, <3>2
  <2>6. QED  BY <1>0, <2>1, <2>4, <2>5 DEF UsableInv
<1>9. StepInv'
  BY <1>0, <1>1 DEF StepInv, TypeOK
<1>10. QED  BY <1>6, <1>8, <1>9 DEF CacheInv

\* Reading a message moves its effect from the pipe to the tensors.
LEMMA DrainCacheInv ==
  ASSUME CacheInv, TypeOK', DrainPipe
  PROVE  CacheInv'
<1>0. TypeOK /\ HandleInv /\ UsableInv /\ StepInv
  BY DEF CacheInv
<1>1. /\ pipe # << >> /\ pipe \in Seq(Messages)
      /\ tensors' = IF Head(pipe).create THEN tensors \cup Head(pipe).handles
                                         ELSE tensors \ Head(pipe).handles
      /\ pipe' = Tail(pipe)
      /\ UNCHANGED <<pc, handle_counter, handles, submitted, running, result>>
  BY <1>0 DEF DrainPipe, cacheVars, TypeOK
<1>2. /\ Len(pipe) \in Nat \ {0} /\ Head(pipe) = pipe[1]
      /\ Len(pipe') = Len(pipe) - 1
      /\ \A i \in 1 .. Len(pipe') : pipe'[i] = pipe[i + 1]
  BY <1>1, EmptySeq, HeadTailProperties
<1>3. \A i \in 1 .. Len(pipe') : i + 1 \in 1 .. Len(pipe) /\ pipe'[i] = pipe[i + 1]
  BY <1>2
<1>4. \A i \in 1 .. Len(pipe) : i = 1 \/ (i - 1 \in 1 .. Len(pipe') /\ pipe'[i - 1] = pipe[i])
  BY <1>2
<1>5. 1 \in 1 .. Len(pipe)
  BY <1>2
<1>6. HandleInv'
  BY <1>0, <1>1, <1>3 DEF HandleInv
<1>7. UsableInv'
  <2> SUFFICES ASSUME NEW q \in Requests, pc[q] = "held"
               PROVE  /\ \A i \in 1 .. Len(pipe') :
                            ~pipe'[i].create => pipe'[i].handles \cap handles[q] = {}
                      /\ \/ handles[q] \subseteq tensors'
                         \/ \E i \in 1 .. Len(pipe') :
                              pipe'[i].create /\ pipe'[i].handles = handles[q]
    BY <1>1 DEF UsableInv
  <2>1. \A i \in 1 .. Len(pipe') :
          ~pipe'[i].create => pipe'[i].handles \cap handles[q] = {}
    BY <1>0, <1>3 DEF UsableInv
  <2>2. CASE handles[q] \subseteq tensors
    <3>1. ~Head(pipe).create => Head(pipe).handles \cap handles[q] = {}
      BY <1>0, <1>2, <1>5 DEF UsableInv
    <3>2. handles[q] \subseteq tensors'
      BY <1>1, <2>2, <3>1
    <3>3. QED  BY <2>1, <3>2
  <2>3. CASE \E i \in 1 .. Len(pipe) : pipe[i].create /\ pipe[i].handles = handles[q]
    <3>1. PICK i \in 1 .. Len(pipe) : pipe[i].create /\ pipe[i].handles = handles[q]
      BY <2>3
    <3>2. CASE i = 1
      <4>1. handles[q] \subseteq tensors'
        BY <1>1, <1>2, <3>1, <3>2
      <4>2. QED  BY <2>1, <4>1
    <3>3. CASE i # 1
      <4>1. i - 1 \in 1 .. Len(pipe') /\ pipe'[i - 1] = pipe[i]
        BY <1>4, <3>3
      <4>2. QED  BY <2>1, <3>1, <4>1
    <3>4. QED  BY <3>2, <3>3
  <2>4. QED  BY <1>0, <2>2, <2>3 DEF UsableInv
<1>8. StepInv'
  BY <1>0, <1>1 DEF StepInv
<1>9. QED  BY <1>6, <1>7, <1>8 DEF CacheInv

\* A step of a held cache that finds the pipe empty finds its tensors.
LEMMA UseCacheInv ==
  ASSUME CacheInv, TypeOK', NEW r \in Requests, UseCache(r)
  PROVE  CacheInv'
<1>0. TypeOK /\ HandleInv /\ UsableInv /\ StepInv
  BY DEF CacheInv
<1>1. UNCHANGED <<pc, handle_counter, handles, pipe, tensors, submitted>>
  BY DEF UseCache, cacheVars
<1>2. HandleInv' /\ UsableInv'
  BY <1>0, <1>1 DEF HandleInv, UsableInv
<1>3. pc[r] = "held" => handles[r] \subseteq tensors
  <2>1. Len(pipe) = 0
    BY DEF UseCache
  <2>2. QED  BY <1>0, <2>1 DEF UsableInv
<1>4. StepInv'
  <2>1. \A q \in Requests : running' # q
    BY DEF UseCache
  <2>2. \A q \in Requests : q # r => result'[q] = result[q]
    BY <1>0 DEF UseCache, TypeOK
  <2>3. result'[r] = "keyerror" => pc[r] \in {"signalling", "done"}
    BY <1>0, <1>3 DEF UseCache, StepInv, TypeOK
  <2>4. QED  BY <1>0, <1>1, <2>1, <2>2, <2>3 DEF StepInv
<1>5. QED  BY <1>2, <1>4 DEF CacheInv

\* The invariant about handles and the pipe is inductive.
LEMMA NextCacheInv == CacheInv /\ [Next]_vars => CacheInv'
<1> SUFFICES ASSUME CacheInv, [Next]_vars  PROVE CacheInv'
  OBVIOUS
<1>0. TypeOK /\ TypeOK'
  BY NextTypeOK DEF CacheInv
<1>1. CASE UNCHANGED vars
  BY <1>0, <1>1 DEF CacheInv, HandleInv, UsableInv, StepInv, vars, cacheVars, runtimeVars
<1>2. ASSUME NEW r \in Requests, Handler(r)  PROVE CacheInv'
  <2>1. CASE Commit(r)  BY <1>0, <2>1, CommitCacheInv
  <2>2. CASE Free(r)  BY <1>0, <2>2, FreeCacheInv
  <2>3. CASE SubmitStep(r)
    BY <1>0, <2>3 DEF SubmitStep, CacheInv, HandleInv, UsableInv, StepInv, cacheVars
  <2>4. CASE \/ Enqueue(r) \/ CheckImmediate(r) \/ CheckLocked(r) \/ FinishWaiting(r)
             \/ CancelLocking(r) \/ CancelWaiting(r) \/ Fail(r) \/ Dequeue(r) \/ SignalFreed(r)
    <3> USE DEF Enqueue, CheckImmediate, CheckLocked, FinishWaiting, CancelLocking,
                CancelWaiting, Fail, Dequeue, SignalFreed, Goto
    <3>1. UNCHANGED <<handle_counter, handles, pipe, tensors, submitted, running, result>>
      BY <2>4 DEF cacheVars, runtimeVars
    <3>2. \A q \in Requests : q # r => pc'[q] = pc[q]
      BY <1>0, <2>4 DEF TypeOK
    <3>3. \/ pc[r] \notin {"held", "signalling", "done"} /\ pc'[r] # "held"
          \/ pc[r] = "signalling" /\ pc'[r] = "done"
      BY <1>0, <2>4 DEF TypeOK
    <3> HIDE DEF Enqueue, CheckImmediate, CheckLocked, FinishWaiting, CancelLocking,
                CancelWaiting, Fail, Dequeue, SignalFreed, Goto
    <3>4. /\ handle_counter' = handle_counter /\ handles' = handles /\ pipe' = pipe
          /\ tensors' = tensors /\ submitted' = submitted /\ running' = running /\ result' = result
      BY <3>1
    <3>5. QED  BY <1>0, <3>2, <3>3, <3>4, FrameCacheInv
  <2>5. QED  BY <1>2, <2>1, <2>2, <2>3, <2>4 DEF Handler
<1>3. ASSUME NEW r \in Requests, Thread(r)  PROVE CacheInv'
  <2>1. UNCHANGED <<pc, handle_counter, handles, pipe, tensors, submitted, running, result>>
    BY <1>3 DEF Thread, AcquireLock, TestAvailable, ParkOnEvent, WakeFromEvent,
                WaitTimesOut, ClearEvent, cacheVars, runtimeVars
  <2>2. /\ \A q \in Requests : q # r => pc'[q] = pc[q]
        /\ pc'[r] = pc[r]
    BY <2>1
  <2>3. /\ handle_counter' = handle_counter /\ handles' = handles /\ pipe' = pipe
        /\ tensors' = tensors /\ submitted' = submitted /\ running' = running /\ result' = result
    BY <2>1
  <2>4. QED  BY <1>0, <2>2, <2>3, FrameCacheInv
<1>4. CASE DrainPipe  BY <1>0, <1>4, DrainCacheInv
<1>5. ASSUME NEW r \in Requests, StartStep(r)  PROVE CacheInv'
  BY <1>0, <1>5 DEF StartStep, CacheInv, HandleInv, UsableInv, StepInv, cacheVars
<1>6. ASSUME NEW r \in Requests, UseCache(r)  PROVE CacheInv'
  BY <1>0, <1>6, UseCacheInv
<1>7. QED  BY <1>1, <1>2, <1>3, <1>4, <1>5, <1>6 DEF Next, Runtime

\* A queued inference step never fails with a KeyError while its session holds
\* its cache: use_cache drains the pipe first, and creation precedes every use.
THEOREM HeldCacheAlwaysUsable == Spec => []HeldCacheIsUsable
<1>1. CacheInv => HeldCacheIsUsable
  BY DEF CacheInv, StepInv, HeldCacheIsUsable
<1>2. QED  BY <1>1, InitCacheInv, NextCacheInv, PTL DEF Spec

--------------------------------------------------------------------------------
(* The memory of the device *)

\* Requests that have handles.
Committed == {"held", "signalling", "done"}

\* The runtime lags behind the handlers by the messages of the pipe: had[k] are the
\* requests that held a cache when the first k messages of the pipe had been sent.
\* They never had more than the bound, and the device is where they were at had[0].
Lags(had) ==
  /\ had[Len(pipe)] = In({"held"})
  /\ \A k \in 0 .. Len(pipe) : Cardinality(BytesOf(had[k])) <= Bound
  /\ \A i \in 1 .. Len(pipe) : \E r \in Requests :
       /\ pc[r] \in Committed /\ pipe[i].handles = handles[r]
       /\ had[i] = IF pipe[i].create THEN had[i - 1] \cup {r} ELSE had[i - 1] \ {r}
  /\ \A r \in Requests : handles[r] \cap tensors # {} => r \in had[0]

DeviceInv ==
  /\ CacheInv
  /\ \A h \in tensors : h < handle_counter
  /\ \E had \in [0 .. Len(pipe) -> SUBSET Requests] : Lags(had)

\* What requests hold keeps the bound.
LEMMA HeldWithinBound == AccountInv => Cardinality(BytesOf(In({"held"}))) <= Bound
<1> SUFFICES ASSUME AccountInv  PROVE Cardinality(BytesOf(In({"held"}))) <= Bound
  OBVIOUS
<1>1. Cardinality(BytesOf(Promised)) \in Nat
  <2>1. Promised \in SUBSET Requests
    BY DEF Promised
  <2>2. QED  BY <2>1, BytesFinite
<1>2. Bound \in Int /\ current_size \in Int
  BY FS_CardinalityType DEF Bound, AccountInv, TypeOK
<1>3. current_size <= Bound
  BY <1>1, <1>2 DEF AccountInv, PromiseInv
<1>4. QED  BY <1>3 DEF AccountInv, ExactAccounting

\* So it does after a step.
LEMMA HeldWithinBoundNext == AccountInv' => Cardinality(BytesOf(In({"held"})')) <= Bound
<1> SUFFICES ASSUME AccountInv'  PROVE Cardinality(BytesOf(In({"held"})')) <= Bound
  OBVIOUS
<1>1. Cardinality(BytesOf(Promised')) \in Nat
  <2>1. Promised' \in SUBSET Requests
    BY DEF Promised
  <2>2. QED  BY <2>1, BytesFinite
<1>2. Bound \in Int /\ current_size' \in Int
  BY FS_CardinalityType DEF Bound, AccountInv, TypeOK
<1>3. current_size' + Cardinality(BytesOf(Promised')) <= Bound
  BY DEF AccountInv, PromiseInv, BytesOf
<1>4. current_size' = Cardinality(BytesOf(In({"held"})'))
  BY DEF AccountInv, ExactAccounting, BytesOf
<1>5. QED  BY <1>1, <1>2, <1>3, <1>4

\* Nothing is allocated at first.
LEMMA InitDeviceInv == Init => DeviceInv
<1> SUFFICES ASSUME Init  PROVE DeviceInv
  OBVIOUS
<1>1. CacheInv
  BY InitCacheInv
<1>2. /\ Len(pipe) = 0 /\ tensors = {} /\ In({"held"}) = {}
      /\ \A i \in 1 .. 0 : FALSE
      /\ \A k \in 0 .. 0 : k = 0
  BY DEF Init, In
<1>3. Cardinality(BytesOf({})) <= Bound
  <2>1. In({"held"}) = {} /\ current_size = 0
    BY <1>2 DEF Init
  <2>2. AccountInv
    BY InitAccountInv
  <2>3. Cardinality(BytesOf(In({"held"}))) <= Bound
    BY <2>2, HeldWithinBound
  <2>4. QED  BY <2>1, <2>3
<1> DEFINE none == [k \in 0 .. Len(pipe) |-> {}]
<1>4. none \in [0 .. Len(pipe) -> SUBSET Requests] /\ none[0] = {} /\ \A k \in 0 .. Len(pipe) : none[k] = {}
  BY <1>2
<1>5. Lags(none)
  BY <1>2, <1>3, <1>4 DEF Lags
<1>6. QED  BY <1>1, <1>2, <1>4, <1>5 DEF DeviceInv

\* Steps that neither send nor receive.
LEMMA FrameDeviceInv ==
  ASSUME DeviceInv, CacheInv', UNCHANGED <<handle_counter, handles, pipe, tensors>>,
         \A q \in Requests : pc'[q] = "held" <=> pc[q] = "held",
         \A q \in Requests : pc[q] \in Committed => pc'[q] \in Committed
  PROVE  DeviceInv'
<1>1. PICK had \in [0 .. Len(pipe) -> SUBSET Requests] : Lags(had)
  BY DEF DeviceInv
<1>2. In({"held"})' = In({"held"})
  BY DEF In
<1>3. Lags(had)'
  BY <1>1, <1>2 DEF Lags, BytesOf
<1>4. QED  BY <1>1, <1>3 DEF DeviceInv

\* A message is sent with the change of what is held: it is one more that the
\* runtime lags behind.
LEMMA SendDeviceInv ==
  ASSUME DeviceInv, CacheInv', NEW r \in Requests, NEW m \in Messages,
         pipe' = Append(pipe, m), UNCHANGED tensors,
         m.handles = handles'[r], pc'[r] \in Committed,
         \A q \in Requests \ {r} : handles'[q] = handles[q] /\ pc'[q] = pc[q],
         pc[r] \in Committed => handles'[r] = handles[r],
         handles'[r] \cap tensors # {} => handles[r] \cap tensors # {},
         In({"held"})' = IF m.create THEN In({"held"}) \cup {r} ELSE In({"held"}) \ {r},
         Cardinality(BytesOf(In({"held"})')) <= Bound,
         \A h \in tensors : h < handle_counter'
  PROVE  DeviceInv'
<1>1. PICK had \in [0 .. Len(pipe) -> SUBSET Requests] : Lags(had)
  BY DEF DeviceInv
<1>2. PICK n \in Nat : n = Len(pipe) /\ pipe \in Seq(Messages)
  BY LenProperties DEF DeviceInv, CacheInv, TypeOK
<1>3. /\ Len(pipe') = n + 1
      /\ \A i \in 1 .. n : pipe'[i] = pipe[i]
      /\ pipe'[n + 1] = m
  BY <1>2, AppendProperties
<1>4. /\ \A k \in 0 .. (n + 1) : k \in 0 .. n \/ k = n + 1
      /\ \A i \in 1 .. (n + 1) : i \in 1 .. n \/ i = n + 1
      /\ \A i \in 1 .. n : i \in 0 .. n /\ i - 1 \in 0 .. n
      /\ n + 1 # 0 /\ 0 \in 0 .. n /\ n \in 0 .. n /\ (n + 1) - 1 = n
      /\ \A k \in 0 .. n : k # n + 1 /\ k \in 0 .. (n + 1)
  OBVIOUS
<1>5. PICK now \in SUBSET Requests : now = In({"held"})'
  <2>1. In({"held"})' \in SUBSET Requests
    BY DEF In
  <2>2. QED  BY <2>1
<1>6. \E h \in [0 .. (n + 1) -> SUBSET Requests] : h[n + 1] = now /\ \A k \in 0 .. n : h[k] = had[k]
  <2> DEFINE further == [k \in 0 .. (n + 1) |-> IF k = n + 1 THEN now ELSE had[k]]
  <2>1. further \in [0 .. (n + 1) -> SUBSET Requests]
    BY <1>1, <1>2, <1>4, <1>5
  <2>2. further[n + 1] = now /\ \A k \in 0 .. n : further[k] = had[k]
    BY <1>4
  <2> HIDE DEF further
  <2>3. QED  BY <2>1, <2>2
<1>7. PICK more \in [0 .. (n + 1) -> SUBSET Requests] : more[n + 1] = In({"held"})' /\ \A k \in 0 .. n : more[k] = had[k]
  BY <1>5, <1>6
<1>8. had[n] = In({"held"})
  BY <1>1, <1>2 DEF Lags
<1>9. \A k \in 0 .. (n + 1) : Cardinality(BytesOf(more[k])) <= Bound
  BY <1>1, <1>2, <1>4, <1>7 DEF Lags
<1>10. ASSUME NEW i \in 1 .. (n + 1)
       PROVE  \E q \in Requests :
                /\ pc'[q] \in Committed /\ pipe'[i].handles = handles'[q]
                /\ more[i] = IF pipe'[i].create THEN more[i - 1] \cup {q} ELSE more[i - 1] \ {q}
  <2>1. CASE i = n + 1
    BY <1>3, <1>4, <1>7, <1>8, <2>1, ZenonT(30)
  <2>2. CASE i \in 1 .. n
    <3>1. PICK q \in Requests :
             /\ pc[q] \in Committed /\ pipe[i].handles = handles[q]
             /\ had[i] = IF pipe[i].create THEN had[i - 1] \cup {q} ELSE had[i - 1] \ {q}
      BY <1>1, <1>2, <2>2 DEF Lags
    <3>2. pc'[q] \in Committed /\ handles'[q] = handles[q]
      BY <3>1
    <3>3. QED  BY <1>3, <1>4, <1>7, <2>2, <3>1, <3>2
  <2>3. QED  BY <1>4, <2>1, <2>2
<1>11. \A q \in Requests : handles'[q] \cap tensors' # {} => q \in more[0]
  BY <1>1, <1>4, <1>7 DEF Lags
<1>12. Lags(more)'
  <2>1. more[Len(pipe')] = In({"held"})'
    BY <1>3, <1>7
  <2>2. \A k \in 0 .. Len(pipe') : Cardinality(BytesOf(more[k])) <= Bound
    BY <1>3, <1>9
  <2>3. \A i \in 1 .. Len(pipe') : \E q \in Requests :
          /\ pc'[q] \in Committed /\ pipe'[i].handles = handles'[q]
          /\ more[i] = IF pipe'[i].create THEN more[i - 1] \cup {q} ELSE more[i - 1] \ {q}
    BY <1>3, <1>10
  <2>4. QED  BY <1>11, <2>1, <2>2, <2>3 DEF Lags, BytesOf
<1>13. \E h \in [0 .. Len(pipe') -> SUBSET Requests] : Lags(h)'
  BY <1>3, <1>6, <1>12
<1>14. \A h \in tensors' : h < handle_counter'
  OBVIOUS
<1>15. QED  BY <1>13, <1>14 DEF DeviceInv

\* A message is received: the device moves on by one.
LEMMA DrainDeviceInv ==
  ASSUME DeviceInv, CacheInv', DrainPipe
  PROVE  DeviceInv'
<1>1. PICK had \in [0 .. Len(pipe) -> SUBSET Requests] : Lags(had)
  BY DEF DeviceInv
<1>2. /\ pipe # << >> /\ pipe \in Seq(Messages)
      /\ tensors' = IF Head(pipe).create THEN tensors \cup Head(pipe).handles
                                         ELSE tensors \ Head(pipe).handles
      /\ pipe' = Tail(pipe)
      /\ UNCHANGED <<pc, handle_counter, handles>>
  BY DEF DrainPipe, cacheVars, DeviceInv, CacheInv, TypeOK
<1>3. PICK n \in Nat : Len(pipe) = n + 1
  <2>1. Len(pipe) \in Nat /\ Len(pipe) # 0
    BY <1>2, EmptySeq, LenProperties
  <2>2. Len(pipe) - 1 \in Nat /\ Len(pipe) = (Len(pipe) - 1) + 1
    BY <2>1
  <2>3. QED  BY <2>2
<1>4. /\ Head(pipe) = pipe[1] /\ Len(pipe') = n
      /\ \A i \in 1 .. n : pipe'[i] = pipe[i + 1]
  <2>1. /\ Head(pipe) = pipe[1] /\ Len(Tail(pipe)) = Len(pipe) - 1
        /\ \A i \in 1 .. (Len(pipe) - 1) : Tail(pipe)[i] = pipe[i + 1]
    BY <1>2, EmptySeq, HeadTailProperties
  <2>2. (n + 1) - 1 = n
    OBVIOUS
  <2>3. QED  BY <1>2, <1>3, <2>1, <2>2
<1> DEFINE rest == [k \in 0 .. n |-> had[k + 1]]
<1>5. /\ \A k \in 0 .. n : k + 1 \in 0 .. (n + 1)
      /\ \A i \in 1 .. n : i + 1 \in 1 .. (n + 1) /\ i - 1 \in 0 .. n /\ i \in 0 .. n /\ (i + 1) - 1 = i /\ (i - 1) + 1 = i
      /\ 1 \in 1 .. (n + 1) /\ 0 \in 0 .. n /\ n \in 0 .. n /\ 0 + 1 = 1 /\ 1 - 1 = 0
  OBVIOUS
<1>6. rest \in [0 .. n -> SUBSET Requests] /\ \A k \in 0 .. n : rest[k] = had[k + 1]
  BY <1>1, <1>3, <1>5
<1> HIDE DEF rest
<1>7. rest[n] = In({"held"})' /\ \A k \in 0 .. n : Cardinality(BytesOf(rest[k])) <= Bound
  BY <1>1, <1>2, <1>3, <1>5, <1>6 DEF Lags, In
<1>8. ASSUME NEW i \in 1 .. n
      PROVE  \E q \in Requests :
               /\ pc'[q] \in Committed /\ pipe'[i].handles = handles'[q]
               /\ rest[i] = IF pipe'[i].create THEN rest[i - 1] \cup {q} ELSE rest[i - 1] \ {q}
  <2>1. PICK q \in Requests :
           /\ pc[q] \in Committed /\ pipe[i + 1].handles = handles[q]
           /\ had[i + 1] = IF pipe[i + 1].create THEN had[i] \cup {q} ELSE had[i] \ {q}
    <3>1. PICK j \in 1 .. Len(pipe) : j = i + 1 /\ j - 1 = i
      BY <1>3, <1>5
    <3>2. \E q \in Requests :
             /\ pc[q] \in Committed /\ pipe[j].handles = handles[q]
             /\ had[j] = IF pipe[j].create THEN had[j - 1] \cup {q} ELSE had[j - 1] \ {q}
      BY <1>1 DEF Lags
    <3>3. QED  BY <3>1, <3>2
  <2>2. rest[i] = had[i + 1] /\ rest[i - 1] = had[i]
    BY <1>5, <1>6
  <2>3. QED  BY <1>2, <1>4, <2>1, <2>2
<1>9. PICK r \in Requests :
         /\ Head(pipe).handles = handles[r]
         /\ had[1] = IF Head(pipe).create THEN had[0] \cup {r} ELSE had[0] \ {r}
  <2>1. PICK j \in 1 .. Len(pipe) : j = 1 /\ j - 1 = 0
    BY <1>3, <1>5
  <2>2. \E q \in Requests :
           /\ pc[q] \in Committed /\ pipe[j].handles = handles[q]
           /\ had[j] = IF pipe[j].create THEN had[j - 1] \cup {q} ELSE had[j - 1] \ {q}
    BY <1>1 DEF Lags
  <2>3. QED  BY <1>4, <2>1, <2>2
<1>10. ASSUME NEW q \in Requests, handles'[q] \cap tensors' # {}  PROVE q \in rest[0]
  <2>1. handles[q] \cap tensors # {} => q \in had[0]
    BY <1>1 DEF Lags
  <2>2. q # r => handles[q] \cap handles[r] = {}
    BY DEF DeviceInv, CacheInv, HandleInv
  <2>3. rest[0] = had[1]
    BY <1>5, <1>6
  <2>4. QED  BY <1>2, <1>9, <1>10, <2>1, <2>2, <2>3
<1>11. Lags(rest)'
  BY <1>4, <1>7, <1>8, <1>10 DEF Lags, BytesOf
<1>12. \A h \in tensors' : h < handle_counter'
  <2>1. \A h \in handles[r] : h < handle_counter
    BY DEF DeviceInv, CacheInv, HandleInv
  <2>2. QED  BY <1>2, <1>9, <2>1 DEF DeviceInv
<1>13. QED  BY <1>4, <1>6, <1>11, <1>12 DEF DeviceInv

\* The invariant about the device is inductive, given that the accounting is right.
LEMMA NextDeviceInv == DeviceInv /\ AccountInv /\ AccountInv' /\ [Next]_vars => DeviceInv'
<1> SUFFICES ASSUME DeviceInv, AccountInv, AccountInv', [Next]_vars  PROVE DeviceInv'
  OBVIOUS
<1>0. CacheInv /\ CacheInv' /\ TypeOK /\ HandleInv
  BY NextCacheInv DEF DeviceInv, CacheInv
<1>1. CASE UNCHANGED vars
  BY <1>0, <1>1, FrameDeviceInv DEF vars, cacheVars, runtimeVars
<1>2. ASSUME NEW r \in Requests, Commit(r)  PROVE DeviceInv'
  <2>1. PICK hs, m :
           /\ hs = handle_counter .. (handle_counter + NumTensors[r] - 1)
           /\ m = Message(hs, TRUE)
           /\ pc[r] = "dequeued" /\ pc' = [pc EXCEPT ![r] = "held"]
           /\ handles' = [handles EXCEPT ![r] = hs] /\ pipe' = Append(pipe, m)
           /\ handle_counter' = handle_counter + NumTensors[r] /\ UNCHANGED tensors
    BY <1>2 DEF Commit, Goto, runtimeVars
  <2>2. handle_counter \in Nat /\ NumTensors[r] \in Nat /\ tensors \in SUBSET Nat
    BY <1>0 DEF TypeOK
  <2>3. hs \in SUBSET Nat /\ \A h \in hs : h >= handle_counter
    BY <2>1, <2>2
  <2>4. m \in Messages /\ m.create /\ m.handles = hs
    BY <2>1, <2>3 DEF Message, Messages
  <2>5. /\ handles'[r] = hs /\ pc'[r] = "held"
        /\ \A q \in Requests \ {r} : handles'[q] = handles[q] /\ pc'[q] = pc[q]
    BY <1>0, <2>1 DEF TypeOK
  <2>6. \A h \in tensors : h \in Nat /\ h < handle_counter
    BY <2>2 DEF DeviceInv
  <2>7. hs \cap tensors = {} /\ \A h \in tensors : h < handle_counter'
    BY <2>1, <2>2, <2>3, <2>6
  <2>8. In({"held"})' = In({"held"}) \cup {r}
    BY <1>0, <2>1, EnterIn
  <2>9. Cardinality(BytesOf(In({"held"})')) <= Bound
    BY HeldWithinBoundNext
  <2>10. pc[r] \notin Committed /\ pc'[r] \in Committed
    BY <2>1, <2>5 DEF Committed
  <2>11. QED  BY <1>0, <2>1, <2>4, <2>5, <2>7, <2>8, <2>9, <2>10, SendDeviceInv
<1>3. ASSUME NEW r \in Requests, Free(r)  PROVE DeviceInv'
  <2>1. PICK m :
           /\ m = Message(handles[r], FALSE)
           /\ pc[r] = "held" /\ pc' = [pc EXCEPT ![r] = "signalling"]
           /\ pipe' = Append(pipe, m) /\ UNCHANGED <<handles, handle_counter, tensors>>
    BY <1>3 DEF Free, Goto, runtimeVars
  <2>2. m \in Messages /\ ~m.create /\ m.handles = handles[r]
    BY <1>0, <2>1 DEF Message, Messages, TypeOK
  <2>3. pc'[r] = "signalling" /\ \A q \in Requests \ {r} : pc'[q] = pc[q]
    BY <1>0, <2>1 DEF TypeOK
  <2>4. In({"held"})' = In({"held"}) \ {r}
    <3>1. pc[r] \in {"held"} /\ "signalling" \notin {"held"}
      BY <2>1
    <3>2. QED  BY <1>0, <2>1, <3>1, LeaveIn
  <2>5. Cardinality(BytesOf(In({"held"})')) <= Bound
    BY HeldWithinBoundNext
  <2>6. pc'[r] \in Committed
    BY <2>3 DEF Committed
  <2>7. \A h \in tensors : h < handle_counter'
    BY <2>1 DEF DeviceInv
  <2>8. QED  BY <1>0, <2>1, <2>2, <2>3, <2>4, <2>5, <2>6, <2>7, SendDeviceInv
<1>4. ASSUME NEW r \in Requests, Handler(r), ~Commit(r), ~Free(r)  PROVE DeviceInv'
  <2> USE DEF Enqueue, CheckImmediate, CheckLocked, FinishWaiting, CancelLocking,
              CancelWaiting, Fail, Dequeue, SignalFreed, SubmitStep, Goto
  <2>1. UNCHANGED <<handle_counter, handles, pipe, tensors>>
    BY <1>4 DEF Handler, cacheVars, runtimeVars
  <2>2. \A q \in Requests : q # r => pc'[q] = pc[q]
    BY <1>0, <1>4 DEF Handler, TypeOK
  <2>3. \/ pc[r] \notin {"held", "signalling", "done"} /\ pc'[r] # "held"
        \/ pc[r] = "signalling" /\ pc'[r] = "done"
        \/ pc'[r] = pc[r]
    BY <1>0, <1>4 DEF Handler, TypeOK
  <2> HIDE DEF Enqueue, CheckImmediate, CheckLocked, FinishWaiting, CancelLocking,
              CancelWaiting, Fail, Dequeue, SignalFreed, SubmitStep, Goto
  <2>4. \A q \in Requests : pc'[q] = "held" <=> pc[q] = "held"
    BY <2>2, <2>3
  <2>5. \A q \in Requests : pc[q] \in Committed => pc'[q] \in Committed
    BY <2>2, <2>3 DEF Committed
  <2>6. QED  BY <1>0, <2>1, <2>4, <2>5, FrameDeviceInv
<1>5. ASSUME NEW r \in Requests, Thread(r)  PROVE DeviceInv'
  <2>1. UNCHANGED <<pc, handle_counter, handles, pipe, tensors>>
    BY <1>5 DEF Thread, AcquireLock, TestAvailable, ParkOnEvent, WakeFromEvent,
                WaitTimesOut, ClearEvent, cacheVars, runtimeVars
  <2>2. QED  BY <1>0, <2>1, FrameDeviceInv
<1>6. CASE DrainPipe  BY <1>0, <1>6, DrainDeviceInv
<1>7. ASSUME NEW r \in Requests, StartStep(r) \/ UseCache(r)  PROVE DeviceInv'
  <2>1. UNCHANGED <<pc, handle_counter, handles, pipe, tensors>>
    BY <1>7 DEF StartStep, UseCache, cacheVars
  <2>2. QED  BY <1>0, <2>1, FrameDeviceInv
<1>8. QED  BY <1>1, <1>2, <1>3, <1>4, <1>5, <1>6, <1>7 DEF Next, Runtime

\* The tensors of the runtime never take more memory than the bound on what requests
\* hold: the runtime may lag behind, but only along states that kept the bound.
THEOREM DeviceOvershootIsBounded == Spec => [](DeviceBytes <= Bound)
<1>1. DeviceInv => DeviceBytes <= Bound
  <2> SUFFICES ASSUME DeviceInv  PROVE DeviceBytes <= Bound
    OBVIOUS
  <2> DEFINE there == {r \in Requests : handles[r] \cap tensors # {}}
  <2>1. PICK had \in [0 .. Len(pipe) -> SUBSET Requests] : Lags(had)
    BY DEF DeviceInv
  <2>2. 0 \in 0 .. Len(pipe)
    BY LenProperties DEF DeviceInv, CacheInv, TypeOK
  <2>3. /\ there \subseteq had[0] /\ had[0] \in SUBSET Requests
        /\ Cardinality(BytesOf(had[0])) <= Bound
    BY <2>1, <2>2 DEF Lags
  <2>4. BytesOf(there) \subseteq BytesOf(had[0])
    BY <2>3 DEF BytesOf
  <2>5. IsFiniteSet(BytesOf(had[0])) /\ Cardinality(BytesOf(had[0])) \in Nat
    BY <2>3, BytesFinite
  <2>6. Cardinality(BytesOf(there)) <= Cardinality(BytesOf(had[0])) /\ Cardinality(BytesOf(there)) \in Nat
    BY <2>4, <2>5, FS_Subset, FS_CardinalityType
  <2>7. Bound \in Int
    BY FS_CardinalityType DEF Bound
  <2> HIDE DEF there
  <2>8. Cardinality(BytesOf(there)) <= Bound
    BY <2>3, <2>5, <2>6, <2>7
  <2>9. QED  BY <2>8 DEF DeviceBytes, there
<1>2. QED  BY <1>1, InitDeviceInv, NextDeviceInv, AccountInvHolds, PTL DEF Spec

\* With a single handler process the runtime never needs more memory than
\* max_size_bytes, however far it is behind with the pipe.
THEOREM OneProcessKeepsDevice ==
  ASSUME Cardinality(Procs) = 1
  PROVE  Spec => []DeviceWithinBudget
<1>1. Bound = MaxSize
  BY DEF Bound
<1>2. DeviceBytes <= Bound => DeviceWithinBudget
  BY <1>1 DEF DeviceWithinBudget
<1>3. QED  BY <1>2, DeviceOvershootIsBounded, PTL
================================================================================
