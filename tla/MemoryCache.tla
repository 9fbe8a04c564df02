------------------------------ MODULE MemoryCache ------------------------------
(***************************************************************************)
(* The contiguous attention cache of a server (server/memory_cache.py).    *)
(* Connection handlers, one event loop per process, allocate cache memory  *)
(* against a byte budget shared through multiprocessing counters.  The     *)
(* runtime process owns the tensors and learns of allocations and          *)
(* deletions from a pipe, which it drains each time it uses the cache.     *)
(*                                                                         *)
(* A request is one call of allocate_cache: it is admitted or refused, is  *)
(* held while the session lasts, and is freed.  Its coroutine pc[r] runs   *)
(* on the event loop of Proc[r]; th[r] is the executor thread that works   *)
(* for it.  A cancelled coroutine does not stop its thread.                *)
(***************************************************************************)
EXTENDS Integers, Sequences, FiniteSets

CONSTANTS
  Requests,         \* calls of allocate_cache
  Procs,            \* connection handler processes
  Proc,             \* the process that serves each request
  Size,             \* get_allocation_size of each request, in bytes
  LargestSize,      \* a bound on the size of a request
  NumTensors,       \* number of tensor descriptors of each request
  Timeout,          \* the timeout each request asks for
  MaxAllocTimeout,  \* max_alloc_timeout of the server
  MaxSize,          \* max_size_bytes
  PipeCapacity,     \* messages the OS pipe buffers before send() blocks
  Nobody            \* no request

TimeoutKinds == {"zero", "timed", "unlimited"}

ASSUME ConstantsAssumption ==
  /\ IsFiniteSet(Requests) /\ Requests # {}
  /\ IsFiniteSet(Procs)
  /\ Proc \in [Requests -> Procs]
  /\ Size \in [Requests -> Nat]
  /\ LargestSize \in Nat
  /\ \A r \in Requests : Size[r] <= LargestSize
  /\ NumTensors \in [Requests -> Nat]
  /\ Timeout \in [Requests -> TimeoutKinds]
  /\ MaxAllocTimeout \in TimeoutKinds
  /\ MaxSize \in Nat
  /\ PipeCapacity \in Nat \ {0}
  /\ Nobody \notin Requests

VARIABLES
  pc,               \* where the coroutine of each request is
  th,               \* where the executor thread of each request is
  current_size,     \* _current_size
  enqueued_size,    \* _enqueued_size
  lock,             \* who took _lock_acquire_memory
  freed_event,      \* the flag of _memory_freed_event
  handle_counter,   \* _handle_counter
  handles,          \* the handles returned to each request
  pipe,             \* messages of handlers not yet received by the runtime
  tensors,          \* the keys of _allocated_tensors
  submitted,        \* requests with an inference step queued for the runtime
  running,          \* the request whose step the runtime executes
  result            \* what the last step of each request came to

cacheVars   == <<current_size, enqueued_size, handle_counter, handles>>
runtimeVars == <<tensors, submitted, running, result>>
vars == <<pc, th, lock, freed_event, pipe, cacheVars, runtimeVars>>

--------------------------------------------------------------------------------
(* Helpers *)

\* timeout = min(timeout, self.max_alloc_timeout)
EffTimeout(r) ==
  IF "zero" \in {Timeout[r], MaxAllocTimeout} THEN "zero"
  ELSE IF "timed" \in {Timeout[r], MaxAllocTimeout} THEN "timed"
  ELSE "unlimited"

\* Mutant of Fits: off by one.
FitsOffByOne(r) == current_size + Size[r] <= MaxSize + 1

Fits(r) == current_size + Size[r] <= MaxSize

\* Coroutine states between two awaits: the event loop runs nothing else.
RunningStates == {"checking", "admitted", "dequeued", "failing", "signalling"}

LoopFree(r) ==
  \A q \in Requests : Proc[q] = Proc[r] => pc[q] \notin RunningStates

Goto(r, from, to) == pc[r] = from /\ pc' = [pc EXCEPT ![r] = to]

ThreadGoto(r, from, to) == th[r] = from /\ th' = [th EXCEPT ![r] = to]

Message(hs, create) == [handles |-> hs, create |-> create]

--------------------------------------------------------------------------------
(* Admission: _wait_for_free_memory *)

\* The request enters the queue; unless its timeout is zero, its loop moves on
\* at once to take the lock in an executor thread.
Enqueue(r) ==
  /\ LoopFree(r)
  /\ pc[r] = "idle"
  /\ enqueued_size' = enqueued_size + Size[r]
  /\ IF EffTimeout(r) = "zero"
     THEN /\ pc' = [pc EXCEPT ![r] = "checking"]
          /\ UNCHANGED th
     ELSE /\ pc' = [pc EXCEPT ![r] = "locking"]
          /\ th' = [th EXCEPT ![r] = "acquiring"]
  /\ UNCHANGED <<lock, freed_event, pipe, current_size, handle_counter, handles, runtimeVars>>

\* A zero timeout fails at once when current and queued requests do not fit.
CheckImmediate(r) ==
  /\ pc[r] = "checking"
  /\ IF current_size + enqueued_size > MaxSize
     THEN /\ pc' = [pc EXCEPT ![r] = "failing"]
          /\ UNCHANGED th
     ELSE /\ pc' = [pc EXCEPT ![r] = "locking"]
          /\ th' = [th EXCEPT ![r] = "acquiring"]
  /\ UNCHANGED <<lock, freed_event, pipe, cacheVars, runtimeVars>>

\* External (hivemind enter_asynchronously): a thread blocks in lock.acquire().
AcquireLock(r) ==
  /\ ThreadGoto(r, "acquiring", "acquired")
  /\ lock = Nobody
  /\ lock' = r
  /\ UNCHANGED <<pc, freed_event, pipe, cacheVars, runtimeVars>>

\* External (hivemind enter_asynchronously): async_timeout cancels the task while
\* it awaits the lock.  The thread is withdrawn only if it has not started yet;
\* otherwise it still takes the lock, which then nobody releases.
CancelLocking(r) ==
  /\ LoopFree(r)
  /\ EffTimeout(r) = "timed"
  /\ Goto(r, "locking", "failing")
  /\ \/ th[r] = "acquiring" /\ th' = [th EXCEPT ![r] = "none"]
     \/ UNCHANGED th
  /\ UNCHANGED <<lock, freed_event, pipe, cacheVars, runtimeVars>>

\* Mutant of CheckLocked: the budget is not tested.
CheckLockedAdmits(r) ==
  /\ LoopFree(r) /\ pc[r] = "locking" /\ th[r] = "acquired"
  /\ pc' = [pc EXCEPT ![r] = "admitted"]
  /\ th' = [th EXCEPT ![r] = "none"]
  /\ lock' = Nobody
  /\ UNCHANGED <<freed_event, pipe, cacheVars, runtimeVars>>

\* The coroutine resumes inside the lock and checks the budget.
CheckLocked(r) ==
  /\ LoopFree(r)
  /\ pc[r] = "locking"
  /\ th[r] = "acquired"
  /\ \/ /\ Fits(r)
        /\ pc' = [pc EXCEPT ![r] = "admitted"]
        /\ th' = [th EXCEPT ![r] = "none"]
        /\ lock' = Nobody
     \/ /\ ~Fits(r)
        /\ EffTimeout(r) = "zero"
        /\ pc' = [pc EXCEPT ![r] = "failing"]
        /\ th' = [th EXCEPT ![r] = "none"]
        /\ lock' = Nobody
     \/ /\ ~Fits(r)
        /\ EffTimeout(r) # "zero"
        /\ pc' = [pc EXCEPT ![r] = "waiting"]
        /\ th' = [th EXCEPT ![r] = "testing"]
        /\ UNCHANGED lock
  /\ UNCHANGED <<freed_event, pipe, cacheVars, runtimeVars>>

\* _wait_until_available, the loop condition (and the oversized request).
TestAvailable(r) ==
  /\ th[r] = "testing"
  /\ th' = [th EXCEPT ![r] = IF Size[r] > MaxSize THEN "gaveup"
                             ELSE IF Fits(r) THEN "available" ELSE "parking"]
  /\ UNCHANGED <<pc, lock, freed_event, pipe, cacheVars, runtimeVars>>

\* multiprocessing.Event.wait returns at once when the flag is set, else blocks.
ParkOnEvent(r) ==
  /\ ThreadGoto(r, "parking", IF freed_event THEN "clearing" ELSE "blocked")
  /\ UNCHANGED <<pc, lock, freed_event, pipe, cacheVars, runtimeVars>>

\* A notified waiter returns the flag as it finds it: another thread may have
\* cleared it meanwhile, which the caller takes for a timeout.
WakeFromEvent(r) ==
  /\ ThreadGoto(r, "notified", IF freed_event THEN "clearing" ELSE "gaveup")
  /\ UNCHANGED <<pc, lock, freed_event, pipe, cacheVars, runtimeVars>>

\* Event.wait(remaining_time) runs out.
WaitTimesOut(r) ==
  /\ EffTimeout(r) = "timed"
  /\ ThreadGoto(r, "blocked", IF freed_event THEN "clearing" ELSE "gaveup")
  /\ UNCHANGED <<pc, lock, freed_event, pipe, cacheVars, runtimeVars>>

\* Mutant of ClearEvent: waits again without testing.
ClearEventParks(r) ==
  /\ ThreadGoto(r, "clearing", "parking")
  /\ freed_event' = FALSE
  /\ UNCHANGED <<pc, lock, pipe, cacheVars, runtimeVars>>

ClearEvent(r) ==
  /\ ThreadGoto(r, "clearing", "testing")
  /\ freed_event' = FALSE
  /\ UNCHANGED <<pc, lock, pipe, cacheVars, runtimeVars>>

\* Mutant of FinishWaiting: the lock is not released.
FinishWaitingLocked(r) ==
  /\ LoopFree(r)
  /\ th[r] \in {"available", "gaveup"}
  /\ Goto(r, "waiting", IF th[r] = "available" THEN "admitted" ELSE "failing")
  /\ th' = [th EXCEPT ![r] = "none"]
  /\ UNCHANGED <<lock, freed_event, pipe, cacheVars, runtimeVars>>

\* The coroutine resumes with the thread's verdict and leaves the lock.
FinishWaiting(r) ==
  /\ LoopFree(r)
  /\ th[r] \in {"available", "gaveup"}
  /\ Goto(r, "waiting", IF th[r] = "available" THEN "admitted" ELSE "failing")
  /\ th' = [th EXCEPT ![r] = "none"]
  /\ lock' = Nobody
  /\ UNCHANGED <<freed_event, pipe, cacheVars, runtimeVars>>

\* async_timeout cancels the task while it awaits the thread: the lock is left,
\* the thread keeps running and its verdict is ignored.
CancelWaiting(r) ==
  /\ LoopFree(r)
  /\ EffTimeout(r) = "timed"
  /\ Goto(r, "waiting", "failing")
  /\ lock' = Nobody
  /\ UNCHANGED <<th, freed_event, pipe, cacheVars, runtimeVars>>

\* Mutant of Fail: no finally block.
FailKeepsQueue(r) ==
  /\ Goto(r, "failing", "failed")
  /\ UNCHANGED <<th, lock, freed_event, pipe, cacheVars, runtimeVars>>

\* The finally block of a refused request; AllocationFailed is raised.
Fail(r) ==
  /\ Goto(r, "failing", "failed")
  /\ enqueued_size' = enqueued_size - Size[r]
  /\ UNCHANGED <<th, lock, freed_event, pipe, current_size, handle_counter, handles, runtimeVars>>

\* An admitted request leaves the queue, outside the lock.
Dequeue(r) ==
  /\ Goto(r, "admitted", "dequeued")
  /\ enqueued_size' = enqueued_size - Size[r]
  /\ UNCHANGED <<th, lock, freed_event, pipe, current_size, handle_counter, handles, runtimeVars>>

--------------------------------------------------------------------------------
(* Allocation and release, both under _lock_metadata, which is held while a *)
(* full pipe blocks send(); the event loop of the process stands still then *)

\* _schedule_alloc: the memory is accounted for and the runtime is told.
Commit(r) ==
  LET hs == handle_counter .. (handle_counter + NumTensors[r] - 1)
  IN  /\ Goto(r, "dequeued", "held")
      /\ Len(pipe) < PipeCapacity
      /\ handles' = [handles EXCEPT ![r] = hs]
      /\ current_size' = current_size + Size[r]
      /\ handle_counter' = handle_counter + NumTensors[r]
      /\ pipe' = Append(pipe, Message(hs, TRUE))
      /\ UNCHANGED <<th, lock, freed_event, enqueued_size, runtimeVars>>

\* _free, when the session ends, fails or is cancelled (also while a step is
\* queued or running, and at once if it was cancelled during the allocation).
Free(r) ==
  /\ LoopFree(r)
  /\ Goto(r, "held", "signalling")
  /\ Len(pipe) < PipeCapacity
  /\ pipe' = Append(pipe, Message(handles[r], FALSE))
  /\ current_size' = current_size - Size[r]
  /\ UNCHANGED <<th, lock, freed_event, enqueued_size, handle_counter, handles, runtimeVars>>

\* _memory_freed_event.set() follows outside the lock and notifies every waiter.
SignalFreed(r) ==
  /\ Goto(r, "signalling", "done")
  /\ freed_event' = TRUE
  /\ th' = [q \in Requests |-> IF th[q] = "blocked" THEN "notified" ELSE th[q]]
  /\ UNCHANGED <<lock, pipe, cacheVars, runtimeVars>>

--------------------------------------------------------------------------------
(* The runtime: use_cache *)

\* A handler queues an inference step for a cache it holds.
SubmitStep(r) ==
  /\ LoopFree(r)
  /\ pc[r] = "held"
  /\ r \notin submitted
  /\ running # r
  /\ submitted' = submitted \cup {r}
  /\ UNCHANGED <<pc, th, lock, freed_event, pipe, cacheVars, tensors, running, result>>

\* The runtime starts a queued step and enters use_cache.
StartStep(r) ==
  /\ running = Nobody
  /\ r \in submitted
  /\ submitted' = submitted \ {r}
  /\ running' = r
  /\ UNCHANGED <<pc, th, lock, freed_event, pipe, cacheVars, tensors, result>>

\* Mutant of DrainPipe: deletions are ignored.
DrainPipeKeeps ==
  /\ running # Nobody
  /\ pipe # << >>
  /\ tensors' = IF Head(pipe).create THEN tensors \cup Head(pipe).handles ELSE tensors
  /\ pipe' = Tail(pipe)
  /\ UNCHANGED <<pc, th, lock, freed_event, cacheVars, submitted, running, result>>

\* One pass of the loop that reads creation and deletion requests.
DrainPipe ==
  /\ running # Nobody
  /\ pipe # << >>
  /\ tensors' = IF Head(pipe).create THEN tensors \cup Head(pipe).handles
                                     ELSE tensors \ Head(pipe).handles
  /\ pipe' = Tail(pipe)
  /\ UNCHANGED <<pc, th, lock, freed_event, cacheVars, submitted, running, result>>

\* Mutant of UseCache: the pipe is not read to its end.
UseCacheEarly(r) ==
  /\ running = r
  /\ result' = [result EXCEPT ![r] = IF handles[r] \subseteq tensors THEN "ok" ELSE "keyerror"]
  /\ running' = Nobody
  /\ UNCHANGED <<pc, th, lock, freed_event, pipe, cacheVars, tensors, submitted>>

\* The pipe is empty: the step gets its tensors, or a KeyError.
UseCache(r) ==
  /\ running = r
  /\ pipe = << >>
  /\ result' = [result EXCEPT ![r] = IF handles[r] \subseteq tensors THEN "ok" ELSE "keyerror"]
  /\ running' = Nobody
  /\ UNCHANGED <<pc, th, lock, freed_event, pipe, cacheVars, tensors, submitted>>

--------------------------------------------------------------------------------
Init ==
  /\ pc = [r \in Requests |-> "idle"]
  /\ th = [r \in Requests |-> "none"]
  /\ current_size = 0
  /\ enqueued_size = 0
  /\ lock = Nobody
  /\ freed_event = FALSE
  /\ handle_counter = 0
  /\ handles = [r \in Requests |-> {}]
  /\ pipe = << >>
  /\ tensors = {}
  /\ submitted = {}
  /\ running = Nobody
  /\ result = [r \in Requests |-> "none"]

Handler(r) ==
  \/ Enqueue(r) \/ CheckImmediate(r) \/ CheckLocked(r) \/ FinishWaiting(r)
  \/ CancelLocking(r) \/ CancelWaiting(r) \/ Fail(r) \/ Dequeue(r)
  \/ Commit(r) \/ Free(r) \/ SignalFreed(r) \/ SubmitStep(r)

Thread(r) ==
  \/ AcquireLock(r) \/ TestAvailable(r) \/ ParkOnEvent(r)
  \/ WakeFromEvent(r) \/ WaitTimesOut(r) \/ ClearEvent(r)

Runtime == DrainPipe \/ \E r \in Requests : StartStep(r) \/ UseCache(r)

Next == Runtime \/ \E r \in Requests : Handler(r) \/ Thread(r)

Spec == Init /\ [][Next]_vars

\* Event loops and executor threads keep running, timeouts expire and sessions
\* end.  A handler is not obliged to start or to use an allocation.
Fairness ==
  /\ WF_vars(Runtime)
  /\ \A r \in Requests :
       /\ WF_vars(CheckImmediate(r) \/ Fail(r) \/ Dequeue(r) \/ Commit(r) \/ SignalFreed(r))
       /\ WF_vars(CheckLocked(r))
       /\ WF_vars(FinishWaiting(r))
       /\ WF_vars(CancelLocking(r))
       /\ WF_vars(Free(r))
       /\ WF_vars(Thread(r))

FairSpec == Spec /\ Fairness
--------------------------------------------------------------------------------
(* Properties *)

PcStates ==
  {"idle", "checking", "locking", "waiting", "admitted", "dequeued",
   "held", "failing", "failed", "signalling", "done"}

ThStates ==
  {"none", "acquiring", "acquired", "testing", "parking", "blocked",
   "notified", "clearing", "available", "gaveup"}

Messages == [handles : SUBSET Nat, create : BOOLEAN]

\* Every variable has the type its Python counterpart has.
TypeOK ==
  /\ pc \in [Requests -> PcStates]
  /\ th \in [Requests -> ThStates]
  /\ current_size \in Int
  /\ enqueued_size \in Int
  /\ lock \in Requests \cup {Nobody}
  /\ freed_event \in BOOLEAN
  /\ handle_counter \in Nat
  /\ handles \in [Requests -> SUBSET Nat]
  /\ pipe \in Seq(Messages)
  /\ tensors \in SUBSET Nat
  /\ submitted \in SUBSET Requests
  /\ running \in Requests \cup {Nobody}
  /\ result \in [Requests -> {"none", "ok", "keyerror"}]

\* The bytes of a set of requests, each byte tagged with its request, so that
\* their number is the sum of the sizes.
BytesOf(R) == UNION {{r} \X (1 .. Size[r]) : r \in R}

In(states) == {r \in Requests : pc[r] \in states}

Queued == {"checking", "locking", "waiting", "admitted", "failing"}

\* Between admission and the moment current_size grows.
Uncounted == {"admitted", "dequeued"}

\* The two shared counters are exact whatever way requests end: current_size is
\* the memory of the requests that hold a cache, enqueued_size the memory of
\* those between entering and leaving _wait_for_free_memory.
ExactAccounting ==
  /\ current_size = Cardinality(BytesOf(In({"held"})))
  /\ enqueued_size = Cardinality(BytesOf(In(Queued)))

\* The promise of the cache (allocate_cache: a full cache raises
\* AllocationFailed): the memory in use never exceeds max_size_bytes.
BudgetRespected == current_size <= MaxSize

\* How far the check in _wait_for_free_memory, made before current_size grows,
\* lets the cache overshoot: by one uncounted request for every process but one.
OvershootBounded ==
  current_size <= MaxSize + (Cardinality(Procs) - 1) * LargestSize

\* The runtime never has tensors of more bytes than the budget: a deletion is
\* received before any creation that was admitted because of it (use_cache).
DeviceBytes == Cardinality(BytesOf({r \in Requests : handles[r] \cap tensors # {}}))
DeviceWithinBudget == DeviceBytes <= MaxSize

\* A step of a session that still holds its cache finds its tensors: KeyError is
\* only for steps whose session was freed while they were queued (use_cache).
HeldCacheIsUsable ==
  \A r \in Requests : result[r] = "keyerror" => pc[r] # "held"

\* Freed memory reaches whoever waits for it: a request without time limit that
\* can fit is granted at last (no wake-up is lost in _wait_until_available).
WaiterIsServed ==
  \A r \in Requests :
    (EffTimeout(r) = "unlimited" /\ Size[r] <= MaxSize /\ pc[r] = "locking") ~> (pc[r] = "held")

\* Every call of allocate_cache comes to an end: it is granted or refused.
EveryRequestResolves ==
  \A r \in Requests : (pc[r] \in Queued) ~> (pc[r] \in {"held", "failed"})
================================================================================
